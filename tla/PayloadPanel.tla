----------------------------- MODULE PayloadPanel -----------------------------
(***************************************************************************)
(* The payload panel of the browser (index.html: showPayload,              *)
(* loadConversationPayload, loadPayload, clearPayload) and the pages of a  *)
(* reassembled conversation that /api/conversation-payload serves it       *)
(* (packettrain/payload.py: parse_follow_raw).                             *)
(*                                                                         *)
(* A TShark follow report is a sequence of lines, each some bytes of one   *)
(* node; a byte is named by its place in the conversation, from 1.         *)
(***************************************************************************)
EXTENDS Integers, Sequences, SequencesExt

CONSTANTS
    Report,         \* follow reports: sequences of [node, size]
    Capture,        \* the captures of the file selector
    Flow,           \* the flows that can be on the page
    CaptureOf,      \* [Flow -> Capture]
    None,           \* no capture, no flow, no data
    Preview,        \* CONVERSATION_PREVIEW_BYTES
    Page,           \* MAX_CONVERSATION_PAGE_BYTES
    Fails,          \* TRUE: a request may be answered with an error
    MaxRequest      \* bound on the panel's request tokens

ASSUME PanelConstants ==
    /\ Report \subseteq Seq([node: {0, 1}, size: Nat \ {0}])
    /\ CaptureOf \in [Flow -> Capture]
    /\ None \notin Flow /\ None \notin Capture
    /\ Preview \in Nat \ {0} /\ Page \in Nat \ {0}
    /\ Fails \in BOOLEAN /\ MaxRequest \in Nat

VARIABLES
    report,         \* [Flow -> its follow report]
    file,           \* $('file').value: the selected capture, or None
    flow,           \* the flow on the page, or None
    drawn,          \* the flow whose packets are drawn and can be clicked, or None
    request,        \* payloadState.request
    data,           \* payloadState.data: a conversation, a segment, or None
    more,           \* the "load more" button is visible
    asked           \* requests that have not been answered

vars == <<report, file, flow, drawn, request, data, more, asked>>

-----------------------------------------------------------------------------
(* parse_follow_raw                                                         *)

Least(a, b) == IF a < b THEN a ELSE b
Most(a, b) == IF a > b THEN a ELSE b
Places(from, n) == [i \in 1..n |-> from + i]

\* consecutive bytes of one node make one chunk
AddChunk(chunks, node, bytes) ==
    IF chunks # << >> /\ Last(chunks).node = node
    THEN Append(Front(chunks), [node |-> node, bytes |-> Last(chunks).bytes \o bytes])
    ELSE Append(chunks, [node |-> node, bytes |-> bytes])

\* Mutant: what is already on the page is not counted down from the limit.
ParseLineWhole(acc, line, limit, offset) ==
    LET skip == Most(0, offset - acc.total)
        take == Least(line.size - skip, limit)
        after == [acc EXCEPT !.total = @ + line.size]
    IN  IF skip >= line.size \/ take <= 0 THEN after
        ELSE [after EXCEPT !.kept = @ + take,
                           !.chunks = AddChunk(@, line.node, Places(acc.total + skip, take))]

\* the loop body: acc is [total, kept, chunks]
ParseLine(acc, line, limit, offset) ==
    LET skip == Most(0, offset - acc.total)
        take == Least(line.size - skip, limit - acc.kept)
        after == [acc EXCEPT !.total = @ + line.size]
    IN  IF skip >= line.size \/ take <= 0 THEN after
        ELSE [after EXCEPT !.kept = @ + take,
                           !.chunks = AddChunk(@, line.node, Places(acc.total + skip, take))]

\* what the loop has after n lines
ParseLines(lines, limit, offset) ==
    LET after[n \in 0..Len(lines)] ==
            IF n = 0 THEN [total |-> 0, kept |-> 0, chunks |-> << >>]
            ELSE ParseLine(after[n - 1], lines[n], limit, offset)
    IN  after

Parse(lines, limit, offset) == ParseLines(lines, limit, offset)[Len(lines)]

\* conversation_from_follow_output
Transcript(f, limit, offset) ==
    LET page == Parse(report[f], limit, offset)
    IN  [scope |-> "conversation", of |-> f, chunks |-> page.chunks,
         length |-> page.kept, total |-> page.total]

-----------------------------------------------------------------------------
Init ==
    /\ report \in [Flow -> Report]
    /\ file = None /\ flow = None /\ drawn = None
    /\ request = 0 /\ data = None /\ more = FALSE /\ asked = {}

Room == request < MaxRequest

\* showPayload: the button is there while a conversation has bytes left
Show(d) ==
    /\ data' = d
    /\ more' = (d.scope = "conversation" /\ d.length < d.total)

\* build: packets that can be clicked, as rows and dots or only as the arrows of
\* the bounce diagram; none where the capture side is unknown
Draw(f) == drawn' \in {f, None}

\* installCombined: the flow, of the selected capture (FlowIsOfFile of FlowLoad),
\* comes with a preview of its conversation
NewFlow(f) ==
    /\ Room /\ CaptureOf[f] = file
    /\ flow' = f /\ request' = request + 1
    /\ Draw(f)
    /\ Show(Transcript(f, Preview, 0))
    /\ UNCHANGED <<report, file, asked>>

\* installCombined of a 202, which has no flow: flow becomes undefined, and
\* the page keeps what it shows
ReplyWithoutFlow ==
    /\ flow # None
    /\ flow' = None
    /\ UNCHANGED <<report, file, drawn, request, data, more, asked>>

\* a change of capture side, RTT or markers builds the page again
Rebuild ==
    /\ flow # None
    /\ Draw(flow)
    /\ UNCHANGED <<report, file, flow, request, data, more, asked>>

ClearPayload == request' = request + 1 /\ data' = None /\ more' = FALSE

\* streams(): a capture is chosen or listed again, or there is none.  The rows of
\* the flow before stay and can be clicked; its bounce diagram is hidden.
Streams(c) ==
    /\ Room
    /\ file' = c /\ flow' = None
    /\ drawn' \in {drawn, None}
    /\ ClearPayload
    /\ UNCHANGED <<report, asked>>

Ask(question) ==
    /\ request' = request + 1
    /\ asked' = asked \cup {question}
    /\ more' = FALSE

\* loadPayload, for the segment of a frame that is drawn, whatever is on the page
\* by now: the frame is asked for by its number in the selected capture
LoadPayload ==
    /\ Room /\ drawn # None
    /\ Ask([request |-> request + 1, scope |-> "segment", file |-> file, of |-> drawn,
            previous |-> None])
    /\ data' = None
    /\ UNCHANGED <<report, file, flow, drawn>>

\* Mutant: whatever the panel shows is kept as the pages so far.
LoadConversationOnto(full) ==
    /\ Room /\ flow # None
    /\ Ask([request |-> request + 1, scope |-> "preview", file |-> file, of |-> flow,
            previous |-> data])
    /\ data' = data
    /\ UNCHANGED <<report, file, flow, drawn>>

\* loadConversationPayload(full): the next page is asked for from where the
\* transcript on the page ends
LoadConversation(full) ==
    /\ Room /\ flow # None
    /\ full => more
    /\ LET previous == IF full /\ data # None /\ data.scope = "conversation"
                       THEN data ELSE None
           next == IF previous = None THEN "preview" ELSE "page" IN
        /\ Ask([request |-> request + 1, scope |-> next, file |-> file, of |-> flow,
                previous |-> previous])
        /\ data' = previous
    /\ UNCHANGED <<report, file, flow, drawn>>

\* the pages are joined; length and truncated are recomputed
Joined(previous, page) ==
    [page EXCEPT !.chunks = previous.chunks \o @, !.length = previous.length + @]

\* what the server answers, from the state of the capture
ReplyTo(t) ==
    CASE t.scope = "segment" -> [scope |-> "segment", file |-> t.file, of |-> t.of]
      [] t.scope = "preview" -> Transcript(t.of, Preview, 0)
      [] t.scope = "page"    -> Joined(t.previous, Transcript(t.of, Page, t.previous.length))

\* Mutant: an answer is shown whatever was asked since.
AnsweredAlways(t) ==
    /\ t.file # None
    /\ asked' = asked \ {t}
    /\ Show(ReplyTo(t))
    /\ UNCHANGED <<report, file, flow, drawn, request>>

Answered(t) ==
    /\ t.file # None
    /\ asked' = asked \ {t}
    /\ IF t.request = request THEN Show(ReplyTo(t)) ELSE UNCHANGED <<data, more>>
    /\ UNCHANGED <<report, file, flow, drawn, request>>

\* an error, always where no capture is named: the transcript comes back, the
\* button does not
AnswerFails(t) ==
    /\ Fails \/ t.file = None
    /\ asked' = asked \ {t}
    /\ data' = IF t.request = request /\ t.scope # "segment" THEN t.previous ELSE data
    /\ UNCHANGED <<report, file, flow, drawn, request, more>>

Next ==
    \/ \E f \in Flow : NewFlow(f)
    \/ \E c \in Capture \cup {None} : Streams(c)
    \/ ReplyWithoutFlow \/ Rebuild \/ LoadPayload
    \/ \E full \in BOOLEAN : LoadConversation(full)
    \/ \E t \in asked : Answered(t) \/ AnswerFails(t)

Spec == Init /\ [][Next]_vars

-----------------------------------------------------------------------------
(* Properties.                                                              *)

Chunk == [node: {0, 1}, bytes: Seq(Nat)]
Conversation == [scope: {"conversation"}, of: Flow, chunks: Seq(Chunk), length: Nat, total: Nat]
\* a frame of file; of is the flow whose packet was clicked
Segment == [scope: {"segment"}, file: Capture, of: Flow]

TypeOK ==
    /\ report \in [Flow -> Report]
    /\ file \in Capture \cup {None} /\ flow \in Flow \cup {None} /\ drawn \in Flow \cup {None}
    /\ request \in 0..MaxRequest /\ more \in BOOLEAN
    /\ data \in Conversation \cup Segment \cup {None}
    /\ asked \subseteq [request: 1..MaxRequest, scope: {"segment", "preview", "page"},
                        file: Capture \cup {None}, of: Flow,
                        previous: Conversation \cup {None}]

Shown == data # None /\ data.scope = "conversation"
\* the bytes of the first n chunks, one after the other, and the place where the
\* first n lines of a report end
BytesUpTo(chunks) ==
    LET upTo[n \in 0..Len(chunks)] ==
            IF n = 0 THEN << >> ELSE upTo[n - 1] \o chunks[n].bytes
    IN  upTo
Bytes(chunks) == BytesUpTo(chunks)[Len(chunks)]

LineEnds(lines) ==
    LET upTo[n \in 0..Len(lines)] ==
            IF n = 0 THEN 0 ELSE upTo[n - 1] + lines[n].size
    IN  upTo

\* a line of that node holds the place
Sends(lines, node, place) ==
    \E n \in 1..Len(lines) :
        /\ lines[n].node = node
        /\ place \in (LineEnds(lines)[n - 1] + 1)..LineEnds(lines)[n]

\* However pages are asked for, answered late, refused and joined, the panel
\* shows a prefix of the conversation: every byte once, in order, and under the
\* node that sent it.
TranscriptIsPrefix ==
    Shown =>
        /\ Bytes(data.chunks) = Places(0, data.length)
        /\ \A c \in Range(data.chunks) : \A place \in Range(c.bytes) :
                Sends(report[data.of], c.node, place)

CaptureShown == IF data.scope = "segment" THEN data.file ELSE CaptureOf[data.of]

\* However late an answer comes, and whatever was clicked while no flow was on
\* the page, the panel shows data of the selected capture and, while there is a
\* flow on the page, of that flow.
PanelIsOfFlow ==
    data # None =>
        /\ CaptureShown = file
        /\ flow # None => data.of = flow

\* A frame that is shown is the one that was clicked.  Not so: a row left from
\* the flow of another capture asks for its number in the one selected now.
FrameIsAsClicked ==
    data # None /\ data.scope = "segment" => CaptureOf[data.of] = data.file

\* While bytes of a transcript remain, the panel offers to load them.
RestIsOffered ==
    Shown /\ data.length < data.total => more \/ \E t \in asked : t.request = request
=============================================================================
