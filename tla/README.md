# PacketTrain: verification project

PacketTrain shows one TCP conversation of a packet capture in a browser. A Flask
application (`app.py`, `packettrain/*.py`) decodes captures with TShark, a Rust
program (`indexer/src/main.rs`) indexes large captures by connection, and a single
page (`index.html`) loads a flow, analyses it and replays it. These modules are
TLA+ models of the parts where order, failure or a long sequence of legal steps
decides whether the answer on the page is right.

## 1. Inventory

| Part | State it keeps | Operations | Talks to |
| --- | --- | --- | --- |
| Index build, `indexing.py` `request_index`, `_run_index` | lock file, status file, one daemon thread per build | request, take/steal lock, progress, timeout, report, release | starts `packettrain-index scan`; polled by the page |
| Scan, `main.rs` `scan` | flow table, fragment map, `refs.bin`, `capture.sqlite`, `READY` | packet loop, write tables, publish | reads the capture; files read by extraction |
| Extraction, `main.rs` `extract`, `indexing.py` `original_frames` | nothing of its own | manifest lookup, chain walk, copy | reads the published files |
| HTTP routes, `app.py` | nothing (two workers, two threads each) | bootstrap, flow, payload, conversation page, topology, match | index, extraction, TShark |
| Loading, `index.html` | selectors, `streamRequest`, `indexedFile`, `flow`, `playback`, `selection`, status line | refresh, streams, loadSelectedFlow, loadPlayback, build | HTTP routes, by `fetch` |
| Payload panel, `index.html` + `payload.py` | `payloadState` (token, data), button | preview, next page, one frame, clear | `/api/conversation-payload`, `/api/payload` |
| Player, `index.html` + `idle.py` | clock, interval, skip timers, selected range | play, stop, scrub, step, skip a gap | timeline of `idle.timeline` |
| Stream analyses, `accounting*.py`, `retransmit.py`, `window_flow.py`, `phases.py`, `rtt.py`, `position.py` | none | functions of one stream's packets | called by `stream_detail` |
| Classifiers, `behavior.py`, `https.py`, `fingerprint.py`, `topology.py` | none | threshold tables | called by `stream_detail` and routes |

Hard behaviours: requests in two worker processes and build threads meet only
through files that are created, renamed and removed by name; a worker or the whole
container can die between any two file operations, and scan processes outlive
their worker; the page has several requests under way whose answers come in any
order and assign shared variables; payload pages are joined on the client; the
chain walk follows links read from a file. `PROJECT.json` lists these under
`hazards` with their lines.

What makes each part correct:

- *index build*: one scan at a time on an index directory; `READY` only over
  complete files; an outcome is visible before the lock goes; a dead build does not
  block the capture; a poller learns of success and of failure;
- *scan*: every reference is linked to the nearest earlier one of its connection,
  counts and chain ends agree with the references, a new generation of an endpoint
  pair starts only after the previous one closed;
- *extraction*: returns exactly the connection's frames in order, ends on any file;
- *requests*: what one answer is put together from is of one version of the capture,
  although each part is read at another time; an undisturbed request succeeds; temporary
  files go;
- *loading*: only the newest request installs a flow, the flow belongs to the
  selected capture, timeline and selection belong to the flow;
- *payload panel*: a transcript is a prefix of its conversation, each byte once and under
  its sender; what is shown is of the selected capture and of the flow on the page, if
  there is one;
- *player*: a skip always ends, a stopped clock stays where it is, play comes to an end
  through gaps, ranges and loads;
- *analyses*: agree with definitions that use none of their algorithms on overlaps,
  equal times, wraparound and missing packets, and with each other where two of them
  answer the same question (first flight and burst runs, pauses and window episodes,
  the modes of gap skipping, percentiles and median).

`stream_detail` takes `ts` out of the packets for the reply and keeps a copy with it
for the accounting (`accounting.py:117-134`). RTT, retransmission and window analyses are
then given the packets *without* `ts`; each has a fallback that does not say so. What
that costs is stated by `OpenStallIsOnlyUnresolved`, `NoSampleBehindSilence` and
`VerdictUsesTimes`.

## 2. Modules

| Module | Models | Notes |
| --- | --- | --- |
| `IndexPromise` | abstract: builds take turns, publish and withdraw | refined by `IndexBuild` |
| `IndexBuild` | `request_index`, `_run_index`, the file protocol of `scan` | one action per file operation another process can come between |
| `FlowPartition` | abstract: frames are dealt to connections in order, never moved | refined by `FlowScan` |
| `FlowScan` | the packet loop of `scan` | one action per outcome of a packet |
| `FlowRead` | the chain walk of `extract` and `original_frames` over what `FlowScan` leaves | extends `FlowScan`; any of its rows can turn out never written |
| `FlowRequest` | `bootstrap`, `flow`, `payload`, `conversation-payload` and the extraction they start, while captures are replaced and indexes rebuilt | one action per read of a file or of the capture's metadata |
| `FlowLoad` | the asynchronous functions of the page | a call that awaits is a record with the locals it captured |
| `PayloadPanel` | the panel, the packets that can be clicked, and `parse_follow_raw`'s paging | follow report as lines of some bytes of one node |
| `Player` | interval, skip timeouts, range, expanded gaps, and what loads do to them | one action per callback or event |
| `Sequencing` | selecting from a sequence and Python's stable sort, as recursive functions | `SelectSeq` and `SortSeq` have no definition the prover can expand |
| `StreamPacket` | the packets of one stream as every analysis reads them | shared helpers |
| `TcpAccounting` | ranges modulo the sequence space, outstanding bytes, bursts | `accounting_tcp.py` |
| `Retransmit` | segments, repeats, verdicts, byte totals | `retransmit.py` |
| `WindowFlow` | closed-window episodes | `window_flow.py` |
| `IdleGaps` | reasons, modes and the playback timeline | `idle.py`; uses `TcpAccounting` |
| `Phases` | runs, pauses, probes, stalls and their episodes | `phases.py`; uses `WindowFlow` |
| `RttSamples`, `CapturePosition` | sample validation and percentiles; position evidence | `rtt.py`, `position.py` |
| `StreamDetail` | `stream_detail` over a capture that grows packet by packet | composes the seven above |
| `StreamProperties` | what the analyses promise, and reference definitions | properties only |
| `SequencingProofs` | induction over sets of numbers, existence of recursive functions and folds, what a selection is, stable sorting, sums, remainders | lemmas only |
| `IndexBuildProofs`, `FlowScanProofs` (with `FlowRead`), `FlowRequestProofs`, `FlowLoadProofs`, `PayloadPanelProofs`, `PlayerProofs`, `StreamProofs` | theorems and proofs | TLAPS |
| `MC*` | small instances | constants only |

How state corresponds to code:

- **IndexBuild.** `lock`, `status`, `ready`, `db`, `dbTmp`, `refsBin`, `refsTmp` are the
  files of the cache directory of one capture (`indexing.paths`, `main.rs` 285-539).
  `refs.bin` is an inode and the set of blocks written to it, because a scan that was
  given up still writes to the inode it opened, whatever its name is by then.
  `thread[b]` and `scan[b]` are the positions of a build's thread and process; a
  crash of a worker takes its threads and requests, not its scans. `late[b]` says
  that INDEX_TIMEOUT has passed since the lock of `b` was made; unless `SlowScan` is
  TRUE that happens only once the build is over. `corrupt` says whether the scanner
  rejects the capture. Build identities are reused; that is what keeps the model
  finite.
- **FlowScan.** A packet is what `parse_tcp` and `canonical` leave: key, side, flags,
  fragment key. Numbers start at 1 so that 0 can stand for `NO_REF`. Byte counters
  and timestamps are left out: they feed the manifest only.
- **FlowRead.** One action per turn of the walk's loop, with every check it makes, and
  the three refusals. `Row(i)` is what a reader finds: zeros where the row was never
  written. Whether it was is decided (`Hole`) when the walk is about to read it; that
  is the same as deciding at the start and keeps the model small.
- **FlowRequest.** A version of the capture is also its key, since `paths()` hashes size
  and mtime: `ready`, `db`, `refs` are the files of each version's directory, and what
  they hold is the version it was scanned from. A manifest has two parts, its content and the
  identity recorded with it, because `scan` takes the metadata after the packets
  (`main.rs:451`). Each read that `call` makes takes the path of that moment; contents of
  two versions put together are `Mixed`, or an error where the code would notice. The
  record bytes are copied by offset from the capture as it is then. `temp` is the request's
  temporary file; `calm` says that nothing disturbed the request so far,
  a failure of TShark (`TSharkFails`: missing, too slow, or refusing the file) included. The
  status file of a scan that holds the lock can still say "ready" of the index before; the
  request then goes on without an index (`RequestIndex`). Scans overlap
  with each other, over ready indexes and with any number of changes of the capture; that
  there is one per directory is `IndexBuild`'s business.
- **FlowLoad.** `loads` holds the calls that wait, with the token, capture and stream
  they captured; the step that answers one runs its code to the next `await`. A reply
  of `/api/bootstrap` with status 202 passes the page's test for success and carries no
  flow (`ReplyWithoutFlow`). Several answers can be under way and come in any order. `drawn` is
  the flow whose packets are drawn: it can outlive `flow`, and a click on one of them selects it.
- **PayloadPanel.** A byte is named by its place in the conversation; the pages are
  computed by the same loop as in `payload.py`, with small `Preview` and `Page`. Each flow is
  of a capture (`CaptureOf`), and `NewFlow` installs one of the selected capture only, as
  `FlowIsOfFile` of `FlowLoad` says. `streams()` clears the flow and the panel but leaves the
  rows and dots (`drawn`); a click on one asks for its frame in whatever capture is selected,
  with a flow on the page or without. A bootstrap reply of status 202 takes the flow away
  and leaves everything else (`ReplyWithoutFlow`). A segment is known by the capture it was
  asked of and the flow whose packet was clicked.
- **Player.** One `Tick` is one turn of the 30 ms interval and moves the clock by any
  amount in `Delta`; a timeout of 800 ms is `SkipTicks` of them, and `Wait` lets it run down
  while no interval runs. A timeline is named by the flow whose gaps it compresses, so
  that one that belongs to another flow can be told; faithful mode and a failed request are
  `None`. `chart` remembers what the bounce chart was last drawn with, since the user
  points at what is drawn. Builds and timeline requests happen as `FlowLoad` allows them:
  at any time, in any order, without a token.
- **Stream analyses.** They are functions without state, so each is an operator or a
  fold whose step is the body of the source's loop, and the only variable is their
  input: `capture`, to which the action `Capture` (the environment) appends a packet that
  the scene allows, at or after the last one's time. Packets have small numbers for
  times, lengths and sequence numbers; `SeqSpace` is 16 instead of 2^32 and the initial
  numbers are chosen so that it wraps. Each packet also carries its place in the
  sender's byte stream (`at`) and the place it acknowledges (`ackat`), which no analysis
  reads: the properties use them to say what the wrapped numbers mean. `Group` are the
  packets of the reply (`ts` taken out), `Timed` the accounting's copy. Thresholds of the
  code are constants of the same order. An episode of
  `WindowFlow` has all its `probes`, which the code counts and times; that it lists only the
  first 20 of their frames is left out, as are percentages, mean and deviation, rates, and
  all wording.

## 3. Runs

Every run finishes within four minutes on two workers.

| Run | Question | Bounds and why they are enough |
| --- | --- | --- |
| `IndexHealthy` | do two requesters in two workers share one build at a time, on accepted and rejected captures, and does the protocol implement `IndexPromise`? | two requests, two build identities and inodes, two blocks: two is where sharing starts, and one block written, one not, is what a reader could notice |
| `IndexCrash` | with two crashes or restarts and one poller, is every scan alone, `READY` never premature, and an accepted capture indexed in the end? | two crashes reach a crash during the rebuild that follows the first |
| `IndexFaults` | crash, slow build and failed writes together: is a leaked lock reclaimed while somebody polls? | one build identity is enough to leak a lock |
| `FlowScan` | are references linked to the nearest earlier one and ascending, heads last, counts right, and does a generation follow a close (`ChainsAreWhole`, `CountsMatch`, `ReuseAfterClose`); are frames dealt as `FlowPartition` says? | five frames of two pairs, one fragment key, five flag sets: open, close by FIN of both sides or by RST, reopen |
| `FlowRead` | does the walk over a sound index return the flow and never refuse it (`WalkReturnsFlow`); does it end over any? | four frames, one unwritten row, a flow larger than MAX_PACKETS |
| `FlowRequest` | is an answer put together from one version if the capture stayed the same (`UnchangedIsRight`), is an undisturbed request answered, does the directory of the capture's key hold only its own content, do temporary files go? | three versions, three scans, one request: the flow is absent in the first, readable in the second, too large in the third; three versions are needed for a scan whose key, content and identity all differ |
| `FlowLoad` | which answers install, whatever their order | one capture with two streams, one with one, one that cannot be indexed; three tokens: the current load and two stale ones |
| `PayloadPanel` | are pages joined into a prefix, under the right node; is what is shown of the selected capture and of the flow on the page? | two flows of one capture and one of another: a late answer can be of another flow or of another capture; all reports of two lines of 1 or 4 bytes that node 0 begins (the parser treats both nodes alike), preview 2 and page 3 (both smaller than a line), five tokens: two captures chosen, a flow, a page and a click |
| `StreamDetail` | do the analyses agree with definitions that do not use their algorithms, and with each other? | six scenes of three or four packets (see below) |
| `Player` | does every skip end, does the clock rest while stopped, does play end (`SkippingEnds`, `PausedStaysPut`, `PlayEnds`)? | two flows of different length, two gaps that meet and one apart, six acts of user and loads: play, stop and play again with a skip pending, and a load in between |
| `IndexTorn` | "extraction rejects an incomplete index" (`docs/FLOW-INDEX.md:12`): `READY` over a refs.bin with blocks missing after a failed status write | one poller, two blocks |
| `StreamWaits` | "must not treat unresolved outstanding bytes ... as harmless idle" (`docs/DEVELOPMENT-SPEC.md:140`): a gap after an unacknowledged segment is skipped | the scenes of `StreamDetail` |

The scenes of `MCStreamDetail` are the alphabets in which the analyses can differ:
*Bytes* (overlapping, contained and re-sent segments that wrap, ACKs in between, equal
times), *Quiet* (gaps below and above every threshold, repeats, a handshake, a closed
window), *Windows* (both endpoints opening and closing, also in a SYN), *Handshake* (hop
limits and intervals, any packet missing), *Options* (window scale, SACK, RST, absent and
closed windows), *Acks* (RTT samples around their limits).
Four packets are enough for a repeat of a repeat, a burst that turns, a stall with a
probe and its reopening, and a gap with what comes before and after it; three for
a handshake.

More configurations are kept beside the regular runs. `IndexHeals.cfg` passes: after
a takeover that lets two scans overlap, a torn index always still has its writer
(`TornHasWriter`; two requests in one worker, one crash). The others end in a
counterexample to something a document, a comment or the code's intent says. Those
called `*Refuted.cfg` list several such properties; TLC stops at the first, so keep one line
to see its own.

| Configuration | Property | What refutes it |
| --- | --- | --- |
| `IndexTakeover` | `SingleScan` | after a crash two requests see one stale lock; the second removes the first one's new lock. With one request, no crash and a slow scan, that scan loses its lock and meets the next |
| `IndexRejected` | `FailureIsReported` | the poll after a failed build starts it again |
| `IndexUnneeded` | `BuildOnlyWhenNecessary` | a request that tested `is_ready` before a build ended starts another over the complete index |
| `FlowReadTorn` | `AnswerIsFrames` | a row of zeros passes the walk's checks as frame 0 of the first flow |
| `RequestRefuted` | `TempIsRemoved` (`docs/FLOW-INDEX.md:65`) | a killed worker leaves the temporary PCAP |
| | `OnlySelected` (`FLOW-INDEX.md:63`) | `app.py:239` and its like: without a ready index the flow number is taken for a TShark stream number |
| | `MappingIsOfPackets` (`FLOW-INDEX.md:64`) | frame numbers of one version, packets of the next |
| | `ValidatedIsScanned` (`FLOW-INDEX.md:20`) | `main.rs:451`: the identity recorded after the packets vouches for a newer file |
| `FlowLoadRefuted` | `PlaybackIsCurrent` (`FLOW-INDEX.md:60`) | a late timeline of another flow or mode stays |
| | `SelectionIsOfFlow` | changing the stream keeps the old selection |
| | `StatusIsCurrent` | a superseded poll keeps writing the status line |
| | `ChosenCaptureIsListed` | a click on Load while the index is built takes the token and loads nothing |
| `PayloadButton` | `RestIsOffered` | after a failed page the button stays hidden |
| | `FrameIsAsClicked` | `index.html:171` leaves the rows of the flow before: a click asks for that frame number in the capture chosen since |
| `PlayerRefuted` | `PlayStops` (`docs/DEVELOPMENT-SPEC.md:163`) | a range of an older, longer flow ends behind the clock's scale: `index.html:333` never reaches it |
| | `ChartIsOfFlow` (`DEVELOPMENT-SPEC.md:163`) | `build()` draws the chart (309) before it sets the time scale (316) |
| | `NoPacketJumped` (`idle.py:163`) | the timeout of an earlier skip moves a later play |
| | `GapsAreSkipped` (`index.html:330`) | a gap that starts where the clock is, as behind another gap, is not found by `nextCompressedAfter` |
| | `ExpandedIsOfFlow` | `index.html:132`: gaps are expanded by their start, across flows |
| `StreamRefuted` | `OpenStallIsOnlyUnresolved` (`window_flow.py:222-224`) | without `ts` an open stall is called persistent |
| | `NoSampleBehindSilence` | without `ts` the silence before a sample is never seen |
| | `VerdictUsesTimes` | nor is the time between a segment and its repeat |
| | `UniqueBytesAreUnique` | `unique_bytes` leaves out the new half of a partial repeat |
| | `StallPauseIsClosed` | a window closed and opened again before a pause makes it a stall |
| | `ShiftIsNegotiated` (`accounting_tcp.py:80`) | one SYN's scale is used although the peer's SYN came without the option |
| | `HistoryHasEveryWindow` (`accounting_tcp.py:104`) | closed windows are left out of the history as if they were absent |
| | `SymptomIsFlowControl` (`window_flow.py:143-145`) | a closed window in a SYN is called a flow-control stall by `transport_symptoms` |
| | `FallbackIsUsed` | a side known from hop limits alone selects a handshake interval that was not captured |

Deadlock is checked except in `FlowScan`, `FlowRead`, `FlowRequest` and `RequestRefuted`,
`FlowLoad*`, `PayloadPanel` and `PayloadButton`, `Player*` and `Stream*`, where the bound on
frames, versions, tokens, acts or packets lets the model stop.

### Fairness

`IndexBuild`: weak fairness of each request's polling (`waitForIndex` polls every 250
ms for ever), of each thread's next statement, of each running scan and of time. No
fairness of crashes, write failures, progress lines, users or of killing a slow scan.
`FlowRead`: a walk that started is carried on. `FlowLoad`: every request is
answered (only `ChosenCaptureIsListed` uses it). `Player`: the browser goes on calling the
interval and runs timeouts that are due; no fairness of replies. Nothing obliges a
user.

## 4. Proofs

`FlowScanProofs` proves for every set of keys, fragments, flags and every length of
capture that the scan's tables are well typed (`TypeCorrect`), that chains are whole
(`WholeChains`: references linked, heads last, frames ascending) and that generations follow
a close (`GenerationsFollowClose`). Linked alone is not inductive: that a new reference
may name `lastRef` as the nearest earlier one needs that `lastRef` really is the last, and
the other way round; ascending frames need that no reference is ahead of `frame`;
generations need that the active flow of a key is its newest. The invariant has these as
named conjuncts, and the step proof has one case per kind of packet.

The manifest comes with them (`CountsAgree`): every frame recorded for a flow is a
reference that is not yet among those it owns, so the packet count grows with their
cardinality. The scan implements `FlowPartition` (`ImplementsPartition`): the frames of a flow are
selected from `refs.bin` by a recursive function, so the proof first shows that the function exists and
that one more reference adds one frame to its owner and nothing to the others (`FramesAfter`);
a flow that is founded has no frames yet because `Linked` lets no reference name a flow that is not
in the table. The walk puts all of it together: over an index the scanner wrote, the
walk returns exactly the frames of the flow in order and none of its checks ever refuses it
(`WalkIsRight`). The walk's invariant (`WalkKnows`) says that it stands on a reference of its
flow and has read all later ones, once each; that reading one more leaves nothing out is
`Linked`, that the result is sorted is `FramesAscend`, that the length check does not fire
is `CountsMatch`.

`FlowRequestProofs` proves for every number of versions and scans, and whatever the
connection asked for is, that the directory of the capture's key holds nothing scanned from
another version (`IndexIsCurrent`), that READY stands over a manifest and references of one
content (`ReadyVouches`), that the answer of a request during which the capture stayed the
same is of that capture (`AnswersAreOfCapture`), that a request nothing disturbed is
answered as the capture deserves (`QuietIsAnswered`), that a temporary file goes with its
request (`TempGoesWithRequest`), and type correctness (`TypeCorrect`). The key idea is an order: a directory holds nothing older than its key and nothing newer than
the capture (`DirectoriesInOrder`), so the directory of the newest key can only hold the
newest content, even though a scan may open a newer capture than its key says.
`ScanKnows` carries this through the scan's steps and `CallReadsCapture` through the
request's. No property of the lock is used. For `QuietIsAnswered` the same order is needed of the identity
a manifest carries (`IdentityInOrder`): while the request is calm the ready directory of its
key can only vouch for the capture as it is, so none of the extraction's comparisons can
refuse it (`CalmCallGoesOn`).

`FlowLoadProofs` proves for every set of captures and streams and every number of
loads that only the newest load installs a flow (`NewestInstalls`) and that the flow on
the page belongs to the selected capture (`FlowStaysOfFile`). The installed flow is named
by the reply's own capture and stream, so the invariant says that a call whose token
is current holds the capture and the stream the selectors show (`CurrentIsSelected`), and
that at most one call is current; it is preserved because every step that changes a
selector takes a new token, and tokens in `loads` never exceed it. `TypeCorrect` needs more than
types: the token stays below its bound because each list of captures under way will take
one more (`Budget`), and a selected flow has a stream to load because every call names a
capture of the selector.

`PayloadPanelProofs` proves for every follow report, every preview and page size and every
number of requests that the panel shows a prefix of the conversation, byte for byte and
sender for sender (`TranscriptIsWhole`), that what it shows is of the selected
capture and of the flow on the page, if there is one (`PanelShowsFlow`), and its types
(`TypeCorrect`). The second is not inductive alone: the answer
to the current question must be of the selected capture, and of the flow if there is one
(`IsOf`, in `Remembered`), and while there is a flow only its own packets may be drawn
(`PageState`). A change of capture or flow either takes a new token or, like a reply without a
flow, leaves the capture and makes the flow None. The page is computed by a recursive
function over the lines of the report, so most of the work is about data: after *n* lines the loop
has seen as many bytes as they hold, and the chunks it has kept cover (`Covers`) exactly what the
page's window and those lines have in common (`ParseLinesIs`, `PageCovers`). Chunks that
cover neighbouring ranges cover their union (`JoinedCovers`); the button's request begins where
the transcript on the page ends (`Remembered`), and so the joined transcript covers a prefix.
The library's induction theorems cannot be used here; in `SequencingProofs`, `FromZero` derives
induction over a *set* of numbers from the well-foundedness of `<`, `Recursion` and `FoldExists` derive from
it that recursive functions and the folds of the library exist, and `PickedAppend` says what
selecting from a longer sequence adds.

`PlayerProofs` proves for every set of flows, timelines, speeds and number of acts that the
clock stays on the time scale (`TypeCorrect`), that a skip is only shown while the player
runs with a timeout pending (`SkipsEnd`), and that a stopped clock is moved by the user alone
(`ClockRests`). `SkippingEnds` needs that `stop` clears the skip in every handler that stops
the interval and that a timeout which finds the player stopped does nothing.

`IndexBuildProofs` proves type correctness with no condition at all: whatever crashes, is
slow or cannot be written (`TypeCorrect`). What the protocol is for holds only `Undisturbed`:
no scan outlives INDEX_TIMEOUT, no write fails, and if workers may crash there is only one
poller. Each part is needed, and TLC shows it: a slow scan loses its lock and meets its
successor, a failed status write gives the lock up over a running scan (`IndexTorn`), and two
pollers who find the stale lock of a crashed worker remove each other's (`IndexTakeover`).
Under it, for any number of requests, builds, blocks and crashes, no two scans overlap
(`BuildsTakeTurns`), `READY` stands only over complete files (`ReadyIsBacked`), and the
protocol implements `IndexPromise` (`PromiseIsKept`); without crashes an outcome is written before
its lock goes (`OutcomeIsReported`). `SingleScan` is not inductive: a scan that runs must
own the lock on disk, or be what a crash left behind, and then nobody else has created a lock
since (`LockIsOwned`). `ReadyIsComplete` needs that every file has been written as far as its
scan has come (`FilesFollowScan`), which in turn needs that no second scan truncates it. These
conditions are those of the runs `IndexHealthy` and `IndexCrash`; `IndexFaults` goes
beyond them and checks a liveness property.

`StreamProofs` proves for every scene and every capture of it that the packets of the reply are
well typed and have lost their clock (`TypeCorrect`), that smart mode skips what fast mode
skips and calls idle, and a faster replay never skips more (`SmartIsIdleOfFast`), and that
the timeline has every packet once and in order with each compressed gap between the two packets it
separates (`TimelineHasAll`). The inductive invariant is about the capture alone
(`CaptureInv`: frames are numbered in order and the clock never goes back); from it the group is
ordered in time (`InOrder`), so the stable sort leaves it as it is (`SortedIsSame`). The timeline is a
fold over the sorted packets; its invariant says of the segments after packet *i* which frames
they name, where they end, and that each compressed one joins its neighbours (`TimelineSound`);
a gap is keyed by the frame it follows, so each packet is followed by at most one.
`PhasesCoverStream` proves that the phases cover the stream: the runs of activity are cut at
places between which only idle gaps lie (`Cuts`, kept by each packet, `CutsGrow`), each run and each
pause stands at its place (`PhasesLaid`), pieces cut without a hole make up the whole
(`FlattenPieces`), and payload never more than `PacedGap`, itself no more than the idle gap, apart
cannot leave the run it began in (`PacedInOneRun`). `RoundTripIsConsistent` proves the percentiles
against the median: the sort gives the accepted samples in ascending order (`NumbersSorted`), a
percentile interpolates between two neighbours that exist (`PercentileIs`), and the 50th has weight
0 or 50 by the parity of their number (`Ranks`, `MedianAndTail`). Exchanging the endpoints exchanges
the side the hop limits and the intervals name (`HopsMirrored`, `IntervalsMirrored`). `StallsHaveTheirEpisode`
proves the receiver-window analysis: each stall is owned by one episode, which starts no later and
ends, if ever, at the first reopening after its start (`Reopens`, `RecoveryIs`), and every episode
but the last ends before the next one starts. Each stall keeps this true, whether it joins the last
episode or begins one (`AddStallGrows`, `OwnedGrows`, `EpisodesOwned`); two stalls with an opening
between them are then never in one, and two without one are never in two. It needs
a missing measurement not to be a number (`NoneIsNoNumber`).

`UniqueIsCounted`, `RepeatsWereSent` and `OutstandingIsCounted` prove the byte arithmetic of
`accounting_tcp.py` and `retransmit.py`, which works on sequence numbers modulo
`SeqSpace`. A range that wraps is split (`SplitHolds`, `TurnedCount`), sorting and merging keep
every number (`RangesSorted`, `MergeGrows`), merged ranges neither touch nor overlap, so their widths
add up to the cardinality (`TotalWidths`): each number carried is counted once. For repeats, the
segments lie at their places in the stream (`SegmentsSpan`). The code adds up the overlaps with all
segments before, which counts what they have in common more than once; the sum is 0 exactly when nothing is
shared, and never less than what is (`SharedCovers`), so after the cut to the segment's length no more is
called fresh than is (`FreshCovers`, `CountedBytes`). A reading of
outstanding bytes is the unique bytes above the ACK, of what was sent by then (`PlaceOfNumber`,
`BaseOfSyn`). The two that speak of places need the capture to be of one connection
(`SceneNumbers`: numbers are places counted from an initial number modulo `SeqSpace`, and nothing
lies beyond the space); what the code makes of a connection that carries more than the space
is outside these theorems. `UniqueIsCounted` speaks of numbers and needs only that no packet is longer than the
space (`SceneLengths`). `CapturedInv` adds to `CaptureInv` that what is captured comes from the scene.

`StallsAreNamed` joins two analyses that are computed apart. Sorting and numbering the episodes of
both directions loses none (`NumberedReports`, `ReportedSorted`): each episode the analysis finds is reported
with its frames, its start and its end. A closed window inside a pause therefore overlaps a
reported episode, and of several overlapping ones `MatchingEpisode` returns one (`OneMatches`). That it
is then *named* needs a reported episode not to be None (`NoneIsNoEpisode`). The closed windows of a pause
are among those of the stream (`PickedFewer`), so the symptom is there.

`BurstsAreWhole` proves the three loops of the bursts against where the records break. After each
record there is one burst more than there have been breaks, and their bytes are those of all records so
far (`Made`, kept by `BurstsMade`). With a longer gap, run side by side, the last burst carries no less and each
burst has one that carries no less (`Wider`, `WiderStays`), so the largest never shrinks
(`WiderFindsMore`). The first flight and the runs a rate is taken from are two more loops with a
rule of their own: the first run that is not empty is the first flight as far as it has come
(`Flown`, `FlightFlies`), and stays as it is once the flight is interrupted (`FlightIsFirst`).

All rest only on the named assumptions about constants in the modules, which TLC
evaluates in the runs, and on the hypotheses above. Every invariant of the passing runs is
stated by a theorem. Only model-checked: everything about liveness (out of the prover's
reach), and what `IndexBuild` does with slow scans and failed writes.

## 5. Plan

1. *(done)* index build, scan, extraction, loading, payload panel; proofs of scan and
   loading.
2. *(done)* stream analyses over one bounded capture, each against a reference
   definition.
3. *(done)* `Player`, with proofs of its safety properties.
4. *(done)* `FlowRequest`: the reads of one HTTP request while the index is replaced, with
   proofs.
5. *(done)* proofs of `IndexBuild` and its refinement of `IndexPromise`, and of
   `PayloadPanel`, of `FlowScan`'s refinement of `FlowPartition`, and of all stream analyses.
6. Left: the classifiers of `behavior.py`; the statistics of `rtt.py` and `burst_rate`.

## 6. Not modelled

TShark and the decoding of its output, payload decoders, drawing, behaviour, HTTPS and
fingerprint classifiers (threshold tables without state), the topology page, tests,
prototype and container files. `PROJECT.json` lists each with its reason. Real time is
abstracted to "INDEX_TIMEOUT has passed" and turns of the interval; file contents to what a reader can notice;
the capture itself does not change in `IndexBuild` (its key contains size and time of
modification, so a changed capture is another instance), but does in `FlowRequest`.
Reading a manifest that is not there makes SQLite create an empty one; that it fails
in both cases is modelled, the empty file is not, because `is_ready` also asks for READY.
The routes match, slicing and files keep nothing and read each thing once.
