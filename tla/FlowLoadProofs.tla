--------------------------- MODULE FlowLoadProofs ---------------------------
(***************************************************************************)
(* What the token of FlowLoad achieves, for every number of captures,      *)
(* streams, calls in flight and clicks.                                    *)
(***************************************************************************)
EXTENDS FlowLoad, FiniteSetTheorems, TLAPS

\* The calls that carry a token, and what is known of the current one: it is
\* alone, of the selected capture, and a selected flow is still selected.
Tokens == {t \in loads : t.at # "files"}

Typed ==
    /\ streamRequest \in Nat
    /\ \A t \in Tokens : t.token \in Nat /\ t.token <= streamRequest

CurrentIsSelected ==
    \A t \in Tokens : Current(t) =>
        /\ t.file = file
        /\ t.at = "selected" => t.stream = stream
        /\ t.at = "bootstrap" /\ t.stream # None => t.stream = stream

LoadInv ==
    /\ Typed
    /\ OneCurrentLoad
    /\ CurrentIsSelected
    /\ FlowIsOfFile

\* A call that starts takes a token no other call has.
LEMMA NewToken ==
    ASSUME LoadInv, streamRequest' = Token,
           \E x : /\ Tokens' \subseteq Tokens \cup {x}
                  /\ x.token = Token /\ x.file = file'
                  /\ x.at = "selected" => x.stream = stream'
                  /\ x.at # "bootstrap",
           flow' # None => flow'.file = file'
    PROVE  LoadInv'
<1>1. PICK x : /\ Tokens' \subseteq Tokens \cup {x}
               /\ x.token = Token /\ x.file = file'
               /\ x.at = "selected" => x.stream = stream'
               /\ x.at # "bootstrap"
  OBVIOUS
<1>2. streamRequest \in Nat /\ streamRequest' = streamRequest + 1
  BY DEF LoadInv, Typed, Token
<1>3. \A t \in Tokens : t.token \in Nat /\ t.token < streamRequest'
  BY <1>2 DEF LoadInv, Typed
<1>4. \A t \in Tokens' : t.token = streamRequest' => t = x
  BY <1>1, <1>3
<1>5. Typed'
  BY <1>1, <1>2, <1>3 DEF Typed, Token
<1>6. OneCurrentLoad'
  BY <1>4 DEF OneCurrentLoad, Current, Tokens
<1>7. CurrentIsSelected'
  BY <1>1, <1>4 DEF CurrentIsSelected, Current
<1> QED  BY <1>5, <1>6, <1>7 DEF LoadInv, FlowIsOfFile

\* A call that returns, or one that is not about loads, leaves the tokens be.
LEMMA OldToken ==
    ASSUME LoadInv, UNCHANGED <<file, stream, streamRequest>>,
           Tokens' \subseteq Tokens,
           flow' # None => flow'.file = file'
    PROVE  LoadInv'
<1>1. Typed'
  BY DEF LoadInv, Typed
<1>2. OneCurrentLoad'
  BY DEF LoadInv, OneCurrentLoad, Current, Tokens
<1>3. CurrentIsSelected'
  BY DEF LoadInv, CurrentIsSelected, Current
<1> QED  BY <1>1, <1>2, <1>3 DEF LoadInv, FlowIsOfFile

\* The current call goes on: the streams it found are now on the page.
LEMMA SameToken ==
    ASSUME LoadInv, UNCHANGED <<file, streamRequest>>,
           NEW t \in Tokens, Current(t),
           \E x : /\ Tokens' \subseteq (Tokens \ {t}) \cup {x}
                  /\ x.token = t.token /\ x.file = t.file
                  /\ x.at # "selected"
                  /\ x.stream # None => x.stream = stream',
           flow' # None => flow'.file = file'
    PROVE  LoadInv'
<1>1. PICK x : /\ Tokens' \subseteq (Tokens \ {t}) \cup {x}
               /\ x.token = t.token /\ x.file = t.file
               /\ x.at # "selected"
               /\ x.stream # None => x.stream = stream'
  OBVIOUS
<1>2. Typed'
  BY <1>1 DEF LoadInv, Typed
<1>3. \A u \in Tokens' : u.token = streamRequest' => u = x
  BY <1>1 DEF LoadInv, OneCurrentLoad, Current, Tokens
<1>4. OneCurrentLoad'
  BY <1>3 DEF OneCurrentLoad, Current, Tokens
<1>5. t.file = file
  BY DEF LoadInv, CurrentIsSelected
<1>6. CurrentIsSelected'
  BY <1>1, <1>3, <1>5 DEF CurrentIsSelected, Current
<1> QED  BY <1>2, <1>4, <1>6 DEF LoadInv, FlowIsOfFile

\* The fields of the records the actions add to loads.
LEMMA NewStreamsIs ==
    ASSUME NEW f, NEW b
    PROVE  /\ NewStreams(f, b).token = Token /\ NewStreams(f, b).file = f
           /\ NewStreams(f, b).at = "index"
BY DEF NewStreams

LEMMA BootstrapIs ==
    ASSUME NEW t, NEW s
    PROVE  /\ Bootstrap(t, s).token = t.token /\ Bootstrap(t, s).file = t.file
           /\ Bootstrap(t, s).at = "bootstrap" /\ Bootstrap(t, s).stream = s
BY DEF Bootstrap

LEMMA InitInv == Init => LoadInv
BY DEF Init, LoadInv, Typed, Tokens, OneCurrentLoad, CurrentIsSelected, FlowIsOfFile

\* A flow is installed for the selectors as they are, or not at all.
InstallsSelected ==
    flow' \notin {flow, None} => flow' = [file |-> file', stream |-> stream']

LEMMA StepInv ==
    ASSUME LoadInv, [Next]_vars
    PROVE  LoadInv' /\ InstallsSelected
<1>1. CASE UNCHANGED vars
  <2>1. Tokens' = Tokens
    BY <1>1 DEF vars, Tokens
  <2> QED  BY <1>1, <2>1, OldToken DEF vars, LoadInv, FlowIsOfFile, InstallsSelected
<1>2. ASSUME NEW f \in File, ChooseFile(f)
      PROVE  LoadInv' /\ InstallsSelected
  <2>1. Tokens' \subseteq Tokens \cup {NewStreams(f, FALSE)}
    BY <1>2 DEF ChooseFile, Tokens
  <2>2. /\ streamRequest' = Token /\ file' = f /\ flow' = None
    BY <1>2 DEF ChooseFile, StartStreams
  <2>5. \E x : /\ Tokens' \subseteq Tokens \cup {x}
               /\ x.token = Token /\ x.file = file'
               /\ x.at = "selected" => x.stream = stream'
               /\ x.at # "bootstrap"
    <3> WITNESS NewStreams(f, FALSE)
    <3> QED  BY <2>1, <2>2, NewStreamsIs
  <2> QED  BY <2>2, <2>5, NewToken DEF InstallsSelected
<1>3. ASSUME NEW t \in loads, FilesReply(t)
      PROVE  LoadInv' /\ InstallsSelected
  <2>1. PICK f : StartStreams(f) /\ loads' = (loads \ {t}) \cup {NewStreams(f, TRUE)}
    BY <1>3 DEF FilesReply
  <2>2. Tokens' \subseteq Tokens \cup {NewStreams(f, TRUE)}
    BY <2>1 DEF Tokens
  <2>3. /\ streamRequest' = Token /\ file' = f /\ flow' = None
    BY <2>1 DEF StartStreams
  <2>5. \E x : /\ Tokens' \subseteq Tokens \cup {x}
               /\ x.token = Token /\ x.file = file'
               /\ x.at = "selected" => x.stream = stream'
               /\ x.at # "bootstrap"
    <3> WITNESS NewStreams(f, TRUE)
    <3> QED  BY <2>2, <2>3, NewStreamsIs
  <2> QED  BY <2>3, <2>5, NewToken DEF InstallsSelected
<1>4. ASSUME NEW s, LoadSelectedFlow(s)
      PROVE  LoadInv' /\ InstallsSelected
  <2> DEFINE x == [at |-> "selected", token |-> Token, file |-> file,
                   stream |-> s, refreshed |-> FALSE]
  <2>1. Tokens' \subseteq Tokens \cup {x}
    BY <1>4 DEF LoadSelectedFlow, Tokens
  <2>2. streamRequest' = Token /\ stream' = s /\ UNCHANGED <<file, flow>>
    BY <1>4 DEF LoadSelectedFlow
  <2>3. flow' # None => flow'.file = file'
    BY <2>2 DEF LoadInv, FlowIsOfFile
  <2>4. /\ x.token = Token /\ x.file = file' /\ x.stream = stream' /\ x.at # "bootstrap"
    BY <2>2
  <2>5. LoadInv'
    <3> HIDE DEF x
    <3> QED  BY <2>1, <2>2, <2>3, <2>4, NewToken
  <2> QED  BY <2>2, <2>5 DEF InstallsSelected
<1>5. ASSUME NEW t \in loads, LoadFails(t) \/ Superseded(t) \/ ReplyWithoutFlow(t)
      PROVE  LoadInv' /\ InstallsSelected
  <2>1. UNCHANGED <<file, stream, streamRequest>> /\ Tokens' \subseteq Tokens
        /\ flow' \in {flow, None}
    BY <1>5 DEF LoadFails, Superseded, ReplyWithoutFlow, Returns, Tokens
  <2> QED  BY <2>1, OldToken DEF LoadInv, FlowIsOfFile, InstallsSelected
<1>6. ASSUME NEW t \in loads, IndexReady(t)
      PROVE  LoadInv' /\ InstallsSelected
  <2>1. UNCHANGED <<file, streamRequest, flow>> /\ t \in Tokens /\ Current(t)
    BY <1>6 DEF IndexReady, Tokens
  <2>2. CASE StreamsOf[t.file] = {} /\ UNCHANGED stream /\ loads' = loads \ {t}
    <3>1. Tokens' \subseteq Tokens
      BY <2>2 DEF Tokens
    <3> QED  BY <2>1, <2>2, <3>1, OldToken DEF LoadInv, FlowIsOfFile, InstallsSelected
  <2>3. ASSUME NEW s, stream' = s, loads' = (loads \ {t}) \cup {Bootstrap(t, s)}
        PROVE  LoadInv' /\ InstallsSelected
    <3>1. Tokens' \subseteq (Tokens \ {t}) \cup {Bootstrap(t, s)}
      BY <2>3 DEF Tokens
    <3>2. \E x : /\ Tokens' \subseteq (Tokens \ {t}) \cup {x}
                 /\ x.token = t.token /\ x.file = t.file
                 /\ x.at # "selected"
                 /\ x.stream # None => x.stream = stream'
      <4> WITNESS Bootstrap(t, s)
      <4> QED  BY <2>3, <3>1, BootstrapIs
    <3> QED  BY <2>1, <3>2, SameToken DEF LoadInv, FlowIsOfFile, InstallsSelected
  <2> QED  BY <1>6, <2>2, <2>3 DEF IndexReady, Returns
<1>7. ASSUME NEW t \in loads, NotIndexed(t)
      PROVE  LoadInv' /\ InstallsSelected
  <2>1. /\ UNCHANGED <<file, streamRequest, flow>> /\ t \in Tokens /\ Current(t)
        /\ Tokens' \subseteq (Tokens \ {t}) \cup {Bootstrap(t, None)}
    BY <1>7 DEF NotIndexed, Tokens
  <2>2. \E x : /\ Tokens' \subseteq (Tokens \ {t}) \cup {x}
               /\ x.token = t.token /\ x.file = t.file
               /\ x.at # "selected"
               /\ x.stream # None => x.stream = stream'
    <3> WITNESS Bootstrap(t, None)
    <3> QED  BY <2>1, BootstrapIs
  <2> QED  BY <2>1, <2>2, SameToken DEF LoadInv, FlowIsOfFile, InstallsSelected
<1>8. ASSUME NEW t \in loads, BootstrapReply(t)
      PROVE  LoadInv' /\ InstallsSelected
  <2>1. PICK s \in IF t.stream = None THEN StreamsOf[t.file] ELSE {t.stream} :
            /\ stream' = IF t.stream = None THEN s ELSE stream
            /\ flow' = [file |-> t.file, stream |-> s]
    BY <1>8 DEF BootstrapReply, Install
  <2>2. /\ UNCHANGED <<file, streamRequest>> /\ t \in Tokens /\ Current(t)
        /\ t.at = "bootstrap" /\ Tokens' \subseteq Tokens \ {t}
    BY <1>8 DEF BootstrapReply, Returns, Tokens
  <2>3. /\ t.file = file
        /\ t.stream # None => t.stream = stream
    BY <2>2 DEF LoadInv, CurrentIsSelected
  <2>4. stream' = s
    BY <2>1, <2>3
  <2>5. flow'.file = file' /\ flow' = [file |-> file', stream |-> stream']
    BY <2>1, <2>2, <2>3, <2>4
  <2>6. \A u \in Tokens' : u.token # streamRequest
    BY <2>2 DEF LoadInv, OneCurrentLoad, Current, Tokens
  <2>7. LoadInv'
    BY <2>2, <2>5, <2>6 DEF LoadInv, Typed, OneCurrentLoad, CurrentIsSelected,
                            FlowIsOfFile, Current, Tokens
  <2> QED  BY <2>5, <2>7 DEF InstallsSelected
<1>9. ASSUME NEW t \in loads, SelectedReply(t)
      PROVE  LoadInv' /\ InstallsSelected
  <2>1. /\ UNCHANGED <<file, stream, streamRequest>> /\ t \in Tokens /\ Current(t)
        /\ t.at = "selected" /\ Tokens' \subseteq Tokens
        /\ flow' = [file |-> t.file, stream |-> t.stream]
    BY <1>9 DEF SelectedReply, Install, Returns, Tokens
  <2>2. t.file = file /\ t.stream = stream
    BY <2>1 DEF LoadInv, CurrentIsSelected
  <2>3. flow'.file = file' /\ flow' = [file |-> file', stream |-> stream']
    BY <2>1, <2>2
  <2> QED  BY <2>1, <2>3, OldToken DEF InstallsSelected
<1>10. ASSUME UNCHANGED <<file, stream, streamRequest, flow>>, Tokens' \subseteq Tokens
       PROVE  LoadInv' /\ InstallsSelected
  BY <1>10, OldToken DEF LoadInv, FlowIsOfFile, InstallsSelected
<1>11. CASE ClickRefresh
  <2>1. UNCHANGED <<file, stream, streamRequest, flow>> /\ Tokens' \subseteq Tokens
    BY <1>11 DEF ClickRefresh, Tokens
  <2> QED  BY <2>1, <1>10
<1>12. CASE \/ Rebuild \/ Select \/ ClearSelection
            \/ \E m \in Mode : ChooseMode(m)
            \/ \E t \in loads : PollIndexing(t)
            \/ \E t \in timelines : PlaybackReply(t)
  <2>1. UNCHANGED <<file, stream, streamRequest, flow, loads>>
    BY <1>12 DEF Rebuild, Select, ClearSelection, ChooseMode, PollIndexing, PlaybackReply
  <2> QED  BY <2>1, <1>10 DEF Tokens
<1> QED
  BY <1>1, <1>2, <1>3, <1>4, <1>5, <1>6, <1>7, <1>8, <1>9, <1>11, <1>12
  DEF Next, User, Answered, ChooseStream, ClickLoad

\* FlowLoad's streamRequest keeps late answers off the page (index.html, the
\* tests of request against streamRequest): whatever flow is installed is the
\* one the selectors name at that moment.
THEOREM NewestInstalls == Spec => OnlyNewestInstalls
<1>1. LoadInv /\ [Next]_vars => LoadInv' /\ [InstallsSelected]_vars
  BY StepInv
<1>2. [InstallsSelected]_vars => [flow' \notin {flow, None} => flow' = [file |-> file', stream |-> stream']]_vars
  BY DEF InstallsSelected
<1> QED  BY <1>1, <1>2, InitInv, PTL DEF Spec, OnlyNewestInstalls

\* The page never shows a flow of a capture that is not selected, and no two
\* calls that await both hold the newest token.
THEOREM FlowStaysOfFile == Spec => [](FlowIsOfFile /\ OneCurrentLoad)
<1>1. LoadInv /\ [Next]_vars => LoadInv'
  BY StepInv
<1>2. LoadInv => FlowIsOfFile /\ OneCurrentLoad
  BY DEF LoadInv
<1> QED  BY <1>1, <1>2, InitInv, PTL DEF Spec

-----------------------------------------------------------------------------
(* Types.  A token is handed out by the user's clicks and by the lists of   *)
(* captures that are on their way: Room leaves one for each of these, so    *)
(* that no answer runs into the bound.                                      *)

Lists == {t \in loads : t.at = "files"}

\* What is asked for names a selected capture, and a selected flow has a stream.
Named ==
    /\ stream # None \/ Tokens # {} => file # None
    /\ \A t \in Tokens : t.at = "selected" => t.stream # None

Budget ==
    /\ IsFiniteSet(Lists)
    /\ streamRequest + Cardinality(Lists) <= MaxRequest

TypeInv == TypeOK /\ Named /\ Budget

Status == [of: File \cup {None},
           says: {"choose", "busy", "error", "found", "listed", "loaded"}]

LEMMA InitTypes == Init => TypeInv
<1> SUFFICES ASSUME Init PROVE TypeInv
  OBVIOUS
<1>1. TypeOK
  BY LoadConstants DEF Init, TypeOK, FileList
<1>2. Named
  BY DEF Init, Named, Tokens
<1>3. Lists = {[at |-> "files", previous |-> None]}
  BY DEF Init, Lists
<1>4. IsFiniteSet(Lists) /\ Cardinality(Lists) = 1
  BY <1>3, FS_Singleton
<1>5. Budget
  BY <1>4, LoadConstants DEF Init, Budget
<1> QED  BY <1>1, <1>2, <1>5 DEF TypeInv

LEMMA TokenIsLoad ==
    ASSUME TypeOK, NEW t \in Tokens
    PROVE  t \in Load
BY DEF TypeOK, Tokens, FileList

\* The budget after a click, after an answered list, and otherwise.
LEMMA RoomForToken ==
    ASSUME TypeInv, Room
    PROVE  /\ Token \in 1..MaxRequest
           /\ Token + Cardinality(Lists) <= MaxRequest
<1>1. Cardinality(Lists) \in Nat
  BY FS_CardinalityType DEF TypeInv, Budget
<1>2. streamRequest \in Nat
  BY LoadConstants DEF TypeInv, TypeOK
<1>3. streamRequest + Cardinality(Lists) < MaxRequest
  BY DEF Room, Lists
<1> HIDE DEF Lists
<1> QED  BY <1>1, <1>2, <1>3, LoadConstants DEF Token

LEMMA ListHasToken ==
    ASSUME TypeInv, NEW t \in Lists, Lists' = Lists \ {t}, streamRequest' = Token
    PROVE  Token \in 1..MaxRequest /\ Budget'
<1>1. /\ IsFiniteSet(Lists) /\ streamRequest + Cardinality(Lists) <= MaxRequest
      /\ streamRequest \in Nat
  BY LoadConstants DEF TypeInv, TypeOK, Budget
<1>2. IsFiniteSet(Lists \ {t}) /\ Cardinality(Lists \ {t}) = Cardinality(Lists) - 1
  <2> HIDE DEF Lists
  <2> QED  BY <1>1, FS_RemoveElement
<1>3. Cardinality(Lists) \in Nat /\ Cardinality(Lists \ {t}) \in Nat
  BY <1>1, <1>2, FS_CardinalityType
<1>4. streamRequest + 1 + Cardinality(Lists \ {t}) <= MaxRequest
  BY <1>1, <1>2, <1>3, LoadConstants
<1>5. Token \in 1..MaxRequest
  <2> HIDE DEF Lists
  <2> QED  BY <1>1, <1>3, <1>4, LoadConstants DEF Token
<1> QED  BY <1>2, <1>4, <1>5 DEF Budget, Token

LEMMA SameBudget ==
    ASSUME TypeInv, Lists' = Lists,
           streamRequest' = streamRequest \/ (Room /\ streamRequest' = Token)
    PROVE  Budget'
<1>1. CASE streamRequest' = streamRequest
  BY <1>1 DEF TypeInv, Budget
<1>2. CASE Room /\ streamRequest' = Token
  BY <1>2, RoomForToken DEF TypeInv, Budget
<1> QED  BY <1>1, <1>2

LEMMA NewLoadTypes ==
    ASSUME TypeOK, Token \in 1..MaxRequest, NEW f \in File
    PROVE  \A b \in BOOLEAN : NewStreams(f, b) \in Load
BY DEF NewStreams, Load

LEMMA BootstrapTypes ==
    ASSUME NEW t \in Load, NEW s \in Stream \cup {None}
    PROVE  Bootstrap(t, s) \in Load
BY DEF Bootstrap, Load

LEMMA StartTypes ==
    ASSUME TypeOK, Token \in 1..MaxRequest, NEW f \in File, StartStreams(f),
           loads' \subseteq Load \cup FileList
    PROVE  TypeOK'
<1>1. status' \in Status
  BY DEF StartStreams, Say, Status
<1> QED  BY <1>1, LoadConstants DEF TypeOK, StartStreams, Status

LEMMA ReturnTypes ==
    ASSUME TypeOK, NEW t \in Load,
           NEW says \in {"same", "error", "listed", "loaded"}, Returns(t, says)
    PROVE  loads' = loads \ {t} /\ status' \in Status
<1>1. t.file \in File
  BY DEF Load
<1>2. status \in Status
  BY DEF TypeOK, Status
<1>3. \/ status' = [of |-> None, says |-> "found"]
      \/ status' = status
      \/ status' = [of |-> t.file, says |-> says] /\ says # "same"
  BY DEF Returns, AfterStreams, Say
<1>4. status' \in Status
  BY <1>1, <1>2, <1>3 DEF Status
<1> QED  BY <1>4 DEF Returns

LEMMA PlaybackTypes ==
    ASSUME TypeOK, NEW fl \in FlowName, NEW m \in Mode, LoadPlayback(fl, m)
    PROVE  playback' \in Timeline \cup {None} /\ timelines' \subseteq Timeline
BY DEF TypeOK, LoadPlayback, Timeline

\* A call with a token returns: what is left of TypeInv' is the page.
LEMMA AfterReturn ==
    ASSUME TypeInv, NEW t \in Tokens,
           NEW says \in {"same", "error", "listed", "loaded"}, Returns(t, says),
           UNCHANGED <<file, mode, streamRequest, selection>>,
           stream' \in Stream \cup {None}, indexedFile' \in File \cup {None},
           flow' \in FlowName \cup {None}, drawn' \in FlowName \cup {None},
           playback' \in Timeline \cup {None}, timelines' \subseteq Timeline
    PROVE  TypeInv'
<1>1. loads' = loads \ {t} /\ status' \in Status
  BY TokenIsLoad, ReturnTypes DEF TypeInv
<1>2. TypeOK'
  BY <1>1 DEF TypeInv, TypeOK, Status
<1>3. Lists' = Lists /\ Tokens' = Tokens \ {t}
  BY <1>1 DEF Lists, Tokens
<1>4. file # None
  BY DEF TypeInv, Named
<1>5. Named'
  BY <1>3, <1>4 DEF TypeInv, Named
<1>6. Budget'
  BY <1>3, SameBudget
<1> QED  BY <1>2, <1>5, <1>6 DEF TypeInv

\* A call with a token goes on to ask for a flow.
LEMMA AfterBootstrap ==
    ASSUME TypeInv, NEW t \in Tokens, NEW s \in Stream \cup {None},
           loads' = (loads \ {t}) \cup {Bootstrap(t, s)}, Say("busy", t.file),
           UNCHANGED <<file, mode, streamRequest, flow, drawn, selection, playback, timelines>>,
           stream' \in Stream \cup {None}, indexedFile' \in File \cup {None}
    PROVE  TypeInv'
<1>1. t \in Load /\ Bootstrap(t, s) \in Load
  BY TokenIsLoad, BootstrapTypes DEF TypeInv
<1>2. t.file \in File
  BY <1>1 DEF Load
<1>3. TypeOK'
  BY <1>1, <1>2 DEF TypeInv, TypeOK, Say
<1>4. /\ Lists' = Lists
      /\ Tokens' = (Tokens \ {t}) \cup {Bootstrap(t, s)}
  BY BootstrapIs DEF Lists, Tokens
<1>5. file # None
  BY DEF TypeInv, Named
<1>6. Named'
  BY <1>4, <1>5, BootstrapIs DEF TypeInv, Named
<1>7. Budget'
  BY <1>4, SameBudget
<1> QED  BY <1>3, <1>6, <1>7 DEF TypeInv

\* What the user does to the page leaves the loads alone.
LEMMA PageOnly ==
    ASSUME TypeInv, TypeOK', UNCHANGED <<file, stream, streamRequest, loads>>
    PROVE  TypeInv'
<1>1. Lists' = Lists /\ Tokens' = Tokens
  BY DEF Lists, Tokens
<1>2. Named' /\ Budget'
  BY <1>1 DEF TypeInv, Named, Budget
<1> QED  BY <1>2 DEF TypeInv

LEMMA StepTypes ==
    ASSUME TypeInv, [Next]_vars
    PROVE  TypeInv'
<1> USE DEF TypeInv
<1>1. CASE UNCHANGED vars
  <2>1. TypeOK'
    BY <1>1 DEF vars, TypeOK
  <2> QED  BY <1>1, <2>1, PageOnly DEF vars
<1>2. ASSUME NEW f \in File, ChooseFile(f)
      PROVE  TypeInv'
  <2>1. Room /\ StartStreams(f) /\ loads' = loads \cup {NewStreams(f, FALSE)}
    BY <1>2 DEF ChooseFile
  <2>2. NewStreams(f, FALSE) \in Load
    BY <2>1, RoomForToken, NewLoadTypes
  <2>3. TypeOK'
    BY <2>1, <2>2, RoomForToken, StartTypes DEF TypeOK
  <2>4. Lists' = Lists /\ Tokens' = Tokens \cup {NewStreams(f, FALSE)}
    BY ZenonT(40), <2>1, NewStreamsIs DEF Lists, Tokens
  <2>5. Named'
    <3>1. file' # None /\ stream' = None
      BY <2>1, LoadConstants DEF StartStreams
    <3>2. NewStreams(f, FALSE).at # "selected"
      BY NewStreamsIs
    <3> QED  BY <2>4, <3>1, <3>2 DEF Named
  <2>6. Budget'
    BY <2>1, <2>4, SameBudget DEF StartStreams
  <2> QED  BY <2>3, <2>5, <2>6
<1>3. CASE ClickRefresh
  <2> DEFINE x == [at |-> "files", previous |-> file]
  <2>1. /\ Room /\ loads' = loads \cup {x}
        /\ UNCHANGED <<file, stream, mode, streamRequest, indexedFile, flow, drawn,
                       selection, playback, status, timelines>>
    BY <1>3 DEF ClickRefresh
  <2>2. x \in FileList
    BY DEF FileList, TypeOK
  <2>3. TypeOK'
    BY <2>1, <2>2 DEF TypeOK
  <2>4. Lists' = Lists \cup {x} /\ Tokens' = Tokens
    BY <2>1 DEF Lists, Tokens
  <2>5. Named'
    BY <2>1, <2>4 DEF Named
  <2>6. Budget'
    <3>1. IsFiniteSet(Lists) /\ Cardinality(Lists) \in Nat
      BY FS_CardinalityType DEF Budget
    <3>2. /\ IsFiniteSet(Lists')
          /\ Cardinality(Lists') \in {Cardinality(Lists), Cardinality(Lists) + 1}
      <4> HIDE DEF Lists, x
      <4> QED  BY <3>1, <2>4, FS_AddElement
    <3>3. Token + Cardinality(Lists) <= MaxRequest
      BY <2>1, RoomForToken
    <3>4. streamRequest \in Nat
      BY LoadConstants DEF TypeOK
    <3>5. streamRequest + Cardinality(Lists') <= MaxRequest
      <4> HIDE DEF Lists, TypeInv
      <4> QED  BY <3>1, <3>2, <3>3, <3>4, LoadConstants DEF Token
    <3> QED  BY <2>1, <3>2, <3>5 DEF Budget
  <2> QED  BY <2>3, <2>5, <2>6
<1>4. ASSUME NEW t \in loads, FilesReply(t)
      PROVE  TypeInv'
  <2>1. t \in FileList /\ t \in Lists
    BY <1>4 DEF FilesReply, Lists, TypeOK, Load
  <2>2. PICK f \in File : /\ StartStreams(f)
                          /\ loads' = (loads \ {t}) \cup {NewStreams(f, TRUE)}
    BY <1>4, <2>1 DEF FilesReply, FileList
  <2>3. Lists' = Lists \ {t} /\ Tokens' = Tokens \cup {NewStreams(f, TRUE)}
    <3>1. NewStreams(f, TRUE).at = "index"
      BY NewStreamsIs
    <3>2. t.at = "files" /\ loads' = (loads \ {t}) \cup {NewStreams(f, TRUE)}
      BY <1>4, <2>2 DEF FilesReply
    <3>3. Lists' = Lists \ {t}
      BY <3>1, <3>2 DEF Lists
    <3>4. Tokens' = Tokens \cup {NewStreams(f, TRUE)}
      BY <3>1, <3>2 DEF Tokens
    <3> QED  BY <3>3, <3>4
  <2>4. Token \in 1..MaxRequest /\ Budget'
    BY <2>1, <2>2, <2>3, ListHasToken DEF StartStreams
  <2>5. NewStreams(f, TRUE) \in Load
    BY <2>4, NewLoadTypes
  <2>6. TypeOK'
    BY <2>2, <2>4, <2>5, StartTypes DEF TypeOK
  <2>7. Named'
    <3>1. file' # None /\ stream' = None
      BY <2>2, LoadConstants DEF StartStreams
    <3>2. NewStreams(f, TRUE).at # "selected"
      BY NewStreamsIs
    <3> QED  BY <2>3, <3>1, <3>2 DEF Named
  <2> QED  BY <2>4, <2>6, <2>7
<1>5. ASSUME NEW s \in Stream, file # None, LoadSelectedFlow(s)
      PROVE  TypeInv'
  <2> DEFINE x == [at |-> "selected", token |-> Token, file |-> file,
                   stream |-> s, refreshed |-> FALSE]
  <2>1. /\ Room /\ streamRequest' = Token /\ stream' = s /\ s # None
        /\ loads' = loads \cup {x} /\ Say("busy", file)
        /\ UNCHANGED <<file, mode, indexedFile, flow, drawn, selection, playback, timelines>>
    BY <1>5, LoadConstants DEF LoadSelectedFlow
  <2>2. file \in File /\ Token \in 1..MaxRequest
    BY <1>5, <2>1, RoomForToken DEF TypeOK
  <2>3. x \in Load
    BY <2>2 DEF Load
  <2>4. status' \in Status
    BY <2>1, <2>2 DEF Say, Status
  <2>5. TypeOK'
    <3> HIDE DEF x
    <3> QED  BY <2>1, <2>2, <2>3, <2>4 DEF TypeOK, Status
  <2>6. Lists' = Lists /\ Tokens' = Tokens \cup {x} /\ x.stream = s
    BY <2>1 DEF Lists, Tokens
  <2>7. Named'
    BY <1>5, <2>1, <2>6 DEF Named
  <2>8. Budget'
    BY <2>1, <2>6, SameBudget
  <2> QED  BY <2>5, <2>7, <2>8
<1>6. CASE ClickLoad
  <2>1. CASE stream = None
    <3>1. /\ Room /\ streamRequest' = Token
          /\ UNCHANGED <<stream, loads, status>>
          /\ UNCHANGED <<file, mode, indexedFile, flow, drawn, selection, playback, timelines>>
      BY <1>6, <2>1 DEF ClickLoad, LoadSelectedFlow
    <3>2. TypeOK'
      BY <3>1, RoomForToken DEF TypeOK
    <3>3. Lists' = Lists /\ Tokens' = Tokens
      BY <3>1 DEF Lists, Tokens
    <3>4. Named'
      BY <3>1, <3>3 DEF Named
    <3>5. Budget'
      BY <3>1, <3>3, SameBudget
    <3> QED  BY <3>2, <3>4, <3>5
  <2>2. CASE stream # None
    BY <1>5, <1>6, <2>2 DEF ClickLoad, TypeOK
  <2> QED  BY <2>1, <2>2
<1>7. ASSUME NEW t \in loads,
             \/ LoadFails(t) \/ Superseded(t) \/ ReplyWithoutFlow(t)
      PROVE  TypeInv'
  <2>1. /\ t \in Tokens
        /\ UNCHANGED <<file, stream, mode, streamRequest, indexedFile, drawn, selection,
                       playback, timelines>>
        /\ flow' \in {flow, None}
        /\ Returns(t, "same") \/ Returns(t, "error")
    BY <1>7 DEF LoadFails, Superseded, ReplyWithoutFlow, Tokens
  <2> QED  BY <2>1, AfterReturn DEF TypeOK
<1>8. ASSUME NEW t \in loads, IndexReady(t)
      PROVE  TypeInv'
  <2>1. /\ t \in Tokens /\ indexedFile' = t.file
        /\ UNCHANGED <<file, mode, streamRequest, flow, drawn, selection, playback, timelines>>
    BY <1>8 DEF IndexReady, Tokens
  <2>2. t \in Load /\ t.file \in File
    BY <2>1, TokenIsLoad DEF Load
  <2>3. CASE UNCHANGED stream /\ Returns(t, "listed")
    BY <2>1, <2>2, <2>3, AfterReturn DEF TypeOK
  <2>4. ASSUME NEW s \in StreamsOf[t.file], stream' = s, Say("busy", t.file),
               loads' = (loads \ {t}) \cup {Bootstrap(t, s)}
        PROVE  TypeInv'
    <3>1. s \in Stream
      BY <2>2, LoadConstants
    <3> QED  BY <2>1, <2>2, <2>4, <3>1, AfterBootstrap
  <2> QED  BY <1>8, <2>3, <2>4 DEF IndexReady
<1>9. ASSUME NEW t \in loads, NotIndexed(t)
      PROVE  TypeInv'
  <2>1. /\ t \in Tokens /\ indexedFile' = None /\ Say("busy", t.file)
        /\ loads' = (loads \ {t}) \cup {Bootstrap(t, None)}
        /\ UNCHANGED <<file, stream, mode, streamRequest, flow, drawn, selection, playback, timelines>>
    BY <1>9 DEF NotIndexed, Tokens
  <2> QED  BY <2>1, AfterBootstrap DEF TypeOK
<1>10. ASSUME NEW t \in loads, BootstrapReply(t) \/ SelectedReply(t)
       PROVE  TypeInv'
  <2>1. /\ t \in Tokens /\ Returns(t, "loaded")
        /\ UNCHANGED <<file, mode, streamRequest, indexedFile, selection>>
    BY <1>10 DEF BootstrapReply, SelectedReply, Tokens
  <2>2. t \in Load /\ t.file \in File /\ t.stream \in Stream \cup {None}
    BY <2>1, TokenIsLoad DEF Load
  <2>3. PICK s \in Stream : /\ stream' \in {s, stream}
                            /\ Install([file |-> t.file, stream |-> s])
    <3>1. CASE BootstrapReply(t)
      <4>1. PICK s \in IF t.stream = None THEN StreamsOf[t.file] ELSE {t.stream} :
                /\ stream' = IF t.stream = None THEN s ELSE stream
                /\ Install([file |-> t.file, stream |-> s])
        BY <3>1 DEF BootstrapReply
      <4>2. s \in Stream
        BY <2>2, LoadConstants
      <4> QED  BY <4>1, <4>2
    <3>2. CASE SelectedReply(t)
      <4>1. t.stream # None
        BY <2>1, <3>2 DEF SelectedReply, Named
      <4> QED  BY <2>2, <3>2, <4>1 DEF SelectedReply
    <3> QED  BY <1>10, <3>1, <3>2
  <2>4. /\ [file |-> t.file, stream |-> s] \in FlowName
        /\ flow' = [file |-> t.file, stream |-> s]
        /\ LoadPlayback([file |-> t.file, stream |-> s], mode)
    BY <2>2, <2>3 DEF FlowName, Install
  <2>5. playback' \in Timeline \cup {None} /\ timelines' \subseteq Timeline
    BY <2>4, PlaybackTypes DEF TypeOK
  <2>6. stream' \in Stream \cup {None} /\ indexedFile' \in File \cup {None}
    BY <2>1, <2>3 DEF TypeOK
  <2>7. drawn' \in FlowName \cup {None}
    BY <2>3, <2>4 DEF Install, Draw
  <2> QED  BY <2>1, <2>4, <2>5, <2>6, <2>7, AfterReturn
<1>11. ASSUME NEW t \in loads, PollIndexing(t)
       PROVE  TypeInv'
  <2>1. t \in Tokens
    BY <1>11 DEF PollIndexing, Tokens
  <2>2. t.file \in File
    BY <2>1, TokenIsLoad DEF Load
  <2>3. status' \in Status
    BY <1>11, <2>2 DEF PollIndexing, Say, Status
  <2>4. TypeOK'
    BY <1>11, <2>3 DEF PollIndexing, TypeOK, Status
  <2> QED  BY <1>11, <2>4, PageOnly DEF PollIndexing
<1>12. ASSUME NEW m \in Mode, ChooseMode(m)
       PROVE  TypeInv'
  <2>1. playback' \in Timeline \cup {None} /\ timelines' \subseteq Timeline
    <3>1. CASE flow = None
      BY <1>12, <3>1 DEF ChooseMode, TypeOK
    <3>2. CASE flow # None
      <4>1. flow \in FlowName /\ LoadPlayback(flow, m)
        BY <1>12, <3>2 DEF ChooseMode, TypeOK
      <4> QED  BY <4>1, PlaybackTypes
    <3> QED  BY <3>1, <3>2
  <2>2. TypeOK'
    BY <1>12, <2>1 DEF ChooseMode, TypeOK
  <2> QED  BY <1>12, <2>2, PageOnly DEF ChooseMode
<1>13. CASE Rebuild
  <2>1. flow \in FlowName /\ mode \in Mode /\ LoadPlayback(flow, mode)
    BY <1>13 DEF Rebuild, TypeOK
  <2>2. playback' \in Timeline \cup {None} /\ timelines' \subseteq Timeline
    BY <2>1, PlaybackTypes
  <2>3. status' \in Status
    BY <1>13, <2>1 DEF Rebuild, Say, FlowName, Status
  <2>4. TypeOK'
    BY <1>13, <2>2, <2>3 DEF Rebuild, Draw, TypeOK, Status
  <2> QED  BY <1>13, <2>4, PageOnly DEF Rebuild
<1>14. CASE \/ Select \/ ClearSelection
            \/ \E t \in timelines : PlaybackReply(t)
  <2>1. TypeOK'
    BY <1>14 DEF Select, ClearSelection, PlaybackReply, TypeOK
  <2> QED  BY <1>14, <2>1, PageOnly DEF Select, ClearSelection, PlaybackReply
<1>15. ASSUME NEW s \in Stream, ChooseStream(s)
       PROVE  TypeInv'
  BY <1>5, <1>15 DEF ChooseStream, Named
<1> QED
  BY <1>1, <1>2, <1>3, <1>4, <1>6, <1>7, <1>8, <1>9, <1>10, <1>11, <1>12, <1>13,
     <1>14, <1>15
  DEF Next, User, Answered

\* What the page and the calls in flight can hold, whatever is clicked and
\* however the answers come: every call names a listed capture and carries a
\* token of those the clicks were granted: an answer never needs one more.
THEOREM TypeCorrect == Spec => []TypeOK
<1>1. TypeInv => TypeOK
  BY DEF TypeInv
<1> QED  BY <1>1, InitTypes, StepTypes, PTL DEF Spec
=============================================================================
