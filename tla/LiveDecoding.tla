---------------------------- MODULE LiveDecoding ----------------------------
(***************************************************************************)
(* What happens to a subframe after the serial service has taken it from   *)
(* the stream: the frame store, the live decoding of                       *)
(* services/streaming_service.py, the whole-frame decoding of              *)
(* services/decoding_service.py, the engineering store, the sample bus and *)
(* the history, the Parameters table and the Graphs page.                  *)
(*                                                                         *)
(* A dataframe is its words per second and its parameters in order; a      *)
(* parameter is recorded at an offset in some subframes, once for each     *)
(* occurrence; the words of a subframe are one value, named by the tick of *)
(* the wall clock they arrived at, so old and new are told apart.  The     *)
(* stores notify their subscribers in the call that changes them, so one   *)
(* action is a change with everything it triggers; the graph's redraw      *)
(* timer is another actor.                                                 *)
(***************************************************************************)
EXTENDS TimeSeries, FiniteSets

CONSTANTS
  Subframes,     \* the subframes of a frame
  Dataframes,    \* the dataframes a user may load or edit into being
  FirstDataframe,
  MaxSamples, MaxSeconds, \* bounds of a series
  WindowSeconds, \* the window the graph shows
  MaxTime,       \* bound on the wall clock
  MaxChanges     \* bound on what the user does

ASSUME LiveAssumption ==
  /\ Subframes \in (SUBSET (1..4)) \ {{}} /\ FirstDataframe \in Dataframes
  /\ {MaxSamples, MaxSeconds, WindowSeconds, MaxTime, MaxChanges} \subseteq Nat

VARIABLES
  dataframe,     \* DataframeStore.dataframe
  frame,         \* FrameStore: words, words per second, slot states when live
  stream,        \* the source and its assembler
  latest,        \* StreamingService._latest
  engineering,   \* EngineeringStore.values
  table,         \* the selected sample of the Parameters page
  history,       \* TimeSeriesStore
  graph,         \* the Graphs page
  now,           \* the wall clock
  heard,         \* history: every number published since the last clear
  past           \* history: has it been decoded, has time gone back, changes

vars == <<dataframe, frame, stream, latest, engineering, table, history,
          graph, now, heard, past>>

None == "none"

Slots == {"PENDING", "RECEIVED", "INVALID", "MISSING", "LATE"}

Frame(words, wps, states) == [words |-> words, wps |-> wps, states |-> states]
NoFrame == Frame(<<>>, 0, <<>>)
NoDataframe == [wps |-> 0, parameters |-> <<>>]
NoSample == <<>>
Static == <<>>

\* FrameStore.live
Live(f) == f.states # Static

-----------------------------------------------------------------------------
(* Decoding *)

NumberOfSamples(p) == Len(p.occurrences)

Value(p, o, sf, words) ==
  [id |-> p.id, unit |-> p.unit, occurrence |-> o, subframe |-> sf, status |-> "VALID",
   offset |-> p.occurrences[o].offset, word |-> words[sf]]

\* A parameter without an occurrence decodes to one error.
ErrorValue(p) ==
  [id |-> p.id, unit |-> p.unit, occurrence |-> 0, subframe |-> 0,
   status |-> "INVALID_MAPPING", offset |-> 0, word |-> NotNumeric]

Key(v) == <<v.id, v.occurrence, v.subframe>>

Parameters(d) == {d.parameters[i] : i \in DOMAIN d.parameters}

\* A dataframe lists its parameters, and a parameter its occurrences; ids are
\* apart: the parsers number the records, and a parameter added with an id
\* that is taken is refused (dataframe_service.py:168).  A number is recorded
\* within its subframe: a word beyond the rate decodes to a mapping error
\* (parameter_decoder.py:175).
ASSUME DataframesAssumption ==
  \A d \in Dataframes :
    /\ d.parameters \in Seq(Parameters(d))
    /\ \A p \in Parameters(d) :
         /\ p.occurrences \in Seq({p.occurrences[o] : o \in DOMAIN p.occurrences})
         /\ \A o \in DOMAIN p.occurrences :
              p.occurrences[o].offset \in 0 .. (SubframeTicks - 1)
    /\ \A i, j \in DOMAIN d.parameters : d.parameters[i].id = d.parameters[j].id => i = j

DecodedIn(p, sf, words) ==
  {Value(p, o, sf, words) : o \in {k \in DOMAIN p.occurrences :
                                      sf \in p.occurrences[k].subframes}}

\* ParameterDecoder.decode_subframe: an error is reported with subframe 1.
DecodeSubframe(words, d, sf) ==
  UNION {IF p.occurrences = <<>> THEN IF sf = 1 THEN {ErrorValue(p)} ELSE {}
         ELSE DecodedIn(p, sf, words) : p \in Parameters(d)}

\* ParameterDecoder.decode_frame
DecodeFrame(words, d) ==
  UNION {IF p.occurrences = <<>> THEN {ErrorValue(p)}
         ELSE UNION {DecodedIn(p, sf, words) : sf \in Subframes} : p \in Parameters(d)}

\* The order of the Parameters table; a parameter the dataframe no longer has
\* comes last.
Position(d, id) ==
  LET at == {i \in DOMAIN d.parameters : d.parameters[i].id = id}
  IN  IF at = {} THEN Len(d.parameters) + 1 ELSE CHOOSE i \in at : TRUE

Before(d, v, w) ==
  LET a == Position(d, v.id)  b == Position(d, w.id)
  IN  \/ a < b
      \/ a = b /\ v.occurrence < w.occurrence
      \/ a = b /\ v.occurrence = w.occurrence /\ v.subframe < w.subframe

Sorted(d, values) ==
  [i \in 1..Cardinality(values) |->
     CHOOSE v \in values : Cardinality({w \in values : Before(d, w, v)}) = i - 1]

\* DecodingService.redecode
Redecoded(d, f) ==
  IF f = NoFrame THEN <<>> ELSE Sorted(d, DecodeFrame(f.words, d))

\* Slip: a new dataframe is not decoded until the next frame.
StaticViewKept(d, f, shown) == shown

\* DecodingService._on_store_event
StaticView(d, f, shown) == IF Live(f) THEN shown ELSE Redecoded(d, f)

-----------------------------------------------------------------------------
(* The Parameters table: rows follow the engineering store; the selection  *)
(* follows its sample while the sample has a row (EngineeringTableModel,   *)
(* ParametersPage._remember_selection, _restore_selection).                *)

Keys(values) == {Key(values[i]) : i \in DOMAIN values}

\* Slip: the selection stays with the row when the rows change.
Row(values, key) == CHOOSE i \in DOMAIN values : Key(values[i]) = key
SelectionByRow(old, values) ==
  IF table \notin Keys(old) \/ Len(values) < Row(old, table) THEN NoSample
  ELSE Key(values[Row(old, table)])

SelectionKeptBy(old, values) == IF table \in Keys(values) THEN table ELSE NoSample

-----------------------------------------------------------------------------
(* The Graphs page *)

\* _numeric_parameters: the dataframe's, then the series of other dataframes.
KnownAt(d) == {i \in DOMAIN d.parameters : d.parameters[i].known}
Known(d) == {d.parameters[i] : i \in KnownAt(d)}

Plottable(d, store) == {p.id : p \in Known(d)} \cup DOMAIN store.of

\* The first entry of the list, when it has one
FirstPlottable(d, store) ==
  IF Known(d) # {}
  THEN d.parameters[CHOOSE i \in KnownAt(d) : \A j \in KnownAt(d) : i <= j].id
  ELSE IF store.keys # <<>> THEN store.keys[1] ELSE None

UnitOf(d, store, id) ==
  LET known == {p \in Known(d) : p.id = id}
  IN  IF known # {} THEN (CHOOSE p \in known : TRUE).unit ELSE store.of[id].unit

PointsOf(store, id) == IF id \in DOMAIN store.of THEN store.of[id].points ELSE <<>>

\* _latest_time
LatestTime(g, store) ==
  LET ends == {PointsOf(store, id)[Len(PointsOf(store, id))].at :
                 id \in {k \in g.overlays \cup {g.selected} : PointsOf(store, k) # <<>>}}
  IN  IF ends = {} THEN 0 ELSE CHOOSE t \in ends : \A u \in ends : u <= t

\* _refresh: what is drawn
Plot(g, store) ==
  IF g.selected = None THEN [end |-> 0, lines |-> <<>>, unit |-> None]
  ELSE LET end == IF g.paused THEN g.frozen ELSE LatestTime(g, store)
       IN  [end |-> end,
            lines |-> [id \in g.overlays \cup {g.selected} |->
                         Window(PointsOf(store, id), WindowSeconds, end)],
            unit |-> IF g.selected \in DOMAIN store.of
                     THEN store.of[g.selected].unit ELSE None]

Drawn(g, store) == [g EXCEPT !.dirty = FALSE, !.shown = Plot(g, store)]

\* _rebuild_overlays: those of the selected parameter's unit, checked as before
Overlayable(d, store, selected) ==
  IF selected = None THEN {}
  ELSE {id \in Plottable(d, store) \ {selected} :
          UnitOf(d, store, id) = UnitOf(d, store, selected)}

\* Slip: checked overlays stay whatever their unit.
OverlaysOfAnyUnit(g, d, store) ==
  [g EXCEPT !.overlays = @ \cap (Plottable(d, store) \ {g.selected}), !.dirty = TRUE]

OverlaysRebuilt(g, d, store) ==
  [g EXCEPT !.overlays = @ \cap Overlayable(d, store, g.selected), !.dirty = TRUE]

\* _rebuild_parameters: the list is filled again, which selects its first
\* entry, and the old selection is restored; when that moves the selection
\* the page redraws at once, paused or not.
Rebuilt(g, d, store) ==
  LET first == FirstPlottable(d, store)
      selected == IF g.selected \in Plottable(d, store) THEN g.selected ELSE first
      rebuilt == OverlaysRebuilt([g EXCEPT !.offered = Plottable(d, store),
                                           !.selected = selected], d, store)
  IN  IF selected = g.selected /\ selected # None /\ selected # first
      THEN [Drawn(rebuilt, store) EXCEPT !.dirty = TRUE] ELSE rebuilt

\* Slip: new samples do not ask for a redraw.
AfterAppendQuiet(g, d, store, keys) ==
  IF keys # {} /\ (g.offered = {} \/ ~(keys \subseteq g.offered)) THEN Rebuilt(g, d, store) ELSE g

\* _on_timeseries_event after append(); without a number there is no event.
AfterAppend(g, d, store, keys) ==
  IF keys = {} THEN g
  ELSE IF g.offered = {} \/ ~(keys \subseteq g.offered) THEN Rebuilt(g, d, store)
  ELSE [g EXCEPT !.dirty = TRUE]

-----------------------------------------------------------------------------
(* Changes of the stores, with what they trigger *)

FirstSubframe == CHOOSE s \in Subframes : \A r \in Subframes : s <= r
Blank == [s \in Subframes |-> 0]
Pending == [s \in Subframes |-> "PENDING"]

\* A stream that starts at t: a new source is blank.
Started(t, wps, words) ==
  [state |-> "on", t |-> t, wps |-> wps, next |-> FirstSubframe,
   words |-> words, slots |-> Pending]

\* The first dataframe since the program started has just been loaded, and
\* the stream been started.
Init ==
  /\ dataframe = FirstDataframe /\ frame = NoFrame
  /\ stream = Started(0, FirstDataframe.wps, Blank)
  /\ latest = {} /\ engineering = <<>> /\ table = NoSample
  /\ history = EmptyStore
  /\ graph = Rebuilt([selected |-> None, overlays |-> {}, offered |-> {}, paused |-> FALSE,
                      frozen |-> 0, dirty |-> TRUE,
                      shown |-> [end |-> 0, lines |-> <<>>, unit |-> None]], dataframe, EmptyStore)
  /\ now = 0 /\ heard = <<>>
  /\ past = [decoded |-> FALSE, backward |-> FALSE, mixed |-> FALSE, changes |-> MaxChanges]

Edited == MaxTime + SubframeTicks    \* what the user types into a word

Changed(p) == [p EXCEPT !.changes = @ - 1]

\* The table shows a static frame, or the values of another dataframe.
Stale(p) == [p EXCEPT !.decoded = FALSE]

\* EngineeringStore.set_values
Publish(values) ==
  /\ engineering' = values
  /\ table' = SelectionKeptBy(engineering, values)

\* Slip: the values of the old dataframe stay.
LatestKept(values) == values

\* StreamingService._on_dataframe_event
LatestAfterDataframe(values) == {}

\* A series was begun under a unit that the dataframe now changes.
MixesUnits(d) ==
  \E p \in Parameters(d) :
    p.id \in DOMAIN history.of /\ history.of[p.id].unit # p.unit

\* DataframeStore.set_dataframe: loaded, imported or edited
SetDataframe(d) ==
  /\ past.changes > 0 /\ d # dataframe
  /\ dataframe' = d
  /\ latest' = LatestAfterDataframe(latest)
  /\ Publish(StaticView(d, frame, engineering))
  /\ graph' = Rebuilt(graph, d, history)
  /\ past' = [Stale(Changed(past)) EXCEPT !.mixed = @ \/ MixesUnits(d)]
  /\ UNCHANGED <<frame, stream, history, now, heard>>

\* FrameService.new_blank, new_random and load: a static frame; a file of
\* another rate than the dataframe's is refused.
NewFrame ==
  /\ past.changes > 0
  /\ frame' = Frame(Blank, dataframe.wps, Static)
  /\ Publish(Redecoded(dataframe, frame'))
  /\ past' = Stale(Changed(past))
  /\ UNCHANGED <<dataframe, stream, latest, history, graph, now, heard>>

\* FrameService.set_word: refused while the frame is live.
SetWord(sf) ==
  /\ past.changes > 0 /\ frame # NoFrame /\ ~Live(frame) /\ frame.words[sf] # Edited
  /\ frame' = [frame EXCEPT !.words[sf] = Edited]
  /\ Publish(Redecoded(dataframe, frame'))
  /\ past' = Stale(Changed(past))
  /\ UNCHANGED <<dataframe, stream, latest, history, graph, now, heard>>

-----------------------------------------------------------------------------
(* The stream *)

Next1(sf) == IF sf + 1 \in Subframes THEN sf + 1 ELSE FirstSubframe

\* Some series ends later than a stream that starts at t.
EndsAfter(t) ==
  \E id \in DOMAIN history.of :
    \E i \in DOMAIN history.of[id].points : history.of[id].points[i].at > t - SubframeTicks

\* A live stream is stamped with the wall clock, a replay with the times of
\* its recording, which lie in the past.  A new source starts blank, a
\* stream started again keeps the last words.
StartStream(start) ==
  /\ stream.state = "off" /\ past.changes > 0 /\ now + SubframeTicks <= MaxTime
  /\ stream' = Started(start, dataframe.wps, IF start # now THEN Blank ELSE stream.words)
  /\ past' = [Changed(past) EXCEPT !.backward = @ \/ EndsAfter(start + SubframeTicks)]
  /\ UNCHANGED <<dataframe, frame, latest, engineering, table, history, graph, now, heard>>

\* SerialService.stop_stream: the last frame stays, static; a subframe may
\* still be in flight.
StopStream ==
  /\ stream.state = "on"
  /\ \E state \in {"off", "stopping"} : stream' = [stream EXCEPT !.state = state]
  /\ IF Live(frame)
     THEN /\ frame' = [frame EXCEPT !.states = Static]
          /\ Publish(Redecoded(dataframe, frame'))
          /\ past' = Stale(past)
     ELSE UNCHANGED <<frame, engineering, table, past>>
  /\ UNCHANGED <<dataframe, latest, history, graph, now, heard>>

-----------------------------------------------------------------------------
(* StreamingService.on_arrival and its listeners *)

Decodable(state) == state \in {"RECEIVED", "LATE"}

\* Decoded against the active dataframe, of the frame's rate only
Decodes(state, wps) == Decodable(state) /\ dataframe # NoDataframe /\ dataframe.wps = wps

Merged(old, values) ==
  {v \in old : \A w \in values : Key(w) # Key(v)} \cup values

\* The batch in the order of decoding: by parameter, then occurrence
SamplesOf(values, end) ==
  LET ordered == Sorted(dataframe, values)
  IN  [i \in DOMAIN ordered |-> Sample(ordered[i], end)]

\* What was heard, one sample later.
Heard(h, sample) ==
  IF sample.value = NotNumeric THEN h
  ELSE [id \in DOMAIN h \cup {sample.id} |->
          IF id # sample.id THEN h[id]
          ELSE IF id \in DOMAIN h THEN Append(h[id], Point(sample)) ELSE <<Point(sample)>>]

HeardWith(samples) ==
  LET after[n \in 0 .. Len(samples)] ==
        IF n = 0 THEN heard ELSE Heard(after[n - 1], samples[n])
  IN  after[Len(samples)]

Decoded(values, end) ==
  LET samples == SamplesOf(values, end)
  IN  /\ latest' = Merged(latest, values)
      /\ history' = Batch(history, samples, MaxSamples, MaxSeconds)
      /\ graph' = AfterAppend(graph, dataframe, history', Touched(samples))
      /\ heard' = HeardWith(samples)

NotDecoded == UNCHANGED <<latest, history, graph, heard>>

\* SerialService._handle_event: the snapshot into the frame store, the
\* listeners, and a static frame again when the stream has been stopped.
Deliver(sf, state, words, slots, end) ==
  LET live == Frame(words, stream.wps, slots)
      values == DecodeSubframe(words, dataframe, sf)
      decodes == Decodes(state, stream.wps)
      stopped == stream.state = "stopping"
  IN  /\ frame' = IF stopped THEN [live EXCEPT !.states = Static] ELSE live
      /\ IF decodes THEN Decoded(values, end) ELSE NotDecoded
      /\ IF stopped THEN Publish(Redecoded(dataframe, frame'))
         ELSE IF decodes THEN Publish(Sorted(dataframe, latest'))
         ELSE UNCHANGED <<engineering, table>>
      /\ past' = IF stopped THEN Stale(past)
                 ELSE [past EXCEPT !.decoded = @ \/ decodes]
      /\ UNCHANGED dataframe

\* The next subframe arrives, good, damaged or reported missing.
Arrival(state) ==
  LET sf == stream.next
      begun == IF sf = FirstSubframe THEN Pending ELSE stream.slots
      slots == [begun EXCEPT ![sf] = state]
      words == IF state = "MISSING" THEN stream.words ELSE [stream.words EXCEPT ![sf] = now + SubframeTicks]
      end == stream.t + SubframeTicks
  IN  /\ stream.state \in {"on", "stopping"}
      /\ now + SubframeTicks <= MaxTime
      /\ now' = now + SubframeTicks
      /\ stream' = [stream EXCEPT !.t = end, !.next = Next1(sf), !.words = words, !.slots = slots,
                                  !.state = IF @ = "stopping" THEN "off" ELSE @]
      /\ Deliver(sf, state, words, slots, end)

\* A subframe that was reported missing comes after all.
LateArrival(sf) ==
  LET slots == [stream.slots EXCEPT ![sf] = "LATE"]
      words == [stream.words EXCEPT ![sf] = now + 1]
  IN  /\ stream.state = "on" /\ stream.slots[sf] = "MISSING"
      /\ stream' = [stream EXCEPT !.words = words, !.slots = slots]
      /\ Deliver(sf, "LATE", words, slots, stream.t)
      /\ UNCHANGED now

-----------------------------------------------------------------------------
(* The user at the two pages *)

SelectSample(key) ==
  /\ past.changes > 0 /\ key \in Keys(engineering) /\ key # table
  /\ table' = key
  /\ past' = Changed(past)
  /\ UNCHANGED <<dataframe, frame, stream, latest, engineering, history, graph, now, heard>>

AtGraph(g) ==
  /\ past.changes > 0
  /\ graph' = g
  /\ past' = Changed(past)
  /\ UNCHANGED <<dataframe, frame, stream, latest, engineering, table, history, now, heard>>

\* _parameter_changed: the overlays, and a redraw even when paused
SelectParameter(id) ==
  /\ id \in graph.offered /\ id # graph.selected
  /\ AtGraph(Drawn(OverlaysRebuilt([graph EXCEPT !.selected = id], dataframe, history), history))

CheckOverlay(id) ==
  /\ id \in Overlayable(dataframe, history, graph.selected) \ graph.overlays
  /\ AtGraph([graph EXCEPT !.overlays = @ \cup {id}, !.dirty = TRUE])

\* _toggle_pause: the end of the view is frozen
Pause ==
  /\ ~graph.paused
  /\ AtGraph([graph EXCEPT !.paused = TRUE, !.frozen = LatestTime(graph, history)])

Resume ==
  /\ graph.paused
  /\ graph' = Drawn([graph EXCEPT !.paused = FALSE, !.frozen = 0], history)
  /\ UNCHANGED <<dataframe, frame, stream, latest, engineering, table, history, now, heard, past>>

\* _clear_history: the store's event fills the lists again, then a redraw
ClearHistory ==
  /\ past.changes > 0 /\ history # EmptyStore
  /\ history' = EmptyStore
  /\ graph' = Drawn(Rebuilt(graph, dataframe, history'), history')
  /\ heard' = <<>>
  /\ past' = [Changed(past) EXCEPT !.backward = FALSE, !.mixed = FALSE]
  /\ UNCHANGED <<dataframe, frame, stream, latest, engineering, table, now>>

\* The redraw timer
Refresh ==
  /\ ~graph.paused /\ graph.dirty
  /\ graph' = Drawn(graph, history)
  /\ UNCHANGED <<dataframe, frame, stream, latest, engineering, table, history, now, heard, past>>

Next ==
  \/ \E d \in Dataframes : SetDataframe(d)
  \/ NewFrame
  \/ \E sf \in Subframes : SetWord(sf)
  \/ \E start \in {0, now} : StartStream(start)
  \/ StopStream
  \/ \E state \in {"RECEIVED", "INVALID", "MISSING"} : Arrival(state)
  \/ \E sf \in Subframes : LateArrival(sf)
  \/ \E i \in DOMAIN engineering : SelectSample(Key(engineering[i]))
  \/ \E id \in graph.offered : SelectParameter(id) \/ CheckOverlay(id)
  \/ Pause \/ Resume \/ ClearHistory \/ Refresh

\* The redraw timer of the Graphs page keeps firing.
Spec == Init /\ [][Next]_vars /\ WF_vars(Refresh)

-----------------------------------------------------------------------------
\* A frame that is not being received is shown decoded by the active
\* dataframe, whatever changed last: the frame, one word, the dataframe, or
\* the end of the stream (decoding_service.py:35).
StaticViewDecoded == ~Live(frame) => engineering = Redecoded(dataframe, frame)

\* During a stream, once the active dataframe has decoded a subframe, the
\* table shows only its parameters, and every value of a slot shown as
\* received is the one its words in the Frame View decode to: the two pages
\* do not contradict each other (streaming_service.py:45).
TableAgreesWithFrame ==
  Live(frame) /\ past.decoded /\ frame.wps = dataframe.wps =>
    \A i \in DOMAIN engineering :
      LET v == engineering[i] IN
      /\ \E p \in Parameters(dataframe) :
           \/ v = ErrorValue(p)
           \/ \E o \in DOMAIN p.occurrences :
                /\ v.subframe \in p.occurrences[o].subframes
                /\ v = Value(p, o, v.subframe, [sf \in Subframes |-> v.word])
      /\ v.subframe # 0 /\ Decodable(frame.states[v.subframe])
           => v.word = frame.words[v.subframe]

\* Each series is the unbroken end of the numbers published since the last
\* clear: a bound drops the oldest and never makes a gap
\* (timeseries_store.py:103).
NoGapInHistory ==
  \A id \in DOMAIN history.of :
    IF id \in DOMAIN heard THEN IsSuffix(history.of[id].points, heard[id])
    ELSE history.of[id].points = <<>>

\* While the stamps did not go back to an earlier recording, no point of a
\* series is older than max_seconds, or younger than its last point, but for
\* the one subframe within which the occurrences of a parameter may be
\* published out of order (timeseries_store.py:103).
HistoryBounded ==
  ~past.backward =>
    \A id \in DOMAIN history.of :
      LET points == history.of[id].points IN
      \A i \in DOMAIN points :
        /\ points[i].at + MaxSeconds + SubframeTicks > points[Len(points)].at
        /\ points[i].at < points[Len(points)].at + SubframeTicks

\* One y axis never mixes units, unless a unit was edited over a history of
\* the old one (graphs_page.py:191).
AxisOneUnit ==
  past.mixed \/
    Cardinality(UNION {{graph.shown.lines[id][i].unit : i \in DOMAIN graph.shown.lines[id]} :
                         id \in DOMAIN graph.shown.lines}) <= 1

\* A sample stays selected for as long as it has a row, whatever becomes of
\* the rows around it; only the user selects another (engineering_model.py:99).
SelectionFollowsSample ==
  [][(engineering' # engineering /\ table \in Keys(engineering')) => (table' = table)]_vars

\* The graph shows the numbers that have arrived in the end, unless paused
\* (graphs_page.py:149, 252).
GraphCatchesUp ==
  (~graph.paused /\ graph.shown # Plot(graph, history))
    ~> (graph.paused \/ graph.shown = Plot(graph, history))
=============================================================================
