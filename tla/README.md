# Verification of arinc717_reader

`arinc717_reader` is a desktop program (Python, Qt) that reads ARINC 717
flight-data frames. It takes a stream of 12-bit words from a serial simulator
("SIM A717"), finds the subframes in it, assembles four subframes to a frame,
decodes engineering values from frames by a *dataframe* (a description of where
each parameter lies), graphs and records them, replays recordings, and encodes
engineering values into frames that the simulator then sends. Dataframes are
opened from and exported to ADB files, edited, and imported from PDF tables
through a review.

This directory holds TLA+ modules that model the parts of the program where
things happen in an order, at the same time, or go wrong half way; TLC
configurations that check them on small instances; and proofs, checked by TLAPS,
of the results that hold for every size. Paths below are relative to the
repository; where no directory is given the file is in `arinc717_reader/`.

- [1. The system](#1-the-system)
- [2. Plan](#2-plan)
- [3. Modules and the code](#3-modules-and-the-code)
- [4. Runs](#4-runs)
- [5. Fairness](#5-fairness)
- [6. Proofs](#6-proofs)
- [7. Where code and documents disagree](#7-where-code-and-documents-disagree)
- [8. What is left out](#8-what-is-left-out)
- [9. Running the checks](#9-running-the-checks)

## 1. The system

### Components

| Component | Code | State it keeps | Operations |
|---|---|---|---|
| Virtual device | `sources/serial/virtual_device.py` | staged and active frame buffer, commit pending, running, place in the frame, slot order, pending faults | execute a command, emit the next word or packet |
| Transport | `sources/serial/*transport*.py` (pyserial, virtual pair) | the bytes in flight | open, read, write, close; may fail at any time |
| Packet protocol, stream parser | `sources/serial/sim_a717_protocol.py`, `stream_parser.py` | the bytes not yet parsed, text or word mode | encode, parse, skip to the next magic |
| Synchronizer | `sources/serial/synchronizer.py` | search buffer, state, expected subframe | `feed` words, get verified subframes |
| Subframe assembler | `sources/serial/subframe_assembler.py` | the frame under way, the slot states, the statistics | `take` a subframe, `reset` |
| Source base, diagnostics | `sources/stream_base.py`, `sources/serial/diagnostics.py` | event queue, counters, sync state | `deliver_subframe`, `drain` |
| Serial source | `sources/serial/serial_source.py` | reader thread, reply queue, text mode | `start_stream`, `stop_stream`, `send`, `request` |
| Replay source | `sources/replay_source.py` | its own assembler, place in the session | play records, pause, finish |
| Recording | `recording/` | the open session | one record for each subframe |
| Serial service | `services/serial_service.py` | connection state, wishes (`_want_connected`, `_want_streaming`), the source owned | connect, start, stop, reset, upload, pump, reconnect, attach a replay |
| Frame store, frame service | `state/`, `services/frame_service.py` | the current frame, live or static | load, edit, publish live, make static |
| Encoder | `encoder/`, `services/simulation_service.py` | none; the frame it writes | scenario, signals of a subframe |
| Decoder | `decoder/` | none | whole frame, one subframe |
| Live decoding | `services/streaming_service.py`, `services/decoding_service.py` | the latest value of each sample; the engineering store | decode each arrival; decode a static frame again |
| Time series | `streaming/timeseries_store.py`, `sample_bus.py` | a series for each parameter, bounded in number and duration | append a batch, trim, window, clear |
| Graphs and parameters pages | `ui/graph_view/`, `ui/parameter_view/` | selection, overlays, pause, a redraw owed | redraw on a timer, rebuild, select |
| Dataframe service, editor, dialogs | `services/dataframe_service.py`, `dataframe/editor.py`, `ui/dataframe_view/` | the active dataframe, its issues, whether it is modified | open, new, add, edit, remove, duplicate, move, export |
| Validator | `dataframe/validator/` | none | issues of a dataframe |
| ADB codec | `dataframe/adb_codec/` | none | parse records, write them verbatim or anew |
| Repository | `dataframe/repository/` | SQLite rows, an open transaction | save, list, load, store issues |
| PDF importer | `dataframe/pdf_importer/` | the review session: a row's candidate, findings, issues, decision | read rows, approve, exclude, edit, read again, publish |
| Import page, worker, review dialog | `ui/importer/` | the running import, the session not yet published | import in a thread, open a review, publish |
| User interface | `ui/` | widgets | calls the services |

### Interactions

```
 device --words/packets--> transport --bytes--> reader thread
                                                  | parser, synchronizer,
                                                  | assembler, diagnostics
   commands ^                                     v
            |                                event queue, reply queue
            |                                     |
   SerialService (GUI thread) <---- pump() -------+
      | publishes                  ^ the same queue is fed by the
      v                            | replay source, through an assembler
   stream store -> frame store     | of its own
      |        \-> recorder        |
      v                            |
   live decoding -> samples -> time series, graphs
      ^ active dataframe
      |
   dataframe store <---- editor, ADB files, repository
      ^ publish
      |
   review dialog <-- import page <--signal-- import thread (PDF)
```

Three threads matter: the **GUI thread** (user commands, `pump` on a timer,
which handles the events and retries a lost connection), the **reader thread**
of the source, and the **device's thread**, or the hardware. They share the
event queue, the reply queue, the parser's mode and the assembler. A fourth, the
**import thread**, shares nothing and ends with a signal to the GUI thread.

### What is hard here

- *Losses, repeats and disorder on the link.* Words vanish, are corrupted, or
  a subframe comes out of order. The assembler has to say which slots were
  received, late, invalid or missing, and keep the counters right when a frame
  is closed early, adopted, skipped into or restarted.
- *Reads that cut the stream anywhere.* The synchronizer works on whatever one
  read returns. What it finds must not depend on where reads end.
- *A link that breaks at any moment*, while the service pumps, sends, waits, or
  is about to reconnect, with events of the dead source still queued.
- *Threads that change mode.* Text and words share one line: replies are
  expected while words are still in flight, and a reply may be late.
- *Uploads under way while the device sends.* A frame is uploaded in pieces and
  becomes active at a frame boundary, or at once when the device is stopped, and it may
  have been stopped in the middle of a frame that it will go on with.
- *The same thing written twice.* Live and replayed streams must agree, the
  encoder and the decoder, the live view and the whole-frame view, the
  validator and the decoder, the ADB parser and the ADB writer.
- *Values derived once and shown for long.* The static view, the latest values,
  the selected sample, the overlays, the findings of a row: each is computed in
  reaction to some changes and is stale after any other.
- *Guesses that must not pass for knowledge.* A PDF row has several readings;
  what the importer chooses without a finding is approved without a person.
- *Failures half way.* An export that empties its file, a save that leaves rows
  in a transaction, an import thread that dies.

The list with the line at which each bites is `PROJECT.json`, "hazards".

### What makes each component correct

| Component | Correct when |
|---|---|
| Assembler, diagnostics | no slot is lost or counted twice; a filled slot is not overwritten; no empty frame is published; both sets of counters agree |
| Synchronizer | delivers what a reader with the whole stream before it would, for every cutting into reads; keeps a bounded buffer; reports another rate |
| Continuous mode | damage is confined to the subframes it touched; subframes of two frames are not mixed; lock returns promptly |
| Framed mode | a frame shown is a frame sent; missing means lost; the drop counter is exact |
| Recording and replay | every subframe recorded is replayed as it was live |
| Serial service | state, source and wishes agree; a loss is noticed; a stop holds; a connection wanted comes back; a frame no one feeds becomes editable |
| Command dialogue | every request is answered, with its own reply; the frame sent is one upload, and one more for each COMMIT of a device stopped in its middle |
| Codec | what is encoded decodes to what was asked; live and whole-frame views agree; the validator foretells the decoder's errors; a refused value leaves the frame alone |
| Live decoding | a static frame is shown decoded by the active dataframe; a live table agrees with the frame and the dataframe; a sample selected stays selected |
| Time series, graph | a series is an unbroken, bounded suffix of what was published; one axis has one unit; the graph catches up |
| Dataframe editing, ADB | unmodified means written; what was not touched is written verbatim; a valid export opens again |
| Repository | a row holds what was given to be saved, or is an incomplete save |
| PDF import | approved unseen means unambiguous; findings are never stale; what is published is valid and was seen or clean; every import reports its end |

## 2. Plan

Modules in the order they are written; those marked *done* are here.

1. `SubframeAssembler`, `StreamBase`, `StreamSource` and its proofs. *done.*
   The centre: everything shown passes through `take`.
2. `Synchronizer`, `SyncReference` (a reader with the whole stream) and `SyncCheck`
   (one against the other), and the proof that they agree. *done*
3. `ContinuousStream`, `FramedStream`: device, link and reader composed, one
   for each mode of the link, and the proofs of both. *done*
4. `RecordReplay` and its proofs: two assemblers in lockstep. *done*
5. `ServicePromises` and `SerialService`: the connection life cycle, and its
   proofs. *done*
6. `CommandChannel`: requests, replies, uploads, buffers, and its proofs. *done*
7. `Codec`: encoder, decoder, validator, and its proofs. *done*
8. `TimeSeries` and `LiveDecoding`: samples, history, table and graph under
   changes of dataframe, frame and source, and its proofs. *done*
9. `AdbCodec`, `DataframeChecks`, `DataframeRepository` and `DataframeEditing`:
   the life of a dataframe from file to file, and its proofs. *done*
10. `Normalisation` and `ImportReview`: a PDF row read, and its review, and its
    proofs. *done*
11. `StreamParser`: resynchronisation on bytes (magic, length, checksum), to
    discharge the abstraction of a packet in `FramedStream`. *open*

**Compositions.** `StreamSource` puts arbitrary callers in front of the
assembler; `ContinuousStream` puts device and synchronizer in front of the same
operators, `FramedStream` device and packets, `RecordReplay` runs two of them.
`LiveDecoding` takes over where `SubframeAssembler` ends, with arrivals that the
runs above show to be possible, and runs `TimeSeries`. `DataframeEditing` is
codec, validator and repository under one store; `ImportReview` is
`Normalisation` and the validator under one dialog.

**Abstract specifications.** Three are stated as operators and compared in
every state: the whole-stream reader of `SyncReference`, the live assembler as
specification of the replay in `RecordReplay`, and `DecodeParameter` as that of
`DecodeSubframe`. Planned as modules of their own: an atomic-reply dialogue that
`CommandChannel` implements while nothing is owed; and a connection
(wanted / up / live) that `SerialService` implements.

**Theorem still to prove:** `FramesNotMixed` of `ContinuousStream`. Section 6
says what stands in the way.

## 3. Modules and the code

`PROJECT.json`, "map", names the lines of every definition. A definition whose
comment begins with *Slip* is a deliberate mistake kept beside the operator it
imitates: no specification uses it; substituted for the real operator it makes
a property fail, which shows that the property can.

### `SubframeAssembler` (`subframe_assembler.py`)

Operators, no variable: an assembler is a record (`frame_index`, `words`,
`states`, `invalid`, `expected`, `stats`), `Take(a, in)` is one call of `take`
and returns the new assembler and one or two arrivals. The steps of the method
are operators in the order it takes them: `Identified` (a frame id closes,
adopts or continues), `IsLate` and `Recovered`, `Restarts`, `SkippedTo`,
`Filled`, `Completed`. The words of a subframe are one value of `Payload`.
Padding and masking that marks damaged words is `Damage`, the set of
marks a caller may pass: a mark makes the subframe invalid and is remembered
with the frame.

### `StreamBase`, `StreamSource` (`stream_base.py`, `diagnostics.py`)

`CountedAll` is the loop of `deliver_subframe` that counts arrivals.
`StreamSource` has the assembler and the diagnostics as variables and one
action per caller: `DeliverSubframe` with any slot, frame id and validity,
`StartStream`, `ResetDevice`. `ledger` is a history variable: slots that left the books
without being counted, so that conservation can be stated as an equation.

### `Synchronizer`, `SyncReference`, `SyncCheck` (`synchronizer.py`)

`Feed(s, words)` is `feed`: append, then turns of searching and taking until
nothing changes, then trimming. Words have a *look* (0 for data, 1 to 4 for
the sync words). The loop is a recursive function on the number of turns, each
turn consuming at least one word. `SyncCheck` feeds every stream over the given
looks, cut into every sequence of reads, and compares with `Reference` of
`SyncReference`, which sees the whole stream and keeps no buffer: a recursive function of
the number of words left and of what is expected of the first of them.

### `ContinuousStream` (`virtual_device.py`, `serial_source.py`)

Device, wire, synchronizer, assembler. `EmitNextWord` is the device's step for
one word with its faults (drop a subframe, swap two, drop a word, corrupt a
word); `ProcessWords(n)` is one read of n words through `feed` and
`deliver_subframe`; `Restart` is stop followed by start. The frame and slot a
word was sent for travel with it as history, so that "the words of one
subframe" can be said of what arrives. The variable `hurt` holds the subframes
a fault touched, `calm` counts words since the last disturbance, and `spaced`
says whether every fault so far struck a link that had recovered.

### `FramedStream` (`virtual_device.py`, `sim_a717_protocol.py`, `stream_parser.py`)

As above with one packet per subframe. What a fault does to a packet is its
*fate*: fine, altered (a data word differs; nobody can notice), invalid (the
source marks it), badCrc (the parser skips it). The device composes a packet
and emits it at the end of the subframe; `EmitSubframe` is one subframe. The
parser's bytes are not modelled here: a packet is taken or skipped whole.

### `ReplayPromises`, `RecordReplay` (`recorder.py`, `session.py`, `replay_source.py`)

The live assembler and the assembler of a replay of the session so far, the variables of
`ReplayPromises`, which states what they owe each other. The
recorder writes one record for each subframe that arrives, `Replayed` is what
the replay source makes of the record. Run in lockstep, the comparison holds for every prefix of
a session, and so for a session cut short.

### `ServicePromises`, `SerialService` (`serial_service.py`, `serial_source.py`, `stream_base.py`)

The service, the source object it last made (queue, thread, transport), the
pump, the device. `pump` is not atomic: `PumpBegin`, one `HandleEvent` per
event, `PumpEnd`, and reader, device and link act in between. The GUI thread
runs one thing at a time: user actions require `pump = "idle"`. A source torn
down by a handler keeps its queue until the loop has gone through it, as the
loop holds the list it drained. Connecting is one action (the GUI thread waits
and runs nothing else); a connect that fails changes nothing and is a stutter. A
chunk read is one subframe. The two invariants are in `ServicePromises`, with the two
variables they are about.

### `CommandChannel` (`serial_service.py`, `serial_source.py`, `virtual_device.py`)

Operations are scripts of steps; a step is sent and forgotten or is a request on
whose reply the GUI thread sleeps. The line keeps order and takes its time. The
device executes one command at a time, answers if it does not stream afterwards,
and sends one subframe as one item. It builds a subframe in two steps
(`BeginSubframe`, `EndSubframe`), between which a command may come: STOP leaves the
device where it is in frame and subframe (`at`, `in_subframe`), START goes on from there, and
only RESET and SET_WPS go back to the beginning (`Blanked`). COMMIT of a stopped device
swaps the buffers at once, wherever it stands. Of subframe contents only the
number of the upload matters. Three histories follow the frame on the wire across all
this: the uploads it is made of (`sent`), the commits carried out in its middle (`cuts`),
and whether the frame to come may be of two uploads (`mixed`).

### `Codec` (`encoder/`, `decoder/`, `dataframe/validator/`)

The arithmetic of the code on integers: bit ranges and their reversal, splitting and
assembling over words, two's complement, BCD in nibbles and by weights, discretes, linear
conversion with rounding; the samples and statuses of the decoder for a frame
and for a subframe; every refusal of the encoder; the validator's rules
on mappings, resolutions and overlaps. The state machine is the two users of
the encoder: `ApplyScenario` (all or nothing) and `BuildEngineeringFrame`
(value by value, in each subframe). Words have 3 bits, a digit 2 bits and base
3, a frame 2 subframes of 2 words: the sizes are constants. The loops of the code over parts and
digits (`value = value * 10 + digit`, `shift -= width`) are one recursive function,
`Running`, the powers another, `Power`.

### `TimeSeries`, `LiveDecoding` (`streaming/`, `decoding_service.py`, `ui/graph_view`, `ui/parameter_view`)

`TimeSeries` is the store as operators: `Batch` is one `append`, with the bound
on the number applied sample by sample and the bound on the duration once for
each series touched. `LiveDecoding` follows a subframe from the serial service
to the screen. The stores notify their subscribers in the call that changes
them, so an action is a change with all that it sets off: `Deliver` is the frame
store, `on_arrival`, the engineering store, the bus, the history and the graph's
flag, in that order. `SetDataframe`, `NewFrame`, `SetWord` and `StopStream`
decode the static frame again where `DecodingService` does. The redraw timer is
an actor of its own (`Refresh`). Stamps are of the wall clock when live and of
the recording in a replay, so they may go back. The words of a subframe are one
value, the tick they arrived at, so an old value is told from a new one.
`heard` keeps every number published, `past` what the properties have to know of
the past.

### `AdbCodec`, `DataframeChecks`, `DataframeRepository`, `DataframeEditing` (`dataframe/`, `dataframe_service.py`, `ui/dataframe_view`)

`AdbCodec` has the parser (`ParseRecord`: locations in absolute words or with a
subframe selector, grouped in parts, weights or states in the slots) and the
writer (`Record`: the record kept when it still reads as the parameter, else
`Generated`). `DataframeChecks` are the rules of the validator these modules
need, `DataframeRepository` the rows of a save, the open transaction and what a
load makes of the rows. `DataframeEditing` has one action for each operation of
`DataframeService`; `Candidates(p)` is what OK in the parameter dialog may
commit, row edits, labels and the rounding to six digits included. `home`,
`opened` and `spoiled` are history: which file the dataframe stands for, what was
in it, which files a failed export left short. Dialogs are modal, an edit is one
step.

### `Normalisation`, `ImportReview` (`dataframe/pdf_importer`, `ui/importer`)

A cell says whether it parses as written, after the correction of confused
characters, or not at all, and what it then holds. `Normalised` is
`normalize_raw_row`: a parameter, or none, and the findings; `Effective`
completes the profile from the evidence of all rows. `ImportReview` is the
import thread, its signals, the page and the dialogs, of which there may be
two: the event loop runs inside a dialog, so an import may end there.
`BuildSession`, `Revalidated`, `AutoApproved`, `Marked`, `Updated`,
`Renormalised`, `WithMetadata` are the operations of the session, and the dialog's
actions apply one of them to the topmost session. `TheOnlyReading` is the
reference `AutoMeansUnambiguous` compares with: it reads a row under every
value of the conventions (what a word number means, the order of a pair, the
layout of a bit column) that the profile leaves to be guessed, and asks that
the row is read without a finding to review and that every other reading
of it either has one or gives the same parameter. The property also asks that the row
still holds what was read, but for the suffix that makes its name its own.

## 4. Runs

| Run | Bounds | Distinct states | Shows |
|---|---|---|---|
| `streamsource` | 4 subframes, ids {none, 0, 1, 2}, one payload | 143 k | the assembler keeps its books under any caller |
| `synccheck` | streams of 9 words, looks {1, 2, 4}, WPS 2, another rate 3 | 205 k | the synchronizer is the reference reader |
| `continuous` | 2 frames, 2 faults, 1 restart, 2 words in flight, WPS 2 | 931 k | damage is confined, lock returns |
| `framed` | 3 frames, 3 faults, 1 restart, 2 packets in flight | 408 k | frames shown are frames sent, drops are counted |
| `replay` | 4 subframes, ids {none, 1} | 722 k | a replay repeats the session |
| `service` | 2 losses, 1 timeout, queue of 3, 2 chunks | 6 k | the connection life cycle, safety and liveness |
| `commands` | 3 operations, 3 uploads, 1 late reply, 2 on the line | 312 k | requests are answered, frames are of one upload but for the commits in their middle |
| `codec` | 39 pairs of parameters, 4 values | 237 k | encoder, decoder and validator agree |
| `livedecoding` | 2 subframes, 3 dataframes, 3 subframe times, 3 samples or 2 ticks of history, 2 user actions | 189 k | table, history and graph agree with frame and dataframe |
| `editing` | 2 subframes of 4 words of 3 bits, a file of 3 records, 2 edits, saves or failures, any opens and exports | 75 k | what is shown as written is in the file |
| `importreview` | as above; one of some 450 rows or 4 pairs, 2 imports, 2 commands | 200 k | what is approved, shown and published |
| `importreview_comma` | the same | | section 7, ends in a violation |

### The properties

Types are part of `streamsource` (`TypeOK`), where they matter: a counter that is
decremented stays a natural number, a slot index stays in the frame. The other
modules spend their properties on what relates two pieces of state.

**`streamsource`.** `SlotsContiguous`: pending slots lie only before a restart
or after the last subframe. `SlotsAccounted`: subframes + missing + unmarked =
4 × frames + filled slots of the frame under way + abandoned; a path that
counts a slot twice or not at all breaks it. `UnmarkedOnlyAfterRestart`: the
slots that are neither counted nor filled come from restarts, at most three
each. `DiagnosticsAgree`: the two sets of counters describe one stream.

**`synccheck`.** `DeliversTheReference`: exactly the subframes of the reference,
with a bounded buffer (`BufferBounded`) and a stream of another rate reported
wherever reads fall (`OtherRateReported`).

**`continuous`.** `DamageConfined`: a valid subframe is the subframe sent, from
its first word to its last, unless a fault touched one of its words.
`Relocked`: after three clean subframes the synchronizer is in phase. `FramesNotMixed`:
a frame published holds subframes of one frame sent, as long as every fault strikes a
link that has recovered so. `ShownLockIsReal`.

**`framed`.** `FrameIdentity`, `MissingIsLost` (a slot is shown missing if and
only if its subframe was lost, and the drop counter counts exactly those).

**`replay`.** `ReplayRepeats`: same frame, slot, words, state and completion for
every subframe. `ReplayInventsNothing`: where the replayed frame differs it
knows less.

**`service`.** `StateMatchesSource`: the state shown, the source, the wishes, the
reader and text mode never contradict each other, save for a report waiting in
the queue. `LiveFrameOwned`; and under fairness `LossNoticed`, `Reconnects`,
`StoppedFrameSettles`.

**`commands`.** `RequestsAnswered`, `ReplyIsOwnWhenQuiet`. `FrameSentWhole`: a frame on
the wire is made of one upload and at most one more for each COMMIT that reached the
device stopped in its middle. A user who stops the stream and starts it again with
engineering signals brings this about, for the start uploads and commits
before START; section 7 quotes the document that denies it. No frame is mixed in another
way, unless a subframe was staged over a frame waiting to be swapped in, while the device
streams (a late PC), or the device is started with such a frame staged over in
part (an upload given up); the first frame that begins whole ends the exception.

**`codec`.** `ClosedLoop`: what was asked decodes to within half a step.
`LiveAgrees`: the live view, the whole-frame view and the validator agree.

**`livedecoding`.** `StaticViewDecoded`, `TableAgreesWithFrame`: the two pages do
not contradict each other, when static and when live. `NoGapInHistory`,
`HistoryBounded` (no point is `max_seconds` older than the last one, or younger
than it, but for the one subframe within which occurrences are out of order);
`AxisOneUnit` (unless the unit of a series already begun is edited);
`SelectionFollowsSample`, and `GraphCatchesUp` under fairness.

**`editing`.** `CleanMeansWritten`: a dataframe not marked as modified is the one
its file reads as: names, scales, types, states, and, for a parameter the format can
hold (`Expressible`), the bits sampled and their weights. `OthersVerbatim`,
`ReadableExport`, `StoredAsGiven`.

**`importreview`.** `AutoMeansUnambiguous`, `IssuesCurrent`,
`PublishedWithoutErrors`, `SeenOrClean`, and `ImportReported` under fairness.

### Why the bounds are enough

- *Assembler.* A frame has four slots and is complete with its fourth, whatever
  came before it: four subframes are a whole frame, or a frame closed early by
  its last slot, by an id or by a restart, and what follows it, a late slot
  included. The ids give every relation of a new id to the current one: equal,
  behind, ahead, absent. Payloads are never compared, so one is enough. The
  theorems drop all three bounds.
- *Replay.* As above with one id, since what is replayed always carries one.
- *Synchronizer.* Nine words of rate 2 are: a lock, two subframes, a loss, a
  second lock and a subframe. Looks 4, 1, 2 follow one another with the wrap-around;
  the missing look 0 behaves as a look that no successor pairs with. The other rate is larger than the expected
  one, which is the case in which trimming could hide it.
- *Continuous.* Eleven subframes: the first three for the link to settle, a fault in
  the first frame, recovery and a second fault in the second, and the frame after it for
  the sync loss to mix with. `FramesNotMixed` speaks of faults so spaced, of which it was also
  checked with one and with three words per subframe; the other properties of any.
  Reads of one and two words cut everywhere, WPS being 2.
- *Framed.* A third frame comes after one lost entirely; three faults drop, spoil and swap in one behaviour.
- *Service.* Two losses: the second while the first is still being recovered
  from. One timeout at any request. A queue of three holds a subframe, a loss
  and what follows it. When budgets are spent the rest of the behaviour is
  still checked, with its liveness.
- *Commands.* A stop, a start and a reset in any order with an upload in each, the stop
  between two subframes or in one, so that a start, a stop in mid-frame, and a start with
  another upload make one frame of two;
  two items on the line are a subframe in flight and a reply behind it.
- *Codec.* Every type, reversed and split ranges, an odd leading BCD digit,
  several occurrences, weights, and each kind of bad mapping, each with a second parameter
  that may share words. Values fit, do not fit, are negative and are fractional in steps of the resolution.
- *Live decoding.* Two subframes, so that one may be missing or late while the
  other is shown. Three dataframes: an edit that changes a unit and removes a
  parameter, and another rate. A parameter has two occurrences in one subframe,
  the second recorded first, so stamps go back within a batch. Three samples and
  two ticks make each bound the tighter one somewhere; three arrivals fill
  them, and two user actions include a change of dataframe within a stream
  and a second after it.
- *Editing.* The file has a weighted BCD, a discrete with three states and a
  relative selector, and a scale of seven digits; a word may be set to one
  outside the frame, subframes to one or both, and the rate to one that no longer
  holds the words. Two edits meet in one parameter or in two.
- *Review.* Every layout a cell grammar allows crossed with rates, every type,
  sign, scale and offset; pairs of rows that overlap, share a name, or are evidence
  for one another. Two commands, then publish: an edit or exclusion that makes another row's
  findings stale, or a reading again after a decision.

Deadlock is not checked (`CHECK_DEADLOCK FALSE`) where a run may end: budgets
of faults, losses, operations or subframes are used up, and a user or a device
need not do anything more. `codec` never stops, and is checked for deadlock.

## 5. Fairness

*SerialService.* `WF(Pump)`: the Qt timer fires for as long as the program
runs and calls `pump`, which also retries the connection. `WF(ReadChunk \/
ReadFails)`: the reader thread is a loop around a read with a timeout.
`WF(LinkBack)`: the liveness of reconnecting is conditional on the link coming
back. Nothing is assumed of users, of the device, of replay or of the loss of
the link. Weak fairness suffices: none of these steps is disabled by another thread for
good; a full queue holds the reader up, and the pump empties it.

*CommandChannel.* `WF(HandleCommand)`, `WF(ReadItem)`, `WF(TakeReply)`: the
device's, the reader's and the GUI thread run. That a request is answered does
not rest on its timeout: `ReplyLate` is not fair and is bounded.

*LiveDecoding.* `WF(Refresh)`: the redraw timer of the Graphs page, once started,
fires until the program ends. `Refresh` is disabled by a pause, which the
property allows for.

*ImportReview.* `WF(WorkerEnds)`: reading a document ends, well or with an error.
`WF(Deliver)`: the Qt event loop delivers the signal, also while a dialog is open,
since a modal dialog runs the same loop.

The other modules state no liveness.

## 6. Proofs

Eight modules hold the proofs; `Service_proofs` those of `CommandChannel` and, of an instance of
it, of `SerialService`. They hold for every value of the constants: any payloads,
damage marks, dataframes and documents, any set of frame ids of natural numbers and
`NoId`, any bound on subframes, losses, timeouts, operations, queues and history.
The assumptions are the named `ASSUME`s of the modules: the markers `Blank` and
`NoId` are distinct from data and from numbers, frame ids are naturals or
`NoId`, bounds are naturals, a live frame has at least one subframe, there is a file
behind each path, and in a dataframe the parameters are a list of different ids,
each with a list of occurrences that lie within the subframe; an import
profile has the values its fields may have; a file is a list of records of at
least one part (parser.py:290 makes it one), what `new_dataframe` and the metadata
dialog take as words per subframe is positive, and a dataframe imported from PDF has a
positive number of them (review.py:201) and is made of lists, with finite sets of subframes, none of them 0, and stored selectors that say the
subframes of their segment, if there are any (normalize.py:660 stores none). In `Codec`, words, digits
and subframes have a positive size, the base fits a digit, a blank frame's words fit a word, and
values, resolutions and offsets are integers, of either sign and zero too.

The library's induction theorems take an operator as a parameter, which the provers
cannot instantiate. Where a proof needs induction (the samples of a batch, the
positions of a sorted table) it is done by hand: the least position at which a
claim fails exists (`LeastNatural`, from the set form of the induction principle), is
not the first, and its predecessor shows it does not fail.

### `SubframeAssembler_proofs`: the books

`BooksInvariant` (`Spec => []IInv`) is the one induction. `IInv` is the
conjunction of the type, the shape of the frame under way (`Contiguous`), the
conservation equation (`Books`), the bound on unmarked slots and the agreement
of the diagnostics (`Agree`). None of them is inductive alone. That the missing
counter stays a natural number when `take` decrements it needs that it is at
least the number of slots missing in the frame under way, which is what `Agree`
gives: the counter is the sum of that number and of three that are not negative.
Conservation of a late slot needs the shape of the frame, and the bound on
unmarked slots that only a restart leaves a gap, and that it counts.

The argument follows `take`. `CloseFacts` and `CloseAccounts` say what closing a
frame early does to the books; `FillNext`, `FillFresh` and `FillLate` are the three ways a
subframe finds its slot; `CompleteFacts` is the end of a frame. From these come
the step for `DeliverSubframe`, and the two resets are short. Then
`TypeCorrect`, `ContiguousSlots`, `SlotConservation`, `UnmarkedBounded` and
`DiagnosticsCorrect` are consequences.

### `SubframeAssembler_proofs`: the replay

A simulation: `Linked(a, b)` relates the live assembler to the replayed one
(same frame number and expected slot, same slot states except that the replay
may have given up a slot below the expected one), `Unstarted` relates the two
before the first record. `TakeIsStore` shows that `take` ends with storing the subframe it was
given, whatever was closed before it; `OpenLinks` that the way to that store
opens the same slot of the same frame on both sides, `StoreLinks` that the
store keeps the relation and gives equal arrivals; `StepLinks` joins them.
`SameAssembler` says that the assembler `RecordReplay` runs, reached through INSTANCE here, is
the one these lemmas speak of. `ReplayInStep` is the invariant, `ReplayFaithful` (`ReplayRepeats`) and
`ReplayKnowsLess` (`ReplayInventsNothing`) follow. The conditions of the
properties (no restart in the recording, no gap where it began) are exactly what
the relation needs to be established and kept (section 7, 3).

### `Service_proofs`: the connection

`ServiceInvariant` (`Spec => []IInv`), with `IInv` the type, the two properties
and `OrphanWanted`: a frame that is live while there is no source belongs to a
service that wants to stream again. Without it the invariant is not inductive:
a reconnect makes a source again, and the frame of the old one is then live
without the excuse that its loss is still to be handled.

Most disjuncts of the two properties end in "or a DISCONNECTED waits in the
queue". `EventPut` says that what is put in the queue excuses at once what changes with it,
and `Forgotten`, `GivenUp` and `Attached` say what the three ways to change the
source leave of the queue. The delicate steps are `LossStep`, which takes the
excuse away and has to have repaired everything by then, and `SubframeStep`,
which makes a frame live out of an event whose source may be gone.
`SourceConsistent` and `LiveOwned` follow.

### `Service_proofs`: the dialogue

`OwnReply`: a request sent while nothing was owed is given its own reply. The
invariant is `NothingElse`: while such a request is awaited, nothing on its way
(a command on the line, an item on the line back, a reply already read) can
be taken for the reply to another one. It holds when the request is sent because
`Owed` is exactly that something could be, and `request` empties the reply queue
first; it is kept because the service's thread sleeps, so that nothing is sent
meanwhile, and because the only other commands on the line are STARTs, which
are not answered. A queue is described by a set it
is a sequence over (`OwnCommands`, `OwnItems`, `OwnReplies`), which appending and
taking preserve.

`FramesSentWhole`: the frame on the wire is made of no more uploads than one and the
commits in its middle, with the exception of `FrameSentWhole`. The invariant
describes the line up from the device's end: `CommitsWhole` says that every COMMIT still to
come, on the line or in the script of the caller, is preceded there by the loads of
every subframe of its own upload in their order, or finds the
first of them staged already. `BuffersWhole` says that, unless mixed, the active buffer holds one
upload, that so does a staged one waiting to be used while the device streams, and
`FrameMade`: the count holds, and in mid-frame the upload that goes
on is already part of the frame or there is room for it. A COMMIT in mid-frame makes that room in `cuts`
(`HandleKeepsUploads`), the next words use it up (`OneMore`), a new frame counts from one.
Every script brings the loads of its commits
(`ScriptsComplete`), and a command that is taken, or a script that is given up, leaves
the commits that remain with their loads.

### `FramedStream_proofs`

`FramedInStep` (`Spec => []IInv`) is the induction over device, line, parser and assembler
together. `DeviceOK` and `WireOK` say where the device is and that the
packets on the line are in the order they were sent, each with the frame and slot
it was sent from. `InStep` relates the ends: what the assembler holds is behind
the first packet on the line. `HeldSent` says that a slot held is
the subframe sent there, and `Accounted`, the heart of it, that every subframe the device has
sent is exactly one of lost, on the line, held in the frame under way, or
published. `FramesKeepIdentity` (a published frame is one frame the device sent) and
`NoFalseAlarm` (missing means lost, and the drop counter is exact) are conjuncts.

`TakeWithId` is what `take` does with a packet that has a frame id, from the same
operators `SubframeAssembler_proofs` reasons about. `ClosedIsAccounted` and
`DoneIsAccounted` show the accounts balance when a frame is closed by the
next one or by its fourth subframe; `LossesAdd` and `CountsLosses` that the number of
slots the assembler calls missing is the number of subframes lost. Then there is one
lemma for each action.

### `ContinuousStream_proofs`

All that follows rests on an account of the loop of `feed`. `TurnCases` says what one
turn does. The loop is a recursive function of the number of turns left; `LoopTurns`
shows that it has a solution, by hand as above. `SettledIn` says that a set closed under turns
holds the turn the loop ends with, and `SettledIdle` that this one is idle: a turn
that is not does some of the work there is (`TurnWorks`: two units for each word held,
one more while searching), and the loop has as many turns.

`LockShownIsReal` (LOCKED is never shown of a synchronizer that searches) needs
only the type and the order in which a read reports lock and loss.

`FaultsConfined` (`DamageConfined`) follows each word from the device to the
frame. `PipeOK` speaks of the words sent and not taken yet, the buffer of the
synchronizer followed by the wire: a word that is not genuine is of a subframe that is hurt, and
a genuine one looks like a sync word exactly if it is one (`HonestWords`); within a
subframe that is not hurt no word is missing (`UnbrokenWords`), and the
device is about to send the next one (`UnbrokenEnd`). The device's steps keep it at one
end of the pipe; `feed` takes words from the other and changes none (`PipeEnd`). A
subframe accepted is then WPS words of one sent, or one of its words is of a hurt one.

`LinkRelocks` (`Relocked`) is about time: after three subframes without a fault the
synchronizer is locked in phase. `Relocking` says, of the number `calm` of words since
the last disturbance, that the last `calm` words of the pipe look like what the
device sends (`CleanWords`); that a lock whose last subframe began after the disturbance
expects the right subframe next (`LockRight`); and that a search began at
most a subframe after the disturbance and has met no pair of clean sync words
(`SearchShort`): had it met one it would have locked. The last is the heart, since a search
drops words: it has to hold every word a pair may begin with, which is what `Limit` is for.

`SynchronizerDelivers` (`DeliversTheReference`) says for every stream, every rate and
every set of other rates that reads make no difference. `ReadsSteps` turns the
recursion of the reference into a step (again by a least number without a
solution). The invariant `Keeps` adds to the property that the buffer holds the last words fed
(`HoldsLast`), and that the synchronizer is *on track*, for every length m to which
the stream may go on: what was delivered, followed by what the reference makes of the
words in the buffer and up to m, is what the reference makes of the first m words.
With m the number of words fed, and an idle turn, the second part is empty, and
the property follows. The claim has to be made for every m at once, since a turn may
decide only what every continuation would decide alike: a pair that is not
complete, or a sync word not yet there, must leave the buffer whole. `TurnOnTrack` is the
step of one turn, `SearchOver` that the words trimmed are of no use to a
search, `PairReported` that the rate of a pair is reported in the read
that completes it, although earlier reads trimmed the buffer.

Its assumptions are those of `Synchronizer` (rates positive, the standard rates
finite in number) and of `SyncCheck` (looks between 0 and 4).

### `LiveDecoding_proofs`

`StaticViewCorrect`: a static frame is shown decoded from its words by the active dataframe. A
frame is taken for static when it has no slots; the invariant therefore adds
that the stream always has a slot for each subframe (`SlotsKept`), so that a
frame from a stream is live, and its successor when the stream ends is decoded in the same
call. `SelectionKept` is an action property and needs no invariant: every
action that changes the rows keeps the selection if its row is still there.

`TableAgrees`: a live table holds what the dataframe makes of the words of the frame. The
table is a sort of the latest values, which are a merge of batches, so the
proof has a part about each: `SortedPicks` that sorting by rank gives each
value one row and invents none, `Merged` what a batch leaves of the
values before it, and `TableInv` that each latest value is decoded from the tick it
says (`LatestDecoded`), that the ticks of the frame shown are those of the stream
(`StreamShown`), and that the rows are the values (`TableShown`).

`HistoryUnbroken` and `HistoryWithinBounds`: a series is the unbroken end of what was published,
and not older than its bound. `HistoryInv` has `Kept` (each series is a suffix of the
numbers heard), and while stamps do not go back `Ordered` (no point is later
than the subframe under way) and `AllBounded`. A batch is folded into the history
sample by sample, with the bound on age applied once at its end to
the series the batch touched, so that `AllBounded` has the set of series it does not yet
hold of as a parameter: it grows with each sample and is empty after the trimming.

`AxisUnit`: the y axis has one unit. `AxisInv` joins the history to the
Graphs page: the keys of the store are the series it has (`Shaped`), the parameter selected and
the overlays can be plotted and have one unit (`GraphOK`), and unless units
were mixed the points of a series have the unit it was begun under, that is its
parameter's in the dataframe if it has one (`UnitsAgree`), and the lines shown have one
(`OneUnit`). A unit is looked up in the dataframe, and in the series for a
parameter that is no longer there. The proof failed at first for a reason: see section 7,
on a series begun by an error.

### `ImportReview_proofs`

`ReviewCurrent`: findings and states are never stale. `IssuesCurrent` speaks of
the dialogs only, but a session is built in the import thread, waits in a signal,
rests with the page and is opened again, so the invariant says `Good` of each
session in all four places. `Good` is a statement about one session, and each operation of the
session is shown to establish it (`BuildGood`, `RenormalisedGood`, `UpdatedGood`,
`MetadataGood`, through `RevalidatedGood`) or to keep it (`MarkedGood`,
`ApprovingGood`). What these two rest on is `PreviewSame`: what the validator is
shown depends on which rows are included and on their candidates, and approving
changes neither. For this theorem and the next two, how a row is read and what the
validator objects to are left closed: they hold for every reading and every rule.

`PublishedValid` (a dataframe published has no parameter with an error) and
`PublishedJudged` (each parameter in it was judged by a reviewer as it is, or read without a
finding that asks for one) carry more from the session to the dataframe. `Grounded` says of each
row that its candidate is its own (`Own`: the id ties a finding to a row) and
that an approval has a ground (`Judgement`); `Sound` is `Good` and
`Grounded`, and each operation keeps it (the lemmas `...Sound`). `ApprovedRow`
takes a published parameter back to its row, and `PublishedSound` is the step in
which the dialog publishes. An edit takes the ground of an approval away and
must take the approval with it; that it does, in every operation, is what the
theorem adds to the run.

`AutoIsUnambiguous` (no guess is approved without a person) has two halves. One is about
the normaliser alone, for every row, profile and rate: `CleanIsTheOnlyReading`
says that a row read without a finding to review is read so in one way only.
Each convention left open is a case. The layout of the bits is read alike
or warned of (`BitsEither`, `BitsSame`); the order of a pair matters only where a pair
is read, which is warned of (`ConversionSame`); and what several words mean is decided by
the rate, which contradicts every other meaning, or is provisional
(`MeaningSame`). The other half is the state: `Grounded` says of a row
approved by the importer that it is what its session's profile and rate read
(`AsRead`, `ReadKept`), which every later operation must keep or
withdraw the approval. The invariant needs the session's profile to be one
(`EffectiveProfile`), which is where the assumption on `Profiles` is used.

### `DataframeEditing_proofs`

`UntouchedVerbatim`: a parameter that is as it was read is written as the record it was
read from, at the place it now has, whatever edits, exports, failed
exports and openings lie between. A parameter as read still says what its record says,
under whatever number it was read (`ReadWrittenBack`), and two records
read as one parameter are one (`ReadOnce`). The invariant, `InItsFile`, is that the file of an
unmodified dataframe holds what the writer makes of the dataframe, or is
untouched since it was opened; it needs no rule about `home` and `spoiled`
beyond that a failed export marks the file it wrote to.

The three other theorems need more of the dataframe than where it came from, and the
invariant `Made` says it: the dataframe and every file are made as the reader, the dialogs and
the writer make them (`IsDataframe`, `IsFile`), the issues in the store are those of
the dataframe, and of the rows stored (`Rows`) the k-th document listed, committed or pending, is
what the k-th save made of its dataframe, if that save met no error. `EditWellMade` is the step for what the dialogs can commit;
it rests on `BuiltOccurrences`, which takes the table of rows apart and puts it
together again, and on `ReadOccurrences`, the same for what is read from a file.

`StoredWhole` (what was saved without an error is loaded as it was given). The rows hold no
selector of their own when the segment had none, and a load makes one from
the subframes, so the loaded parameter is not the saved one but *alike*: they
differ in stored selectors only, and each selector there is says the subframes of its segment
(`SegmentBack`, `ParameterBack`). That is the clause of `IsSegment` which an edit of the
subframes would break if it carried the old selector on; `OriginalIsSegment` and
`BuiltOccurrences` show that it does not. The writer never looks at the selector, so parameters alike
are written alike: `AlikeSamples`, `AlikeLocations`, `AlikeWeights`, `AlikeRecord`. A save
that fails half way stays in the transaction and is committed by the next
(`FailedRows`, `CommittedRows`): it adds a document to the list and never
moves another.

`ExportReadable` (the export of a dataframe without errors can be opened
again). No error of the structural rules means that each segment lies in the
words of the subframe and in subframes 1 to 4 (`CleanSound`), so
the absolute word written is split into that subframe again, by the arithmetic of
`SubframeOfWord`; `LocationsReadable` says so of each location in the list, however
the samples were put in order. The file of an unmodified dataframe without a
failed export is what the writer makes of it, or the one it was opened from, which was readable: this is `InItsFile` once more.

`CleanIsWritten` (the file of an unmodified dataframe, read back, says what is
shown) is the round trip through the format. A record that was kept is
read as a parameter the writer has just compared with this one (`MatchedBack`:
equal in canonical form, equal in what they sample). One written anew
(`GeneratedBack`) is taken apart in the order of the format:

- *Where it samples.* `ExpressibleEven` turns the rules of the validator into the shape of
  the parameter: without an error, and with occurrences of one shape, each has its n parts together,
  in the same subframes (`Even`). The writer goes subframe by subframe through
  the occurrences, the reader cuts the list of locations every n. So the proof says of a list that it is *made of
  blocks* of n (`InBlocks`: which blocks, in whatever order): a sample is a block
  (`SamplesTogether`), joining lists of blocks joins their sets
  (`FlattenedBlocks`), reading each location maps the blocks
  (`MappedBlocks`, with `PlaceBack`), and cutting every n gives them back
  (`PartsOfBlocks`). The reader then merges samples of one shape into one occurrence in all their
  subframes; `ValuesRead` shows that this loses and adds no value, though
  occurrences come back merged, renumbered and in another order
  (`ValuesBack`).
- *With which weights.* A record has one list of weights in the order of its parts, the reverse of
  that of the segments. `WeightsRead` shows that each part gets its own
  back, or none had any. This rests on a clause of the invariant (`Weighed`): the digits of
  one value have a weight each or none has, and only those of a BCD parameter have any.
- *As what.* `TypeWritten`: AFDA's word for a type, or the text itself, is read as that type.
  `StatesBack`: two labels are written as a table of 0 and 1 and a table of 0 and
  1 is read as two labels, so the states come back provided that no table
  says what two labels can; that every reader and dialog keeps to this is `LabelledTable`,
  `CarriedTable` and `StatesReadTable`.

These clauses make up `Coherent`, which is part of what `Made` says of a
parameter. The demo and the importer build no tables and no weights, so that
the assumption on `Imported` asks of them what they do.

Lists are the work in these proofs. A list is a function on 1..n and the provers know
little of the filters and folds that make one, so `Among` (the elements at
some positions) takes the place of a recursive filter in the modules;
`NthInOrder` shows that a finite set in a strict order has an n-th element, from which
`NthOf` and the sorted lists of the model follow, and `FlattenedList` that
joining a list of lists gives a list of their elements.

### `Codec_proofs`: the closed loop

`LoopClosed` and `LiveViewAgrees` hold for words and digits of any number of bits, any base that
fits a digit, any number of subframes and words, and any parameters with integer resolutions,
offsets and weights: fields of any width over any number of segments.

What a loop over digits computes is proved by hand, since the induction theorems
cannot be used: `BoundedInduction` and `DownInduction` rest on the least number at
which a set fails, `LoopExists` builds the function a loop computes, step by step, and `LoopUnique` says
that there is one. From these come the laws of `Power`, and:

- *Positional numbers.* `NumberOfDigits`, `DigitsOfNumber`: digits below their
  radix and the number they make give each other back, for a radix that differs
  from place to place. `SplitRoundTrip` (segments, whose radix is two to their width),
  `NumberRoundTrip` and `DigitsRoundTrip` (BCD, where the leading digit has the bits that are left)
  are its instances.
- *Bits.* `BitsWritten`: writing a range of bits changes what that range holds
  and no range disjoint from it.
- *Encodings.* `PatternRoundTrip` for each type, with `Rounded` for the half step that a
  linear conversion may lose; `WeightedRoundTrip` for digits with weights, with
  `Ladder` for the sum of digit times weight. `PartsRoundTrip` joins them: parts
  that the encoder gives decode to within half a step of the value.

The induction is `SheetsInv`: in a dataframe without an error or an overlap, the
frame under way and the current one each *hold* the values they were asked to
hold, which says that each segment's bits in each subframe are the part of
the value last asked for there (`HoldsValue`). It speaks of bits and not of
decoded values, because a bit that is kept is kept whatever it means.
`FrameEncoded` is what one call of the encoder does: it leaves alone the bits of any
segment it does not touch, and a value accepted is held wherever it was for; it is an
induction over occurrences, and within one (`OccurrenceWritten`) over segments. A value accepted by
`EncodeScenario` or `EncodeSignal` therefore keeps the others (`OthersStillHeld`:
another parameter's bits are apart since nothing overlaps, the same
parameter's in another subframe since `only` restricts the writing). A signal
that is refused may have written some occurrences, and this is where the list of
what is still to be encoded comes into the invariant (`TodoOK`): it goes on without
that value, and all is well only because each signal has a subframe of its own, which
was not asked to hold anything yet (`SignalRefused`). `SheetsInv` was checked with TLC
on the run's instance before it was proved.

`LiveViewAgrees` needs no invariant beyond the type of the parameters. `ErrorsForetold`: a
sample is INVALID_MAPPING if and only if the validator finds an error, which
rests on `AgreedFacts` (one set of subframes, not empty). `LiveIsWhole`: the samples reported
subframe by subframe are those of the whole frame.

### Model-checked only

- Liveness and fairness (`LossNoticed`, `Reconnects`, `StoppedFrameSettles`,
  `RequestsAnswered`, `GraphCatchesUp`, `ImportReported`) are out of the
  prover's reach.
- `FramesNotMixed`. A proof has to follow, through pipe, synchronizer and assembler at
  once, by how many subframes phase and slots are displaced by each kind of fault and
  what the slots passed over become; the run covers each kind at each place, twice.

## 7. Where code and documents disagree

One run ends in a counterexample to what a document says.

- `importreview_comma`. `docs/07-pdf-import.md:247`, of the convention
  `decimal_comma`: "Read `0,0625` as a decimal." A resolution is first tried as a
  pair of numbers (`normalize.py:917`), so that `0,0625` becomes offset 0 and
  resolution 625, and where the profile declares an order of pairs
  the row is approved without a person.

Five disagreements about the stream and the connection, which the properties of the runs are stated
around and each of which a run of its own would exhibit:

1. `docs/13-live-streaming-graphs-recording.md:134`: losing
   the connection copies the last frame back as a static frame. `pump` drains
   the events it took although one of them has torn the source down; a subframe
   handled after the loss publishes the live frame again, and it stays
   live, and locked against edits, while no source exists. `LiveFrameOwned` allows a
   frame to be live in the wish to stream again, and `OrphanWanted` says so.
2. `docs/12-sim-a717-protocol.md:201`: a reconnect sends
   START again "if the stream was running". The wish to stream survives: a
   failed stop clears it, but a reconnect whose START failed, a replay attached
   while reconnecting, or a new connect does not, so that a stream starts that
   was not running when the link was lost.
3. `sources/stream_base.py:4`: serial and replay path publish
   identical arrivals. A stream stopped and started within one recording resets
   the live assembler only, and the replay puts subframes of two frames in one.
   `ReplayRepeats` is about recordings without a restart.
4. `serial_source.py:70`: `request` waits for *its* reply. It
   takes the next one: the reply to a command sent just before without waiting.
   `ReplyIsOwnWhenQuiet` is about requests sent while nothing is owed.
5. `docs/12-sim-a717-protocol.md:133`: COMMIT swaps the buffers at the next frame boundary,
   "so a frame is never replaced halfway through". A stopped device swaps at once
   (`virtual_device.py:372`), STOP keeps the place in the frame (`virtual_device.py:318`) and
   START resumes there: one frame on the wire, with one frame id, begins with one upload
   and ends with the next. `FrameSentWhole` counts these commits.

Smaller observations, met while modelling, with no run of their own.

Stream, link and codec:

- In continuous mode, which has no frame ids, two faults close to one another can glue two
  frames. SF3 is dropped and the search that follows meets a frame sent as SF1, SF3,
  SF2, SF4: nothing locks before its SF4, which completes the frame begun before. It is
  shown complete and counted as one, its SF3 INVALID, its last subframe a frame younger than
  its first. `docs/12` (lines 147, 150) promises a sync loss and a re-lock for each of these faults,
  and so it is; `FramesNotMixed` speaks of faults that leave the link the time for it.
- A frame restarted in mid-frame by a repeated slot leaves the slots before it
  PENDING when it is published; `docs/13` (line 112) calls a slot passed over
  MISSING. `SlotsAccounted` carries these as `unmarked`.
- A loss and a new lock within one read are applied in the order lock, loss, so
  that SEARCHING is shown of a locked synchronizer until the next event
  (`serial_source.py:146`, `152`). Only the converse is a property.
- A frame of which every packet is lost leaves no trace in the drop counter
  (`serial_source.py:170`); `MissingIsLost` is about published frames.
- A reconnect whose START fails is logged and not retried
  (`serial_service.py:592`): connected, and not streaming.
- `decode_subframe` never reports a mapping whose subframes all lie outside
  1..4, although its comment says that a bad mapping shows with subframe 1
  (`parameter_decoder.py:64`); `LiveAgrees` excludes it.
- `quantization_tolerance` ignores the weights of BCD digits
  (`parameter_encoder.py:59`); `ClosedLoop` uses the weight.
- The validator does not look for overlaps within one parameter
  (`semantic.py:92`), nor for a mapping on the sync word.
- A refused value of a parameter whose occurrences have unlike fields may be
  partly written (comment at `serial_service.py:447`); `ClosedLoop`
  covers like fields.
- A listener that raises while an event is handled ends the pump, and the rest
  of the drained events is lost (`serial_service.py:530`).

Live values and graphs:

- `StreamingService.reset()` has no caller: the latest values, and with them the
  rows of the Parameters page, of an earlier stream survive into the next.
  `TableAgreesWithFrame` speaks from the first decoded subframe on.
- Editing any parameter while live empties the latest values, so that the selection is
  lost with its row, although `docs/03` (line 231) says that the same sample is
  selected again.
- An edit of the unit while live leaves numbers of both units in one series;
  `docs/13` says that one y axis never mixes units. `AxisOneUnit` excludes it
  (`past.mixed`).
- A series takes its unit from its first sample, also when that is an error and
  no number (`timeseries_store.py:90`). A parameter that could not be decoded, is repaired
  under another unit and is then dropped from the dataframe is offered under the
  unit it never had a number in, and drawn beside others of it. `past.mixed`
  therefore speaks of a series begun, not of points.
- Stamps that go back (a replay, the clock) keep more than `max_seconds` in a
  series; `HistoryBounded` holds until they do.
- A batch without numbers sends no time series event; a forced redraw while
  paused includes samples that came after the pause.
- `TimeSeriesStore.configure` has no caller in the program.

Dataframes and files:

- A word beyond a reduced WPS is written as a word of the next subframe, with no
  more than a finding; word 0, or a word beyond the frame, is written too and the file then does not open.
- Occurrence and part numbers are renumbered, and may merge, when a file is read again.
- Opening, the demo and publishing an import drop edits not exported without
  asking; only New asks (`docs/03:305`).
- A failed export leaves the file short while the dataframe may count as not modified;
  `AdbWriteError` is not caught by the caller.
- OK in the parameter dialog, with nothing touched, rounds the resolution to six digits,
  drops weights of BCD digits (documented) and makes the formula a linear one; a record
  that is written anew loses the state table of a parameter that is no discrete.
- A save that fails leaves its rows to the next commit (`repository.py:48`); a record
  without a name, loaded from the repository, is compared as PARAM_0000. The program itself
  does not use the repository yet.
- A type text that only the importer's corrections can read (`R AW`, as raw) is
  exported as it stands when AFDA has no word for the type, and read back as
  unknown. Types that AFDA has a word for are written with that word.
- A parameter dialog open while an import is published updates the
  parameter of the same id in the new dataframe.

Import and review:

- An import that ends while an older review is open opens a second dialog in front of it;
  closing the older one overwrites the page's session, and the new review is gone, although the page
  says that rows wait there until they are published. A second import replaces an
  unpublished review without a word.
- `Unsigned Analog` with the sign column set reads as signed; a later edit
  makes it unsigned. A type read after correction (`BCO`) becomes
  unknown by an edit, although `docs/03` and `domain/parameter.py` say
  that the canonical type never changes between an import and a later edit.
- A row approved without a person may later get the warning that it overlaps
  and stays APPROVED; a row included again keeps its approval.
- Findings about the spacing of occurrences are made at the words per subframe of
  the import and not again when those change.
- With the decimal comma `0.5` reads as 5, without a finding.
- Names qualified to make them unique can collide, and are not qualified again after an edit.
- Approve All Validated includes rows that the filter hides (documented).

## 8. What is left out

| Left out | Reason |
|---|---|
| Byte-level parsing of packets | planned, section 2 |
| Wave shapes of the generator | floating point; any value stands for them in `Codec` |
| Floating-point resolutions, offsets, minimum and maximum, state tables, traces | no control depends on them beyond what `Codec` has; VALID stands for OUT_OF_RANGE |
| Pace, delayed and paused streams of the device, pace of a replay | interleaving covers every pace |
| A checksum or magic that occurs by chance within a packet | `FramedStream` takes or skips packets whole; for `StreamParser` |
| File format of a session, samples and events in it | conversions; the records that matter are in `RecordReplay` |
| ADB: quoting, copied columns, sync words, trailing fields, decimals, the legacy flag | text kept or passed on; `AdbCodec` has what decides where a parameter lies and what it means |
| PDF extraction, layout, page scanning and recognition | image and string processing; a cell arrives in `Normalisation` as text that parses, parses after correction, or does not |
| Help texts, menus, settings, painting, hardware and frame pages, static sources and frame files | no state of their own that a property would be about, or a single assignment |
| Wiring, demo, build tools | the same |

Abstractions worth remembering: in `FramedStream` a
subframe is emitted in one step, in `CommandChannel` in two; in `SerialService` a handshake is one step and
a read returns one subframe; in `RecordReplay` a session is complete up to its
last record, since the reader stops at the first line it cannot parse; in
`LiveDecoding` the words of a subframe are the tick they arrived at; in
`DataframeEditing` a dialog is one step; in `ImportReview` the document is a set
of rows already cut into cells.

## 9. Running the checks

    tlc -workers 2 -config MCStreamSource.cfg MCStreamSource.tla
    tlapm SubframeAssembler_proofs.tla

Each `MC<Module>.tla` gives the constants that need an expression, each
`MC<Module>.cfg` the others; a name with a suffix (`MCImportReview_comma.cfg`)
is a run of one property that fails, section 7. `PROJECT.json` lists runs,
theorems, the lines every definition models, and for every property a slip that
breaks it.
