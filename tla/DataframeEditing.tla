-------------------------- MODULE DataframeEditing --------------------------
(***************************************************************************)
(* The dataframe a user works on: services/dataframe_service.py over the   *)
(* dataframe store, with the dialogs of ui/dataframe_view that build what  *)
(* it commits, the ADB files it is opened from and exported to, and the    *)
(* database of dataframe/repository.                                       *)
(*                                                                         *)
(* A parameter id is its origin, the mnemonic it was made of and a number. *)
(* A mnemonic is <<name, how often copied>>.  The dialogs are modal, so an *)
(* edit is one step.                                                       *)
(***************************************************************************)
EXTENDS DataframeChecks, DataframeRepository
LOCAL INSTANCE SequencesExt
LOCAL INSTANCE FiniteSetsExt

CONSTANTS
  Paths,         \* the files
  FirstFiles,    \* what is in them at first
  Rates, Names, Sources, Words, Labels,   \* what a user may enter
  Imported,      \* dataframes of the demo and of PDF reviews
  MaxSteps       \* bound on edits, saves and failed exports

NoPath == "none"

\* What reads or builds a file or a dataframe makes lists; a segment keeps the
\* number it has among its parts, and the selector it was read with only
\* while that says the subframes it is in.  A digit weight read is a number,
\* and the digits of a value have one each or none has.
Listed(s) == s \in Seq({s[k] : k \in DOMAIN s})

IsRecord(r) ==
  /\ Listed(r.locations) /\ r.parts \in Nat \ {0} /\ Listed(r.slots)
  /\ Canonical(r.source) = "bcd" => \A i \in DOMAIN r.slots : r.slots[i].value # NoWeight

IsFile(f) ==
  /\ f = [wps |-> f.wps, records |-> f.records] /\ f.wps \in Int
  /\ Listed(f.records) /\ \A i \in DOMAIN f.records : IsRecord(f.records[i])

IsSegment(g) ==
  /\ g = Segment(g.sequence, g.subframes, g.word, g.lsb, g.msb, g.weight, g.raw)
  /\ g.sequence \in Int /\ IsFiniteSet(g.subframes) /\ 0 \notin g.subframes
  /\ g.raw = {} \/ Decoded(g.raw) = g.subframes

IsOccurrence(o) ==
  /\ o = Occurrence(o.index, o.segments)
  /\ Listed(o.segments) /\ \A s \in DOMAIN o.segments : IsSegment(o.segments[s])

Weighed(type, o) ==
  \A s, t \in DOMAIN o.segments :
    o.segments[s].weight # NoWeight => type = "bcd" /\ o.segments[t].weight # NoWeight

\* A text of AFDA's says its type; states that two labels can say are in no
\* table.
Coherent(type, source, states, occurrences) ==
  /\ source \in AfdaTypes => Canonical(source) = type
  /\ Listed(states.table)
  /\ states.table = <<>> \/ ~TwoValued(states.table)
  /\ \A k \in DOMAIN occurrences : Weighed(type, occurrences[k])

IsParameter(p) ==
  /\ Coherent(p.type, p.source, p.states, p.occurrences)
  /\ p = [id |-> p.id, name |-> p.name, source |-> p.source, type |-> p.type, scale |-> p.scale,
          states |-> p.states, occurrences |-> p.occurrences, record |-> p.record]
  /\ Listed(p.occurrences) /\ \A k \in DOMAIN p.occurrences : IsOccurrence(p.occurrences[k])
  /\ p.record = <<>> \/ (p.record = <<p.record[1]>> /\ IsRecord(p.record[1]))

IsDataframe(d) ==
  /\ d = [wps |-> d.wps, parameters |-> d.parameters]
  /\ d.wps \in Nat
  /\ Listed(d.parameters) /\ \A i \in DOMAIN d.parameters : IsParameter(d.parameters[i])

ASSUME FilesAssumption ==
  /\ DOMAIN FirstFiles = Paths /\ NoPath \notin Paths
  /\ \A path \in Paths : IsFile(FirstFiles[path])

ASSUME EntriesAssumption ==
  Rates \subseteq Nat \ {0} /\ \A d \in Imported : IsDataframe(d) /\ d.wps > 0

VARIABLES
  store,         \* DataframeStore: dataframe, issues, dirty
  files,         \* path -> its content
  home,          \* history: the file the dataframe was last opened from or written to
  opened,        \* history: that file's content when it was opened
  spoiled,       \* history: files a failed export may have left short
  steps

editing == <<store, files, home, opened, spoiled, steps>>
vars == <<editing, repository>>

NoDataframe == [wps |-> 0, parameters |-> <<>>]
NoFile == [wps |-> 0, records |-> <<>>]

Store(d, dirty) == [dataframe |-> d, issues |-> Validate(d), dirty |-> dirty]

\* The modified marker and the files start clean.
Init ==
  /\ store = [dataframe |-> NoDataframe, issues |-> {}, dirty |-> FALSE]
  /\ files = FirstFiles
  /\ home = NoPath /\ opened = NoFile /\ spoiled = {} /\ steps = 0
  /\ InitRepository

d0 == store.dataframe
Loaded == d0 # NoDataframe
Step == steps < MaxSteps /\ steps' = steps + 1

Ids(d) == {d.parameters[i].id : i \in DOMAIN d.parameters}

-----------------------------------------------------------------------------
(* Loading *)

\* load_adb: never asks about unexported edits; a file that cannot be read
\* leaves everything as it was.
OpenAdb(path) ==
  /\ FileReadable(files[path])
  /\ store' = Store(ParseFile(files[path]), FALSE)
  /\ home' = path /\ opened' = files[path]
  /\ UNCHANGED <<files, spoiled, steps, repository>>

Replace(d, dirty) ==
  /\ store' = Store(d, dirty)
  /\ home' = NoPath /\ opened' = NoFile
  /\ UNCHANGED <<files, spoiled, repository>>

\* new_dataframe, after the question about unexported edits
NewDataframe(wps) ==
  /\ Step
  /\ Replace([wps |-> wps, parameters |-> <<>>], TRUE)

\* set_dataframe (the demo) and publish_import: neither asks
TakeImported(d, dirty) ==
  /\ Step
  /\ Replace(d, dirty)

-----------------------------------------------------------------------------
(* The parameter editor *)

Row(occurrence, sequence, subframes, word, lsb, msb) ==
  [occurrence |-> occurrence, sequence |-> sequence, subframes |-> subframes,
   word |-> word, lsb |-> lsb, msb |-> msb]

\* segment_rows
SegmentRows(p) ==
  FlattenSeq([k \in DOMAIN p.occurrences |->
    LET o == p.occurrences[k]
    IN  [s \in DOMAIN o.segments |->
           LET g == o.segments[s]
           IN  Row(o.index, g.sequence, g.subframes, g.word, g.lsb, g.msb)]])

\* Slip: the stored selector of a segment survives a change of its subframes.
CarryAlways(original, subframes) ==
  IF original = {} THEN {} ELSE (CHOOSE s \in original : TRUE).raw

\* _carry_source_raw
CarrySourceRaw(original, subframes) ==
  IF original = {} THEN {}
  ELSE LET s == CHOOSE s \in original : TRUE
       IN  IF s.subframes = subframes THEN s.raw ELSE {}

\* The last segment of the original with a row's occurrence and sequence
OriginalOf(row, previous) ==
  LET matching(k) == {s \in DOMAIN previous[k].segments :
                        /\ previous[k].index = row.occurrence
                        /\ previous[k].segments[s].sequence = row.sequence}
      same == UNION {{k} \X matching(k) : k \in DOMAIN previous}
      last == CHOOSE ks \in same : \A lt \in same : lt[1] < ks[1] \/ (lt[1] = ks[1] /\ lt[2] <= ks[2])
  IN  IF same = {} THEN {} ELSE {previous[last[1]].segments[last[2]]}

\* build_occurrences: grouped by index, by sequence within, rows of one
\* sequence in their order; the digit weights are lost.
BuildOccurrences(rows, previous) ==
  LET indexes == {rows[r].occurrence : r \in DOMAIN rows}
      key(r) == <<rows[r].sequence, r>>
      before(q, r) == key(q)[1] < key(r)[1] \/ (key(q)[1] = key(r)[1] /\ q < r)
      rowsOf(index) == {r \in DOMAIN rows : rows[r].occurrence = index}
      nth(index, n) == CHOOSE r \in rowsOf(index) :
                         Cardinality({q \in rowsOf(index) : before(q, r)}) = n - 1
      segment(r) == Segment(rows[r].sequence, rows[r].subframes, rows[r].word, rows[r].lsb, rows[r].msb,
                            NoWeight, CarrySourceRaw(OriginalOf(rows[r], previous), rows[r].subframes))
  IN  [k \in 1..Cardinality(indexes) |->
         LET index == NthOf(indexes, k)
         IN  Occurrence(index, [n \in 1..Cardinality(rowsOf(index)) |-> segment(nth(index, n))])]

\* What a user does in the mapping table: nothing, Remove Row, Add Segment,
\* Add Occurrence, or another word or other subframes in a row.
NewRow(occurrence, sequence) == Row(occurrence, sequence, Subframes, 2, 1, WordBits)

WithWord(rows, r, word) == [rows EXCEPT ![r].word = word]
WithSubframes(rows, r, subframes) == [rows EXCEPT ![r].subframes = subframes]

RowEdits(rows) ==
  LET last == Max({0} \cup {rows[r].occurrence : r \in DOMAIN rows})
      next(index) == Max({0} \cup {rows[r].sequence : r \in {q \in DOMAIN rows : rows[q].occurrence = index}}) + 1
  IN  {rows} \cup {RemoveAt(rows, r) : r \in DOMAIN rows}
      \cup {Append(rows, NewRow(index, next(index))) : index \in {rows[r].occurrence : r \in DOMAIN rows}}
      \cup {Append(rows, NewRow(last + 1, 1))}
      \cup {WithWord(rows, r, word) : r \in DOMAIN rows, word \in Words}
      \cup {WithSubframes(rows, r, S) : r \in DOMAIN rows, S \in {{1}, Subframes}}

\* _opt: six significant digits
SixDigits(scale) == IF scale < 1000000 THEN scale ELSE ((scale + 5) \div 10) * 10

\* _carry_states: the two labels into the rows 0 and 1 of the table
Relabelled(table, value, label) ==
  LET at == {i \in DOMAIN table : table[i].value = value}
  IN  IF at # {} THEN [table EXCEPT ![Min(at)].label = label]
      ELSE IF label = NoLabel THEN table ELSE Append(table, State(value, label))

CarryStates(table, one, zero) ==
  IF table = <<>> THEN table ELSE Relabelled(Relabelled(table, 1, one), 0, zero)

\* build_candidate: the type is that of the type text
Candidate(p, name, source, one, rows) ==
  [id |-> p.id, name |-> name, source |-> source, type |-> Canonical(source),
   scale |-> SixDigits(p.scale),
   states |-> [one |-> one, zero |-> p.states.zero,
               table |-> CarryStates(p.states.table, one, p.states.zero)],
   occurrences |-> BuildOccurrences(rows, p.occurrences),
   record |-> p.record]

\* What OK may commit for a parameter: one thing changed, or nothing
Candidates(p) ==
  LET rows == SegmentRows(p)
  IN  {Candidate(p, p.name, p.source, p.states.one, r) : r \in RowEdits(rows)}
      \cup {Candidate(p, <<name, 0>>, p.source, p.states.one, rows) : name \in Names}
      \cup {Candidate(p, p.name, source, p.states.one, rows) : source \in Sources}
      \cup {Candidate(p, p.name, p.source, label, rows) : label \in Labels}

Blank(name, source) ==
  LET p == [id |-> NoId, name |-> name, source |-> source, type |-> Canonical(source), scale |-> 1,
            states |-> [one |-> NoLabel, zero |-> NoLabel, table |-> <<>>],
            occurrences |-> <<>>, record |-> <<>>]
  IN  Candidate(p, name, source, NoLabel, <<NewRow(1, 1)>>)

-----------------------------------------------------------------------------
(* Editing (every edit validates and marks the store modified) *)

Commit(d) ==
  /\ Loaded /\ Step
  /\ store' = Store(d, TRUE)
  /\ UNCHANGED <<files, home, opened, spoiled, repository>>

\* make_parameter_id: the first number that is not taken
MakeParameterId(name, ids) ==
  <<"man", name, CHOOSE n \in 1..(Cardinality(ids) + 1) :
                   /\ <<"man", name, n>> \notin ids
                   /\ \A m \in 1..(n - 1) : <<"man", name, m>> \in ids>>

UpdateMetadata(wps) == wps # d0.wps /\ Commit([d0 EXCEPT !.wps = wps])

AddParameter(name, source) ==
  LET p == [Blank(name, source) EXCEPT !.id = MakeParameterId(name, Ids(d0))]
  IN  Commit([d0 EXCEPT !.parameters = Append(@, p)])

UpdateParameter(i, candidate) == Commit(WithParameter(d0, candidate))

RemoveParameter(i) ==
  Commit([d0 EXCEPT !.parameters = Among(@, {k \in DOMAIN @ : @[k].id # d0.parameters[i].id})])

DuplicateParameter(i) ==
  LET p == d0.parameters[i]
      name == <<p.name[1], p.name[2] + 1>>
      clone == [p EXCEPT !.name = name, !.id = MakeParameterId(name, Ids(d0)), !.record = <<>>]
  IN  Commit([d0 EXCEPT !.parameters = InsertAt(@, i + 1, clone)])

\* move_parameter by one place; at the ends it does nothing.
MoveParameter(i) ==
  /\ i + 1 \in DOMAIN d0.parameters
  /\ Commit([d0 EXCEPT !.parameters[i] = d0.parameters[i + 1], !.parameters[i + 1] = d0.parameters[i]])

-----------------------------------------------------------------------------
(* Exporting (export_adb) *)

ExportAdb(path) ==
  /\ Loaded /\ ~Refused(d0)
  /\ files' = [files EXCEPT ![path] = AdbText(d0)]
  /\ store' = [store EXCEPT !.dirty = FALSE]
  /\ home' = path /\ spoiled' = spoiled \ {path}
  /\ UNCHANGED <<opened, steps, repository>>

\* The file is opened for writing, emptied, and cannot be written to its end.
ExportFails(path) ==
  /\ Loaded /\ ~Refused(d0) /\ path \notin spoiled
  /\ \E n \in 0..Len(d0.parameters) :
       files' = [files EXCEPT ![path] = IF n = 0 THEN NoFile
                                        ELSE [AdbText(d0) EXCEPT !.records = SubSeq(@, 1, n)]]
  /\ spoiled' = spoiled \cup {path}
  /\ Step
  /\ UNCHANGED <<store, home, opened, repository>>

-----------------------------------------------------------------------------
Edit ==
  \/ \E wps \in Rates : UpdateMetadata(wps)
  \/ \E name \in Names, source \in Sources : AddParameter(<<name, 0>>, source)
  \/ \E i \in DOMAIN d0.parameters :
       \/ \E c \in Candidates(d0.parameters[i]) : UpdateParameter(i, c)
       \/ RemoveParameter(i) \/ DuplicateParameter(i) \/ MoveParameter(i)

Next ==
  \/ \E path \in Paths : OpenAdb(path) \/ ExportAdb(path) \/ ExportFails(path)
  \/ \E wps \in Rates : NewDataframe(wps)
  \/ \E d \in Imported, dirty \in BOOLEAN : TakeImported(d, dirty)
  \/ Edit
  \/ /\ \/ SaveDataframe(d0)
        \/ \E n \in 0..Len(d0.parameters) : SaveFails(d0, n)
     /\ Loaded /\ Step
     /\ UNCHANGED <<store, files, home, opened, spoiled>>
  \/ (SaveIssues \/ Reopen) /\ UNCHANGED editing

Spec == Init /\ [][Next]_vars

-----------------------------------------------------------------------------
(* What a parameter samples: the bits of each value, part by part *)

SamplesOfOccurrence(o) ==
  {[s \in DOMAIN o.segments |->
      LET g == o.segments[s]
      IN  <<NthOf(g.subframes, k), g.word, g.lsb, g.msb, g.weight>>] :
     k \in 1..Min(Spread(o))}

Samples(p) == UNION {SamplesOfOccurrence(p.occurrences[k]) : k \in DOMAIN p.occurrences}

\* A parameter the format can hold: no error, and occurrences of one shape
Expressible(p) ==
  /\ \A i \in Errors(store.issues) : i.id # p.id
  /\ Uniform(p.occurrences)
  /\ p.type = "bcd" => Cardinality({[s \in DOMAIN p.occurrences[k].segments |->
                                       p.occurrences[k].segments[s].weight] :
                                      k \in DOMAIN p.occurrences}) = 1

\* An unmodified dataframe is the one in its file: read back, each parameter
\* has the name, type, scale and states shown, and samples the same bits,
\* with the same digit weights (dataframe_service.py:232, writer.py:191).  A
\* type without a word of AFDA's is said by the type text alone.
CleanMeansWritten ==
  ~store.dirty /\ home \in Paths \ spoiled =>
    LET back == ParseFile(files[home])
    IN  /\ back.wps = d0.wps /\ Len(back.parameters) = Len(d0.parameters)
        /\ \A i \in DOMAIN d0.parameters :
             LET p == d0.parameters[i]  q == back.parameters[i]
             IN  /\ <<p.name, p.scale>> = <<q.name, q.scale>>
                 /\ p.type \in {Canonical(t) : t \in AfdaTypes \cup {p.source}} => p.type = q.type
                 /\ p.type = "discrete" => AsMap(EffectiveStates(p.states)) = AsMap(EffectiveStates(q.states))
                 /\ Expressible(p) => Samples(p) = Samples(q)

\* Whatever was done to the others, a parameter that is as it was read is
\* written back as the record it was read from (writer.py:121).
OthersVerbatim ==
  ~store.dirty /\ home \in Paths \ spoiled /\ d0.wps = opened.wps =>
    \A i \in DOMAIN d0.parameters, k \in DOMAIN opened.records :
      d0.parameters[i] = ParseRecord(opened.records[k], k, opened.wps)
        => files[home].records[i] = opened.records[k]

\* The export of a dataframe without errors can be opened again (writer.py:238).
ReadableExport ==
  ~store.dirty /\ home \in Paths \ spoiled /\ Errors(store.issues) = {} => FileReadable(files[home])
=============================================================================
