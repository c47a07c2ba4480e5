------------------------------ MODULE AdbCodec ------------------------------
(***************************************************************************)
(* The canonical dataframe (domain/parameter.py) and the ADB codec         *)
(* (dataframe/adb_codec): a raw parameter record read into a parameter,    *)
(* and a parameter written as the record it came from when that record     *)
(* still says the same (dataframe/compare.py), else as a new one.          *)
(*                                                                         *)
(* A raw record is its name, type text, scale, slot table, parts for each  *)
(* sample and locations.  A location's selector is the set of its digits,  *)
(* {} when blank.  Columns that are copied through, and the spare fields,  *)
(* are left out; so are the notes on what a reader had to guess.           *)
(***************************************************************************)
EXTENDS Integers, Sequences, FiniteSets
LOCAL INSTANCE SequencesExt
LOCAL INSTANCE FiniteSetsExt

CONSTANTS
  SubframeCount, LocationSlots, StateSlots,
  NoWeight    \* in the place of a digit weight: none

ASSUME CodecAssumption == {SubframeCount, LocationSlots, StateSlots} \subseteq Nat \ {0}

Subframes == 1..SubframeCount

\* normalize_source_type, on the type texts of the model
Canonical(source) ==
  CASE source \in {"Signed Analog", "BNR (signed)"} -> "analog_signed"
    [] source \in {"Unsigned Analog", "BNR", "Unsigned Analog (signed)"} -> "analog_unsigned"
    [] source = "BCD" -> "bcd"
    [] source = "Discrete" -> "discrete"
    [] source = "Raw" -> "raw"
    [] OTHER -> "unknown"

\* afda_type_text: AFDA's own texts stay, others give way to its word
AfdaTypes == {"Signed Analog", "Unsigned Analog", "BCD", "Discrete"}
AfdaText(type, source) ==
  IF source \in AfdaTypes \/ \A t \in AfdaTypes : Canonical(t) # type THEN source
  ELSE CHOOSE t \in AfdaTypes : Canonical(t) = type

Segment(sequence, subframes, word, lsb, msb, weight, raw) ==
  [sequence |-> sequence, subframes |-> subframes, word |-> word,
   lsb |-> lsb, msb |-> msb, weight |-> weight, raw |-> raw]

Occurrence(index, segments) == [index |-> index, segments |-> segments]

NoLabel == ""

State(value, label) == [value |-> value, label |-> label]

\* effective_states: the table, or the one the two labels imply
Implied(value, label) == IF label = NoLabel THEN <<>> ELSE <<State(value, label)>>

EffectiveStates(s) ==
  IF s.table # <<>> THEN s.table ELSE Implied(0, s.zero) \o Implied(1, s.one)

\* The segments of an occurrence one by one, and as samples: the k-th
\* subframe of every segment.
NthOf(S, k) == CHOOSE s \in S : Cardinality({t \in S : t < s}) = k - 1

\* The elements at some positions of a list, in their order
Among(list, positions) == [n \in 1..Cardinality(positions) |-> list[NthOf(positions, n)]]

-----------------------------------------------------------------------------
(* Reading *)

\* split_absolute_word
SplitSubframe(word, wps) == (word - 1) \div wps + 1
SplitWord(word, wps) == ((word - 1) % wps) + 1

\* decode_subframe_selector
Decoded(selector) == IF selector = {0} THEN Subframes ELSE selector

FrameAbsolute(l, wps) == l.selector \in {{}, Subframes} \/ l.word > wps

\* What makes _parse_locations give up on the document
Unreadable(l, wps) ==
  \/ l.word < 1
  \/ FrameAbsolute(l, wps) /\ SplitSubframe(l.word, wps) \notin Subframes
  \/ ~FrameAbsolute(l, wps) /\ ~(Decoded(l.selector) \subseteq Subframes)

Place(l, wps) ==
  IF FrameAbsolute(l, wps)
  THEN [subframes |-> {SplitSubframe(l.word, wps)}, word |-> SplitWord(l.word, wps),
        lsb |-> l.lsb, msb |-> l.msb]
  ELSE [subframes |-> Decoded(l.selector), word |-> l.word, lsb |-> l.lsb, msb |-> l.msb]

\* Consecutive locations, parts of them to a sample; the last may be shorter.
InParts(places, parts) ==
  [k \in 1..((Len(places) + parts - 1) \div parts) |->
     SubSeq(places, (k - 1) * parts + 1, Min({k * parts, Len(places)}))]

Shape(sample) == [i \in DOMAIN sample |-> <<sample[i].word, sample[i].lsb, sample[i].msb>>]

\* _parse_locations and _segments: samples of one shape are one occurrence,
\* recorded in all their subframes; the parts are listed least significant
\* first, and sequence 1 is the most significant.
OccurrencesRead(samples, weights) ==
  LET firsts == {i \in DOMAIN samples : \A j \in 1..(i - 1) : Shape(samples[j]) # Shape(samples[i])}
      segment(i, s) ==
        LET part == Len(samples[i]) - s + 1
            subframes == UNION {samples[j][part].subframes :
                                  j \in {k \in DOMAIN samples : Shape(samples[k]) = Shape(samples[i])}}
        IN  Segment(s, subframes, samples[i][part].word, samples[i][part].lsb, samples[i][part].msb,
                    IF weights = <<>> THEN NoWeight ELSE weights[part], subframes)
  IN  [k \in 1..Cardinality(firsts) |->
         LET i == NthOf(firsts, k)
         IN  Occurrence(k, [s \in 1..Len(samples[i]) |-> segment(i, s)])]

\* _parse_state_slots: a table of 0 and 1 alone becomes the two labels
LabelFor(slots, value) ==
  LET at == {i \in DOMAIN slots : slots[i].value = value /\ slots[i].label # NoLabel}
  IN  IF at = {} THEN NoLabel ELSE slots[Min(at)].label

TwoValued(slots) ==
  /\ \A i \in DOMAIN slots : slots[i].value \in {0, 1}
  /\ \A i, j \in DOMAIN slots : slots[i].value = slots[j].value => i = j

StatesRead(type, slots) ==
  IF type = "bcd" THEN [one |-> NoLabel, zero |-> NoLabel, table |-> <<>>]
  ELSE [one |-> LabelFor(slots, 1), zero |-> LabelFor(slots, 0),
        table |-> IF TwoValued(slots) THEN <<>> ELSE slots]

RecordReadable(r, wps) == \A i \in DOMAIN r.locations : ~Unreadable(r.locations[i], wps)

\* parse_parameter_record
ParseRecord(r, i, wps) ==
  LET type == Canonical(r.source)
      weights == IF type = "bcd" /\ Len(r.slots) = r.parts
                 THEN [k \in DOMAIN r.slots |-> r.slots[k].value] ELSE <<>>
      places == [k \in DOMAIN r.locations |-> Place(r.locations[k], wps)]
  IN  [id |-> <<"adb", NoLabel, i>>, name |-> r.name, source |-> r.source, type |-> type, scale |-> r.scale,
       states |-> StatesRead(type, r.slots),
       occurrences |-> OccurrencesRead(InParts(places, r.parts), weights),
       record |-> <<r>>]

\* parse_adb_text
FileReadable(f) == f.wps > 0 /\ \A i \in DOMAIN f.records : RecordReadable(f.records[i], f.wps)

ParseFile(f) ==
  [wps |-> f.wps, parameters |-> [i \in DOMAIN f.records |-> ParseRecord(f.records[i], i, f.wps)]]

-----------------------------------------------------------------------------
(* Comparing (parameter_differences) *)

Canonically(occurrences) ==
  [k \in DOMAIN occurrences |->
     [occurrences[k] EXCEPT !.segments = [s \in DOMAIN @ |-> [@[s] EXCEPT !.raw = {}]]]]

AsMap(states) == {states[i] : i \in DOMAIN states}

SameParameter(p, q) ==
  /\ <<p.name, p.source, p.type, p.scale>> = <<q.name, q.source, q.type, q.scale>>
  /\ <<p.states.one, p.states.zero>> = <<q.states.one, q.states.zero>>
  /\ AsMap(EffectiveStates(p.states)) = AsMap(EffectiveStates(q.states))
  /\ Canonically(p.occurrences) = Canonically(q.occurrences)

-----------------------------------------------------------------------------
(* Writing *)

\* absolute_word
AbsoluteWord(subframe, word, wps) == (subframe - 1) * wps + word

Location(segment, subframe, wps) ==
  [selector |-> Subframes, word |-> AbsoluteWord(subframe, segment.word, wps),
   lsb |-> segment.lsb, msb |-> segment.msb]

Spread(o) == {Cardinality(o.segments[s].subframes) : s \in DOMAIN o.segments}

\* Occurrences of one number of parts, the parts of each in as many subframes
Uniform(occurrences) ==
  /\ Cardinality({Len(occurrences[k].segments) : k \in DOMAIN occurrences}) = 1
  /\ \A k \in DOMAIN occurrences : Cardinality(Spread(occurrences[k])) = 1

\* The samples of an occurrence that begin in a subframe, in file order
SamplesAt(o, subframe, uniform, wps) ==
  LET parts == Reverse(o.segments)
      nth(k) == [i \in DOMAIN parts |-> NthOf(parts[i].subframes, k)]
      begins(k) == Min({nth(k)[i] : i \in DOMAIN parts})
      ks == {k \in 1..Cardinality(parts[1].subframes) : begins(k) = subframe}
  IN  IF ~uniform
      THEN LET here == Among(parts, {i \in DOMAIN parts : subframe \in parts[i].subframes})
           IN  [i \in DOMAIN here |-> Location(here[i], subframe, wps)]
      ELSE FlattenSeq([j \in 1..Cardinality(ks) |->
             LET k == NthOf(ks, j)
             IN  [i \in DOMAIN parts |-> Location(parts[i], nth(k)[i], wps)]])

WithSegments(occurrences) ==
  Among(occurrences, {k \in DOMAIN occurrences : occurrences[k].segments # <<>>})

\* _locations: subframe by subframe, the occurrences in their order
Locations(p, wps) ==
  LET os == WithSegments(p.occurrences)
  IN  FlattenSeq([sf \in Subframes |->
        FlattenSeq([k \in DOMAIN os |-> SamplesAt(os[k], sf, Uniform(os), wps)])])

Parts(p) ==
  LET os == WithSegments(p.occurrences)
  IN  IF os = <<>> \/ ~Uniform(os) THEN 1 ELSE Len(os[1].segments)

\* Those of a list of occurrences that have a weight on every digit
Weighted(os) ==
  Among(os, {k \in DOMAIN os : \A s \in DOMAIN os[k].segments : os[k].segments[s].weight # NoWeight})

\* Slip: the weights in sequence order, the parts in file order.
WeightsInSequence(p) ==
  LET os == Weighted(WithSegments(p.occurrences))
  IN  IF os = <<>> \/ ~Uniform(WithSegments(p.occurrences)) THEN <<>>
      ELSE [i \in DOMAIN os[1].segments |-> os[1].segments[i].weight]

Weights(p) ==
  LET os == Weighted(WithSegments(p.occurrences))
  IN  IF os = <<>> \/ ~Uniform(WithSegments(p.occurrences)) THEN <<>>
      ELSE LET parts == Reverse(os[1].segments) IN [i \in DOMAIN parts |-> parts[i].weight]

\* _generate_record; a record that does not fit is refused
Generated(p, wps) ==
  [name |-> p.name, source |-> AfdaText(p.type, p.source), scale |-> p.scale,
   slots |-> CASE p.type = "discrete" -> EffectiveStates(p.states)
               [] p.type = "bcd" -> [i \in DOMAIN Weights(p) |-> State(Weights(p)[i], NoLabel)]
               [] OTHER -> <<>>,
   parts |-> Parts(p), locations |-> Locations(p, wps)]

\* _still_matches
StillMatches(p, r, wps) == RecordReadable(r, wps) /\ SameParameter(p, ParseRecord(r, 0, wps))

\* Slip: every record is written anew.
RecordAnew(p, wps) == Generated(p, wps)

\* parameter_record
Record(p, wps) ==
  IF p.record # <<>> /\ StillMatches(p, p.record[1], wps) THEN p.record[1] ELSE Generated(p, wps)

\* AdbWriteError
Refused(d) ==
  \E i \in DOMAIN d.parameters :
    LET p == d.parameters[i]
    IN  /\ p.record = <<>> \/ ~StillMatches(p, p.record[1], d.wps)
        /\ \/ p.type = "discrete" /\ Len(EffectiveStates(p.states)) > StateSlots
           \/ Len(Locations(p, d.wps)) > LocationSlots

\* dataframe_to_adb_text
AdbText(d) ==
  [wps |-> d.wps, records |-> [i \in DOMAIN d.parameters |-> Record(d.parameters[i], d.wps)]]
=============================================================================
