---------------------------- MODULE Normalisation ----------------------------
(***************************************************************************)
(* A row of a PDF table read into a parameter                              *)
(* (dataframe/pdf_importer/normalize.py): what each cell is read as under  *)
(* the conventions of the document, and the issues every interpretation    *)
(* records.                                                                *)
(*                                                                         *)
(* A cell says whether it parses as written ("plain"), only after the      *)
(* correction of confused characters ("misread"), or not at all, and what  *)
(* it then holds: a list of numbers and ranges, <<a>> or <<a, b>>, a set   *)
(* of subframes, or a number.  A reading is a set: empty when the cell     *)
(* cannot be read, else what it is read as with the issues of reading it.  *)
(***************************************************************************)
EXTENDS DataframeChecks
LOCAL INSTANCE SequencesExt
LOCAL INSTANCE FiniteSetsExt

Finding(severity, rule) == [severity |-> severity, rule |-> rule]
Information(rule) == Finding("info", rule)
Warning(rule) == Finding("warning", rule)
Error(rule) == Finding("error", rule)

\* The conventions of a document that decide how a cell is read
ImportProfile ==
  [unit : {"auto", "hz", "seconds"}, bits : {"auto", "per_word", "range_per_word"},
   meaning : {"auto", "segments", "occurrences"},
   pair : {"auto", "offset_resolution", "resolution_offset"},
   blankAll : BOOLEAN, zeroAll : BOOLEAN, comma : BOOLEAN, confidence : Int]

If(condition, finding) == IF condition THEN {finding} ELSE {}

NeedsReview(findings) == \E f \in findings : f.severity \in {"error", "warning"}

Reading(value, findings) == {[value |-> value, findings |-> findings]}

\* _parse_numeric, _subframes and _bit_specs: a second try on the corrected
\* text, which a warning reports.
OrRepaired(first, second, rule) ==
  IF first # {} THEN first
  ELSE {[r EXCEPT !.findings = @ \cup {Warning(rule)}] : r \in second}

-----------------------------------------------------------------------------
(* Cells *)

Legible(cell, repaired) == cell.read = "plain" \/ (repaired /\ cell.read = "misread")

\* parse_word_groups: a range keeps its written order
WordGroup(token) ==
  IF Len(token) = 1 THEN token
  ELSE IF token[1] <= token[2] THEN [k \in 1..(token[2] - token[1] + 1) |-> token[1] + k - 1]
  ELSE [k \in 1..(token[1] - token[2] + 1) |-> token[1] - k + 1]

WordGroups(tokens) == [k \in DOMAIN tokens |-> WordGroup(tokens[k])]

WordsRead(cell) ==
  LET groups(repaired) == IF Legible(cell, repaired) THEN Reading(WordGroups(cell.tokens), {}) ELSE {}
  IN  OrRepaired(groups(FALSE), groups(TRUE), "word_repaired")

\* parse_subframe_field
SubframeField(read, stated, profile) ==
  CASE read = "blank" -> Reading(Subframes, If(~profile.blankAll, Warning("subframe_blank")))
    [] read = "zero" -> IF profile.zeroAll THEN Reading(Subframes, {Information("subframe_zero")}) ELSE {}
    [] read = "plain" -> IF stated # {} /\ stated \subseteq Subframes THEN Reading(stated, {}) ELSE {}
    [] OTHER -> {}

SubframesRead(cell, profile) ==
  OrRepaired(SubframeField(cell.read, cell.stated, profile),
             IF cell.read = "misread" THEN SubframeField("plain", cell.stated, profile) ELSE {},
             "subframe_repaired")

\* _spread: one field for each word, or one for all
SpreadOver(fields, count) ==
  IF Len(fields) = count THEN {fields}
  ELSE IF Len(fields) = 1 THEN {[k \in 1..count |-> fields[1]]} ELSE {}

Layout(specs, groups, grouped) == [specs |-> specs, groups |-> groups, grouped |-> grouped]

\* resolve_bit_specs: (msb, lsb) for every word.  Ranges in both columns are
\* the bits of the first and the second word of each pair.
BitsAsWritten(row, groups, profile, repaired) ==
  LET count == Len(FlattenSeq(groups))
      field(token) == <<Max(ToSet(token)), Min(ToSet(token))>>
      msb == row.msb.tokens
      lsb == row.lsb.tokens
      singles(tokens) == \A k \in DOMAIN tokens : Len(tokens[k]) = 1
      plainly(fields, findings) ==
        {[value |-> Layout(specs, groups, FALSE), findings |-> findings] : specs \in SpreadOver(fields, count)}
      pairs == IF count = 2 /\ Len(groups) = 2 THEN <<FlattenSeq(groups)>> ELSE groups
      alternating == [k \in 1..(2 * Len(pairs)) |-> field((IF k % 2 = 1 THEN msb ELSE lsb)[1])]
      declared == profile.bits = "range_per_word"
  IN  IF row.bits.read # "blank"
      THEN IF ~Legible(row.bits, repaired) THEN {}
           ELSE plainly([k \in DOMAIN row.bits.tokens |-> field(row.bits.tokens[k])],
                        If({row.msb.read, row.lsb.read} # {"blank"}, Information("bits_precedence")))
      ELSE IF ~(Legible(row.msb, repaired) /\ Legible(row.lsb, repaired)) THEN {}
      ELSE IF singles(msb) /\ singles(lsb)
      THEN IF Len(msb) # Len(lsb) THEN {}
           ELSE plainly([k \in DOMAIN msb |-> <<msb[k][1], lsb[k][1]>>], {})
      ELSE IF Len(msb) # 1 \/ Len(lsb) # 1 \/ Len(msb[1]) # 2 \/ Len(lsb[1]) # 2
              \/ \E k \in DOMAIN pairs : Len(pairs[k]) # 2
      THEN {}
      ELSE Reading(Layout(alternating, pairs, TRUE),
                   {IF declared THEN Information("bits_layout") ELSE Warning("bits_layout")})

BitsRead(row, groups, profile) ==
  OrRepaired(BitsAsWritten(row, groups, profile, FALSE),
             IF "misread" \in {row.msb.read, row.lsb.read, row.bits.read}
             THEN BitsAsWritten(row, groups, profile, TRUE) ELSE {},
             "bits_repaired")

\* parse_number, in tenths.  "a,b" is a decimal only where the profile says
\* so, and then the point of "a.b" is a thousands separator.
NumberRead(read, a, b, profile) ==
  CASE read = "whole" -> {10 * a}
    [] read = "point" -> {IF profile.comma THEN 10 * (10 * a + b) ELSE 10 * a + b}
    [] read = "comma" -> IF profile.comma THEN {10 * a + b} ELSE {}
    [] OTHER -> {}

\* split_number_pair, before the number is tried: "a,b" matches it too.
PairRead(read, a, b) == IF read \in {"pair", "comma"} THEN {<<10 * a, 10 * b>>} ELSE {}

\* _repairs, on numbers and pairs
Corrected(read) == CASE read = "misread" -> "whole" [] read = "misread_pair" -> "pair" [] OTHER -> "none"

NumberOrRepaired(cell, profile, rule) ==
  LET values(read) == {[value |-> v, findings |-> {}] : v \in NumberRead(read, cell.a, cell.b, profile)}
  IN  OrRepaired(values(cell.read), values(Corrected(cell.read)), rule)

-----------------------------------------------------------------------------
(* Type and sign *)

\* The known type nearest to a type text that is not one of them
Nearest(source) == CASE source = "BCO" -> "BCD" [] source = "Discret e" -> "Discrete" [] OTHER -> source

Signed(source) == IF source = "BNR" THEN "BNR (signed)" ELSE "Unsigned Analog (signed)"

\* resolve_type
TypeRead(source, sign) ==
  LET repaired == Canonical(source) = "unknown" /\ Canonical(Nearest(source)) # "unknown"
      canonical == Canonical(Nearest(source))
      made == sign = "S" /\ canonical = "analog_unsigned"
  IN  [type |-> IF made THEN "analog_signed" ELSE canonical,
       source |-> IF made THEN Signed(source) ELSE source,
       findings |-> If(repaired, Warning("type_repaired"))
                    \cup If(made, Information("sign_column"))
                    \cup If(sign = "U" /\ canonical = "analog_signed", Warning("sign_conflict"))
                    \cup If(sign \notin {"", "S", "U"}, Warning("sign_column"))
                    \cup If(canonical = "unknown", Warning("type"))]

-----------------------------------------------------------------------------
(* Rates and layout *)

\* frequency_to_hz: a rate is <<n, d>>, n/d samples a second.
InHz(rate, unit) ==
  IF unit # "seconds" THEN {rate} ELSE IF rate[1] > 0 THEN {<<rate[2], rate[1]>>} ELSE {}

Superframe(hz) == hz[1] * SubframeCount < hz[2]

\* expected_occurrences: whole or not at all
WholeExpected(hz, subframes) ==
  LET samples == hz[1] * SubframeCount
      per == hz[2] * Cardinality(subframes)
  IN  IF Superframe(hz) \/ (samples % per) # 0 THEN {} ELSE {samples \div per}

FrequencyRead(cell, unit) ==
  LET rates(repaired) ==
        IF Legible(cell, repaired) THEN Reading(InHz(<<cell.n, cell.d>>, unit), {}) ELSE {}
      read == OrRepaired(rates(FALSE), rates(TRUE), "frequency_repaired")
  IN  IF cell.read = "blank" THEN [value |-> {}, findings |-> {}]
      ELSE IF read = {} THEN [value |-> {}, findings |-> {Warning("frequency")}]
      ELSE LET r == CHOOSE r \in read : TRUE
           IN  [r EXCEPT !.findings = @ \cup If(r.value = {}, Warning("frequency"))]

Grouped(layout) == layout.grouped \/ \E g \in DOMAIN layout.groups : Len(layout.groups[g]) > 1

WordCount(layout) == Len(FlattenSeq(layout.groups))

\* Slip: several words with no usable rate are read without a word about it.
NeverProvisional(layout, expected, profile) == FALSE

\* resolve_layout: the rate decides between samples and parts of a value;
\* without one, and with nothing declared, the reading is provisional.
Provisional(layout, expected, profile) ==
  /\ ~Grouped(layout) /\ WordCount(layout) # 1
  /\ profile.meaning = "auto"
  /\ expected \notin {{WordCount(layout)}, {1}}

MeaningOf(layout, expected, profile) ==
  LET same == \A k \in DOMAIN layout.specs : layout.specs[k] = layout.specs[1]
  IN  CASE Grouped(layout) -> "grouped"
        [] ~Grouped(layout) /\ WordCount(layout) = 1 -> "occurrences"
        [] ~Grouped(layout) /\ WordCount(layout) # 1 ->
             IF profile.meaning # "auto" THEN profile.meaning
             ELSE IF expected = {1} \/ (expected # {WordCount(layout)} /\ ~same) THEN "segments"
             ELSE "occurrences"

LayoutFindings(layout, meaning, hz, expected, profile) ==
  LET actual == CASE meaning = "grouped" -> Len(layout.groups)
                  [] meaning = "segments" -> 1
                  [] OTHER -> WordCount(layout)
      slow == \E r \in hz : Superframe(r)
  IN  If(slow, Error("superframe"))
      \cup If(hz # {} /\ ~slow /\ expected = {}, Warning("frequency"))
      \cup If(expected \notin {{}, {actual}}, Warning("frequency"))
      \cup If(Provisional(layout, expected, profile), Warning("multiword"))

\* build_occurrences
OccurrencesOf(layout, subframes, meaning) ==
  LET words == FlattenSeq(layout.groups)
      segment(s, k) == Segment(s, subframes, words[k], layout.specs[k][2], layout.specs[k][1], NoWeight, {})
      before(g) == Len(FlattenSeq(SubSeq(layout.groups, 1, g - 1)))
  IN  CASE meaning = "segments" -> <<Occurrence(1, [k \in DOMAIN words |-> segment(k, k)])>>
        [] meaning = "grouped" ->
             [g \in DOMAIN layout.groups |->
                Occurrence(g, [k \in DOMAIN layout.groups[g] |-> segment(k, before(g) + k)])]
        [] OTHER -> [k \in DOMAIN words |-> Occurrence(k, <<segment(1, k)>>)]

\* spacing_issue: samples are spread evenly over the subframe
Uneven(occurrences, wps) ==
  LET first(k) == occurrences[k].segments[1].word
  IN  \E k \in 1..(Len(occurrences) - 1) : (first(k + 1) - first(k)) * Len(occurrences) # wps

-----------------------------------------------------------------------------
(* Conversion and states *)

\* The resolution cell, which may hold the offset too, and the offset cell.
\* A conversion that cannot be read does not drop the row.
ConversionRead(row, type, profile) ==
  LET r == row.resolution
      o == row.offset
      asWritten == PairRead(r.read, r.a, r.b)
      pairs == IF asWritten # {} THEN asWritten ELSE PairRead(Corrected(r.read), r.a, r.b)
      pair == CHOOSE p \in pairs : TRUE
      turned == profile.pair = "resolution_offset"
      column == NumberRead(o.read, o.a, o.b, profile)
      scale == NumberOrRepaired(r, profile, "resolution_repaired")
      offset == NumberOrRepaired(o, profile, "offset_repaired")
      found(reading) == UNION {x.findings : x \in reading}
      or(reading, default) == IF reading = {} THEN default ELSE (CHOOSE x \in reading : TRUE).value
  IN  IF pairs # {}
      THEN [scale |-> IF turned THEN pair[1] ELSE pair[2],
            offset |-> IF turned THEN pair[2] ELSE pair[1],
            findings |-> If(asWritten = {}, Warning("resolution_repaired"))
                         \cup {IF profile.pair = "auto" THEN Warning("resolution_pair")
                               ELSE Information("resolution_pair")}
                         \cup If(o.read # "blank" /\ column # {0}, Warning("offset_conflict"))]
      ELSE [scale |-> or(scale, 10), offset |-> or(offset, 0),
            findings |-> found(scale) \cup found(offset)
                         \cup If(r.read # "blank" /\ scale = {}, Error("resolution"))
                         \cup If(r.read = "blank" /\ type \in {"analog_signed", "analog_unsigned"},
                                 Error("resolution"))
                         \cup If(r.read = "blank" /\ type = "bcd", Information("resolution_default"))
                         \cup If(o.read # "blank" /\ offset = {}, Error("offset"))]

\* The labels of a discrete: its cells, its lines kept as notes when the
\* field is wide, or what its texts seem to say.
Labelled(one, zero) == [one |-> one, zero |-> zero, table |-> <<>>]

StatesOf(row, type, specs) ==
  LET wide == \E k \in DOMAIN specs : specs[k][1] > specs[k][2]
      noted == row.states = "lines" /\ type = "discrete" /\ wide
      given == row.states \in {"cells", "lines"} /\ ~noted
      inferred == type = "discrete" /\ ~given /\ row.states = "text"
  IN  [labels |-> IF given \/ inferred THEN Labelled("on", "off") ELSE Labelled(NoLabel, NoLabel),
       findings |-> If(type = "discrete" /\ wide, Warning("discrete_width"))
                    \cup If(inferred, Warning("states_inferred"))]

-----------------------------------------------------------------------------
(* A row *)

Mnemonic(row) == IF row.name # "" THEN row.name ELSE IF row.stacked # <<>> THEN row.stacked[1] ELSE ""
Description(row) ==
  IF row.description # "" THEN row.description ELSE IF Len(row.stacked) > 1 THEN row.stacked[2] ELSE ""

Plainly(name) == <<name, "", 0>>

\* Where the text is from, and cells the recogniser was not sure of
SourceFindings(row, profile) ==
  If(row.scanned, Information("ocr")) \cup If(row.continued, Information("continuation"))
  \cup If(row.confidence < profile.confidence, Warning("ocr_confidence"))

Unit(profile) == IF profile.unit = "auto" THEN "hz" ELSE profile.unit

\* _normalize, from the layout on
Built(row, id, type, subframes, layout, profile, wps, findings) ==
  LET rate == FrequencyRead(row.frequency, Unit(profile))
      expected == UNION {WholeExpected(hz, subframes) : hz \in rate.value}
      meaning == MeaningOf(layout, expected, profile)
      occurrences == OccurrencesOf(layout, subframes, meaning)
      conversion == ConversionRead(row, type.type, profile)
      states == StatesOf(row, type.type, layout.specs)
  IN  [parameter |->
         {[id |-> id, name |-> Plainly(Mnemonic(row)), source |-> type.source, type |-> type.type,
           scale |-> conversion.scale, offset |-> conversion.offset, states |-> states.labels,
           occurrences |-> occurrences, record |-> <<>>]},
       findings |->
         findings \cup rate.findings
         \cup If(\E k \in DOMAIN layout.specs : layout.specs[k][1] < layout.specs[k][2], Information("bit_order"))
         \cup LayoutFindings(layout, meaning, rate.value, expected, profile)
         \cup If(Uneven(occurrences, wps), Warning("spacing"))
         \cup conversion.findings \cup states.findings
         \cup If(row.limits = "unreadable", Warning("limits"))]

\* normalize_raw_row: a cell that cannot be read leaves no parameter and the
\* findings up to it.
Normalised(row, id, profile, wps) ==
  LET failed(findings, rule) == [parameter |-> {}, findings |-> findings \cup {Error(rule)}]
      type == TypeRead(row.type, row.sign)
      early == SourceFindings(row, profile) \cup type.findings
      words == WordsRead(row.words)
  IN  IF Mnemonic(row) = "" THEN failed({}, "name")
      ELSE IF words = {} THEN failed(early, "word")
      ELSE LET w == CHOOSE w \in words : TRUE
               subframes == SubframesRead(row.subframe, profile)
               bits == BitsRead(row, w.value, profile)
           IN  IF subframes = {} THEN failed(early \cup w.findings, "subframe")
               ELSE LET s == CHOOSE s \in subframes : TRUE
                    IN  IF bits = {} THEN failed(early \cup w.findings \cup s.findings, "bits")
                        ELSE LET b == CHOOSE b \in bits : TRUE
                             IN  Built(row, id, type, s.value, b.value, profile, wps,
                                       early \cup w.findings \cup s.findings \cup b.findings)

-----------------------------------------------------------------------------
(* Conventions the document itself shows *)

\* frequency_unit_evidence: the rows whose rate agrees with their words
UnitAgrees(row, profile, unit) ==
  LET groups == WordGroups(row.words.tokens)
      subframes == SubframeField(row.subframe.read, row.subframe.stated, profile)
      usable == /\ Legible(row.frequency, TRUE) /\ row.frequency.n > 0
                /\ Legible(row.words, TRUE) /\ subframes # {}
      hz == CHOOSE hz \in InHz(<<row.frequency.n, row.frequency.d>>, unit) : TRUE
      several == Len(groups) > 1 /\ \A g \in DOMAIN groups : Len(groups[g]) = 1
  IN  usable /\ \E e \in WholeExpected(hz, (CHOOSE s \in subframes : TRUE).value) :
                   e \in IF several THEN {1, Len(groups)} ELSE {Len(groups)}

\* bits_layout_evidence
ShowsPairs(row) ==
  LET groups == WordGroups(row.words.tokens)
      range(cell) == Legible(cell, TRUE) /\ Len(cell.tokens) = 1 /\ Len(cell.tokens[1]) = 2
  IN  range(row.msb) /\ range(row.lsb) /\ Legible(row.words, TRUE) /\ \A g \in DOMAIN groups : Len(groups[g]) = 2

CONSTANT MinLayoutEvidence

\* effective_profile: a tie is read as Hz
Effective(rows, profile) ==
  LET count(Test(_)) == Cardinality({k \in DOMAIN rows : Test(rows[k])})
      hz == count(LAMBDA r : UnitAgrees(r, profile, "hz"))
      seconds == count(LAMBDA r : UnitAgrees(r, profile, "seconds"))
  IN  [profile EXCEPT
         !.unit = IF @ # "auto" THEN @ ELSE IF seconds > hz THEN "seconds" ELSE "hz",
         !.bits = IF @ = "auto" /\ count(ShowsPairs) >= MinLayoutEvidence THEN "range_per_word" ELSE @]

-----------------------------------------------------------------------------
(* What a reading must be *)

\* The conventions left open, decided one way or another
Completions(profile) ==
  [unit : {profile.unit},
   bits : IF profile.bits = "auto" THEN {"auto", "range_per_word"} ELSE {profile.bits},
   meaning : IF profile.meaning = "auto" THEN {"auto", "segments", "occurrences"} ELSE {profile.meaning},
   pair : IF profile.pair = "auto" THEN {"offset_resolution", "resolution_offset"} ELSE {profile.pair},
   blankAll : {profile.blankAll}, zeroAll : {profile.zeroAll}, comma : {profile.comma},
   confidence : {profile.confidence}]

\* A reading that asks for no review, and is the only one that asks for none
TheOnlyReading(row, id, profile, wps) ==
  LET read == Normalised(row, id, profile, wps)
  IN  /\ ~NeedsReview(read.findings)
      /\ \A p \in Completions(profile) :
           LET other == Normalised(row, id, p, wps)
           IN  NeedsReview(other.findings) \/ other.parameter = read.parameter
=============================================================================
