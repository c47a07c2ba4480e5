-------------------------------- MODULE Codec --------------------------------
(***************************************************************************)
(* Parameters in and out of a frame: the encoder (encoder/) writes an      *)
(* engineering value into the bit fields a dataframe gives a parameter,    *)
(* the decoder (decoder/) reads it back, and the validator                 *)
(* (dataframe/validator/) says what is wrong with the dataframe.           *)
(*                                                                         *)
(* Two things use the encoder: a scenario, which writes some parameters    *)
(* into every subframe of a new frame or of a copy of the current one and  *)
(* is dropped when one value is refused (simulation_service.py), and the   *)
(* simulator's signals, which write each subframe with values of its own   *)
(* and go on when one is refused (build_engineering_frame).                *)
(*                                                                         *)
(* The arithmetic is the code's, on integers: a word has WordBits bits, a  *)
(* BCD digit has DigitBits bits and is less than Base; resolutions,        *)
(* offsets and weights are integers, so that nothing depends on rounding   *)
(* of floating point.  A discrete value is 1 or 0 for its true and false   *)
(* label.  The status VALID stands for OUT_OF_RANGE too, which changes     *)
(* neither value.                                                          *)
(***************************************************************************)
EXTENDS Integers, Sequences, FiniteSets, FiniteSetsExt

CONSTANTS
  WordBits,       \* 12 in the code
  SubframeCount,  \* 4 in the code
  DigitBits,      \* 4 in the code
  Base,           \* 10 in the code
  Wps,            \* words per subframe
  SyncWord,       \* the word at address 1 of a blank subframe
  Received,       \* words a frame that came from elsewhere is full of
  Parameters,     \* the pairs of parameters a dataframe may define
  Values,         \* the engineering values of a scenario
  None            \* no value: the code raises, or has None

\* b ** n
Power(b, n) ==
  LET power[k \in 0 .. n] == IF k = 0 THEN 1 ELSE b * power[k - 1]
  IN  power[n]

ASSUME SizesAssumption ==
  /\ {WordBits, SubframeCount, DigitBits, Wps} \subseteq Nat \ {0}
  /\ Base \in 2 .. Power(2, DigitBits)
  /\ Received \cup {SyncWord} \subseteq 0 .. Power(2, WordBits) - 1
  /\ Values \subseteq Int
  /\ None \notin Int /\ \A sf \in 1 .. SubframeCount : None # {sf}

Segment ==
  [subframes : SUBSET Nat, word : Int, lsb : Int, msb : Int, weight : Int \cup {None}]

ASSUME ParametersAssumption ==
  \A pair \in Parameters :
    /\ DOMAIN pair = {1, 2}
    /\ \A i \in {1, 2} : /\ pair[i].resolution \in Int /\ pair[i].offset \in Int
                        /\ pair[i].occurrences \in Seq(Seq(Segment))

VARIABLES
  parameter,   \* the two parameters of the dataframe
  shown,       \* the current frame, and the values it was asked to hold
  draft,       \* the frame being built, and the values it was asked to hold
  todo,        \* what is still to be encoded into it
  accepted     \* the last value was encoded

vars == <<parameter, shown, draft, todo, accepted>>

Subframes == 1 .. SubframeCount
Words     == 1 .. Wps
Which     == DOMAIN parameter

Abs(n) == IF n < 0 THEN -n ELSE n

-----------------------------------------------------------------------------
(* Bit fields: bit_extractor.py.  A segment is a range of bits of a word,  *)
(* recorded in some subframes; its weight is None or that of a BCD digit.  *)

InRange(s) == s.lsb \in 1 .. WordBits /\ s.msb \in 1 .. WordBits

\* The bits of a range may be given in either order.
Low(s)   == Min({s.lsb, s.msb})
High(s)  == Max({s.lsb, s.msb})
Width(s) == High(s) - Low(s) + 1

ExtractBits(word, s) == (word \div Power(2, Low(s) - 1)) % Power(2, Width(s))

\* (old & ~mask) | (part << (lo - 1))
InsertBits(word, s, part) ==
  word + (part - ExtractBits(word, s)) * Power(2, Low(s) - 1)

-----------------------------------------------------------------------------
(* Loops over digits, the most significant one first *)

\* value = value * radix + digit, after each digit
Running(digits, radix) ==
  LET value[n \in 0 .. Len(digits)] ==
        IF n = 0 THEN 0 ELSE value[n - 1] * radix[n] + digits[n]
  IN  value

Sums(f) == Running(f, [n \in DOMAIN f |-> 1])
Sum(f)  == Sums(f)[Len(f)]

Number(digits, radix) == Running(digits, [n \in DOMAIN digits |-> radix])[Len(digits)]

\* The last count digits of a number
DigitsOf(value, radix, count) ==
  [n \in 1 .. count |-> (value \div Power(radix, count - n)) % radix]

-----------------------------------------------------------------------------
(* Segments: segment_assembler.py.  The first one is the most significant. *)

Widths(segs) == [n \in DOMAIN segs |-> Width(segs[n])]

TotalWidth(segs) == Sum(Widths(segs))

\* The number of bits below segment n
Shift(segs, n) == TotalWidth(segs) - Sums(Widths(segs))[n]

Assemble(parts, segs) ==
  Running(parts, [n \in DOMAIN segs |-> Power(2, Width(segs[n]))])[Len(segs)]

\* Slip: the first segment is taken for the least significant.
SplitFromBelow(value, segs) ==
  [n \in DOMAIN segs |->
     (value \div Power(2, Sums(Widths(segs))[n - 1])) % Power(2, Width(segs[n]))]

Split(value, segs) ==
  [n \in DOMAIN segs |-> (value \div Power(2, Shift(segs, n))) % Power(2, Width(segs[n]))]

-----------------------------------------------------------------------------
(* Encodings: encoding/*.py, conversion.py *)

TwosComplement(value, width) ==
  IF value >= Power(2, width - 1) THEN value - Power(2, width) ELSE value

ToTwosComplement(value, width) ==
  IF value \in -Power(2, width - 1) .. Power(2, width - 1) - 1
  THEN value % Power(2, width) ELSE None

ToUnsigned(value, width) == IF value \in 0 .. Power(2, width) - 1 THEN value ELSE None

\* The digits of a field; the leading one has the bits that are left over.
Nibble == Power(2, DigitBits)

DigitCount(width) == (width + DigitBits - 1) \div DigitBits

DecodeBcd(value, width) ==
  LET digits == DigitsOf(value, Nibble, DigitCount(width))
  IN  IF \E n \in DOMAIN digits : digits[n] >= Base THEN None ELSE Number(digits, Base)

FitsDigits(decimal, width) == decimal \in 0 .. Power(Base, DigitCount(width)) - 1

EncodeBcd(decimal, width) ==
  LET packed == Number(DigitsOf(decimal, Base, DigitCount(width)), Nibble)
  IN  IF FitsDigits(decimal, width) /\ packed < Power(2, width) THEN packed ELSE None

\* round((value - offset) / resolution / unit), ties to the even neighbour;
\* a resolution of 0 raises.
InvertLinear(p, value, unit) ==
  LET d == Abs(p.resolution) * unit
      n == IF p.resolution < 0 THEN p.offset - value ELSE value - p.offset
      q == n \div d
      r == 2 * (n % d)
  IN  IF p.resolution = 0 THEN None
      ELSE IF r > d \/ (r = d /\ q % 2 = 1) THEN q + 1 ELSE q

ApplyLinear(p, decoded) == decoded * p.resolution + p.offset

-----------------------------------------------------------------------------
(* Parameters: domain/parameter.py.  A parameter has a type, a conversion  *)
(* and its occurrences; an occurrence is its segments in their sequence.   *)

Numeric == {"signed", "unsigned", "bcd"}

Weighted(p, segs) == p.type = "bcd" /\ \A n \in DOMAIN segs : segs[n].weight # None

SubframeSets(segs) == {segs[n].subframes : n \in DOMAIN segs}

-----------------------------------------------------------------------------
(* Decoder: parameter_decoder.py *)

Sample(occ, sf, status, decoded, engineering) ==
  [occurrence |-> occ, subframe |-> sf, status |-> status,
   decoded |-> decoded, engineering |-> engineering]

Wrong(occ, sf, status) == Sample(occ, sf, status, None, None)

DecodeWeightedBcd(segs, parts) ==
  IF \E n \in DOMAIN segs : DecodeBcd(parts[n], Width(segs[n])) = None THEN None
  ELSE Sum([n \in DOMAIN segs |-> DecodeBcd(parts[n], Width(segs[n])) * segs[n].weight])

\* _interpret
Decoded(p, segs, parts) ==
  LET raw   == Assemble(parts, segs)
      width == TotalWidth(segs)
  IN  CASE p.type = "signed" -> TwosComplement(raw, width)
        [] p.type = "bcd"    -> IF Weighted(p, segs) THEN DecodeWeightedBcd(segs, parts)
                                ELSE DecodeBcd(raw, width)
        [] OTHER             -> raw

Engineering(p, decoded) ==
  CASE p.type \in Numeric  -> ApplyLinear(p, decoded)
    [] p.type = "discrete" -> IF decoded = 0 THEN 0 ELSE 1
    [] OTHER               -> decoded

Unreadable(segs, sf) ==
  sf \notin Subframes \/ \E n \in DOMAIN segs : ~InRange(segs[n]) \/ segs[n].word \notin Words

Read(f, segs, sf) == [n \in DOMAIN segs |-> ExtractBits(f[<<sf, segs[n].word>>], segs[n])]

DecodeSample(f, p, occ, sf) ==
  LET segs    == p.occurrences[occ]
      decoded == Decoded(p, segs, Read(f, segs, sf))
  IN  IF Unreadable(segs, sf) THEN Wrong(occ, sf, "INVALID_MAPPING")
      ELSE IF p.type = "unknown" THEN Wrong(occ, sf, "UNSUPPORTED_TYPE")
      ELSE IF decoded = None THEN Wrong(occ, sf, "INVALID_BCD")
      ELSE Sample(occ, sf, "VALID", decoded, Engineering(p, decoded))

\* The segments of an occurrence share one set of subframes, or none counts.
Agreed(segs) == Cardinality(SubframeSets(segs)) = 1 /\ {} \notin SubframeSets(segs)

\* Subframe 0 stands for an occurrence as a whole.
DecodeOccurrence(f, p, occ) ==
  LET segs == p.occurrences[occ]
  IN  IF Agreed(segs) THEN {DecodeSample(f, p, occ, sf) : sf \in segs[1].subframes}
      ELSE {Wrong(occ, 0, "INVALID_MAPPING")}

DecodeParameter(f, p) ==
  IF p.occurrences = <<>> THEN {Wrong(0, 0, "INVALID_MAPPING")}
  ELSE UNION {DecodeOccurrence(f, p, occ) : occ \in DOMAIN p.occurrences}

\* Slip: a mapping that cannot be decoded is left out of the live view.
ReportsNothing(sf) == FALSE

\* Errors of the mapping are reported once, with subframe 1.
ReportsErrors(sf) == sf = 1

\* While streaming, each subframe is decoded as it arrives.
DecodeSubframe(f, p, sf) ==
  LET ofOccurrence(occ) ==
        LET segs == p.occurrences[occ]
        IN  IF ~Agreed(segs) THEN IF ReportsErrors(sf) THEN DecodeOccurrence(f, p, occ) ELSE {}
            ELSE IF sf \in segs[1].subframes THEN {DecodeSample(f, p, occ, sf)} ELSE {}
  IN  IF p.occurrences = <<>> THEN IF ReportsErrors(sf) THEN DecodeParameter(f, p) ELSE {}
      ELSE UNION {ofOccurrence(occ) : occ \in DOMAIN p.occurrences}

-----------------------------------------------------------------------------
(* Encoder: parameter_encoder.py *)

\* _value_to_pattern
Pattern(p, value, width) ==
  LET raw == InvertLinear(p, value, 1)
  IN  IF p.type \in Numeric /\ raw = None THEN None
      ELSE CASE p.type = "signed"    -> ToTwosComplement(raw, width)
             [] p.type = "bcd"       -> EncodeBcd(raw, width)
             [] p.type = "unsigned"  -> ToUnsigned(raw, width)
             [] p.type = "raw"       -> ToUnsigned(value, width)
             [] p.type = "discrete" /\ value \in {0, 1} -> ToUnsigned(value, width)
             [] OTHER                -> None

\* _weighted_bcd_parts: the weights must fall by a factor of Base.
WeightedBcdParts(p, segs, value) ==
  LET count    == Len(segs)
      unit     == Min({segs[n].weight : n \in DOMAIN segs})
      isLadder == unit > 0 /\ \A n \in DOMAIN segs : segs[n].weight = unit * Power(Base, count - n)
      integer  == InvertLinear(p, value, unit)
      digits   == DigitsOf(integer, Base, count)
  IN  IF ~isLadder \/ p.resolution = 0 THEN None
      ELSE IF integer \notin 0 .. Power(Base, count) - 1 THEN None
      ELSE IF \E n \in DOMAIN segs : digits[n] >= Power(2, Width(segs[n])) THEN None
      ELSE digits

Parts(p, segs, value) ==
  LET pattern == Pattern(p, value, TotalWidth(segs))
  IN  IF segs = <<>> THEN None
      ELSE IF Weighted(p, segs) THEN WeightedBcdParts(p, segs, value)
      ELSE IF pattern = None THEN None
      ELSE Split(pattern, segs)

\* The subframes a segment is written in; `only' is None or restricts them.
Selected(s, only) == IF only = None THEN s.subframes ELSE s.subframes \cap only

\* The segments of an occurrence that cannot be written
Unwritable(segs, only) ==
  {n \in DOMAIN segs :
     \/ ~InRange(segs[n])
     \/ Selected(segs[n], only) # {} /\ segs[n].word \notin Words
     \/ ~(Selected(segs[n], only) \subseteq Subframes)}

Write(f, s, part, only) ==
  [a \in DOMAIN f |-> IF a[1] \in Selected(s, only) /\ a[2] = s.word
                      THEN InsertBits(f[a], s, part) ELSE f[a]]

Result(f, ok) == [frame |-> f, ok |-> ok]

\* _encode_occurrence: a value without a pattern writes nothing; the segments
\* before one that cannot be written are written.
EncodeOccurrence(f, p, segs, value, only) ==
  LET parts == Parts(p, segs, value)
      bad   == Unwritable(segs, only)
      last  == IF bad = {} THEN Len(segs) ELSE Min(bad) - 1
      done[n \in 0 .. last] ==
        IF n = 0 THEN f ELSE Write(done[n - 1], segs[n], parts[n], only)
  IN  IF parts = None THEN Result(f, FALSE) ELSE Result(done[last], bad = {})

\* encode_into_frame: the first occurrence that fails ends it.
EncodeIntoFrame(f, p, value, only) ==
  LET done[occ \in 0 .. Len(p.occurrences)] ==
        IF occ = 0 THEN Result(f, TRUE)
        ELSE IF done[occ - 1].ok
             THEN EncodeOccurrence(done[occ - 1].frame, p, p.occurrences[occ], value, only)
             ELSE done[occ - 1]
  IN  IF p.occurrences = <<>> THEN Result(f, FALSE) ELSE done[Len(p.occurrences)]

-----------------------------------------------------------------------------
(* Validator: structural.py, mapping.py and semantic.py, as far as they    *)
(* speak of mappings.  Sequences and occurrence numbers are unique here.   *)

Segments(p) == UNION {{segs[n] : n \in DOMAIN segs} : segs \in {p.occurrences[occ] : occ \in DOMAIN p.occurrences}}

MappingErrors(p) ==
  \/ p.occurrences = <<>>
  \/ \E occ \in DOMAIN p.occurrences :
       \/ p.occurrences[occ] = <<>>
       \/ Cardinality(SubframeSets(p.occurrences[occ])) > 1
  \/ \E s \in Segments(p) :
       \/ s.word \notin Words
       \/ ~InRange(s)
       \/ s.subframes = {} \/ ~(s.subframes \subseteq Subframes)

ResolutionError(p) == p.type \in Numeric /\ p.resolution = 0

BitsOf(s) == IF InRange(s) THEN Low(s) .. High(s) ELSE {}

\* _overlap_issues, between two parameters
Overlap(p, q) ==
  \E s \in Segments(p), t \in Segments(q) :
    /\ s.word = t.word
    /\ s.subframes \cap t.subframes \cap Subframes # {}
    /\ BitsOf(s) \cap BitsOf(t) # {}

-----------------------------------------------------------------------------
(* Scenarios and signals *)

AllWords(word) == [a \in Subframes \X Words |-> word]

\* build_blank_frame
Blank == [a \in Subframes \X Words |-> IF a[2] = 1 THEN SyncWord ELSE 0]

Unasked == [i \in {1, 2} |-> [sf \in Subframes |-> None]]

\* A frame with the values it was last asked to hold, by parameter and subframe
Sheet(f, asked) == [frame |-> f, asked |-> asked]

Task(i, only) == [of |-> i, only |-> only]

Init ==
  /\ parameter \in Parameters
  /\ shown \in {Sheet(f, Unasked) : f \in {Blank} \cup {AllWords(w) : w \in Received}}
  /\ draft = shown
  /\ todo = <<>>
  /\ accepted = TRUE

\* SimulationService.blank_frame
BlankFrame ==
  /\ todo = <<>>
  /\ shown' = Sheet(Blank, Unasked)
  /\ draft' = shown'
  /\ accepted' = TRUE
  /\ UNCHANGED <<parameter, todo>>

\* A scenario has values for one parameter or for both, in its own order.
Orders == {<<1>>, <<2>>, <<1, 2>>, <<2, 1>>}

\* SimulationService.apply_scenario, up to the encoding
ApplyScenario(order, startFromCurrent) ==
  /\ todo = <<>>
  /\ todo' = [n \in DOMAIN order |-> Task(order[n], None)]
  /\ draft' = IF startFromCurrent THEN shown ELSE Sheet(Blank, Unasked)
  /\ accepted' = TRUE
  /\ UNCHANGED <<parameter, shown>>

\* SerialService.build_engineering_frame, up to the encoding
BuildEngineeringFrame ==
  /\ todo = <<>>
  /\ todo' = [n \in 1 .. 2 * SubframeCount |->
                Task(((n - 1) % 2) + 1, {((n - 1) \div 2) + 1})]
  /\ draft' = Sheet(Blank, Unasked)
  /\ accepted' = TRUE
  /\ UNCHANGED <<parameter, shown>>

Ask(asked, task, value) ==
  [asked EXCEPT ![task.of] =
     [sf \in Subframes |-> IF task.only = None \/ sf \in task.only THEN value ELSE @[sf]]]

Outcome(value) == EncodeIntoFrame(draft.frame, parameter[Head(todo).of], value, Head(todo).only)

\* One value of a scenario; the last one makes the frame the current one.
EncodeScenario(value) ==
  LET outcome == Outcome(value)
  IN  /\ todo # <<>> /\ Head(todo).only = None
      /\ outcome.ok
      /\ draft' = Sheet(outcome.frame, Ask(draft.asked, Head(todo), value))
      /\ todo' = Tail(todo)
      /\ shown' = IF Tail(todo) = <<>> THEN draft' ELSE shown
      /\ accepted' = TRUE
      /\ UNCHANGED parameter

\* A value that cannot be encoded drops the whole scenario.
DropScenario(value) ==
  /\ todo # <<>> /\ Head(todo).only = None
  /\ ~Outcome(value).ok
  /\ draft' = shown
  /\ todo' = <<>>
  /\ accepted' = FALSE
  /\ UNCHANGED <<parameter, shown>>

\* One value of the signals; the frame goes to the simulator in any case.
EncodeSignal(value) ==
  LET outcome == Outcome(value)
  IN  /\ todo # <<>> /\ Head(todo).only # None
      /\ draft' = Sheet(outcome.frame,
                        IF outcome.ok THEN Ask(draft.asked, Head(todo), value) ELSE draft.asked)
      /\ todo' = Tail(todo)
      /\ accepted' = outcome.ok
      /\ UNCHANGED <<parameter, shown>>

Next ==
  \/ BlankFrame
  \/ \E order \in Orders, current \in BOOLEAN : ApplyScenario(order, current)
  \/ BuildEngineeringFrame
  \/ \E value \in Values : EncodeScenario(value) \/ DropScenario(value) \/ EncodeSignal(value)

Spec == Init /\ [][Next]_vars

-----------------------------------------------------------------------------
(* Properties *)

SegmentPlaces(p) ==
  UNION {{occ} \X DOMAIN p.occurrences[occ] : occ \in DOMAIN p.occurrences}

\* Two segments of one parameter share a bit: the validator does not look.
OverlapsItself(p) ==
  \E a, b \in SegmentPlaces(p) :
    LET s == p.occurrences[a[1]][a[2]]
        t == p.occurrences[b[1]][b[2]]
    IN  /\ a # b /\ s.word = t.word
        /\ s.subframes \cap t.subframes # {} /\ BitsOf(s) \cap BitsOf(t) # {}

Validated(p) == ~MappingErrors(p) /\ ~ResolutionError(p)

\* The distance between the engineering values of neighbouring patterns
Step(p, segs) ==
  IF p.type \notin Numeric THEN 0
  ELSE Abs(p.resolution) *
         (IF Weighted(p, segs) THEN Min({segs[n].weight : n \in DOMAIN segs}) ELSE 1)

\* In a dataframe with no error and no overlap warning, every sample of a
\* parameter decodes to within half a step of the value it was last asked to
\* hold, whatever was encoded after it and in whichever subframes.  This is
\* the closed loop of parameter_encoder.py:6 and closed_loop_report, across
\* both users of the encoder.
ClosedLoop ==
  Validated(parameter[1]) /\ Validated(parameter[2]) /\ ~Overlap(parameter[1], parameter[2])
  => \A i \in Which : ~OverlapsItself(parameter[i]) =>
       \A s \in DecodeParameter(draft.frame, parameter[i]) :
         LET value == draft.asked[i][s.subframe]
         IN  value # None =>
               /\ s.status = "VALID"
               /\ 2 * Abs(s.engineering - value) <= Step(parameter[i], parameter[i].occurrences[s.occurrence])

\* Three ideas of a mapping agree.  A parameter has an INVALID_MAPPING sample
\* exactly when the validator reports an error of its mapping; and what the
\* live view shows, subframe by subframe, is what decoding the whole frame
\* shows, errors included, for a parameter that names no subframe outside the
\* frame (decode_subframe and decode_frame of ParameterDecoder).
LiveAgrees ==
  \A i \in Which :
    LET p       == parameter[i]
        samples == DecodeParameter(draft.frame, p)
    IN  /\ (\E s \in samples : s.status = "INVALID_MAPPING") <=> MappingErrors(p)
        /\ (\A s \in Segments(p) : s.subframes \subseteq Subframes)
           => UNION {DecodeSubframe(draft.frame, p, sf) : sf \in Subframes} = samples
=============================================================================
