--------------------------- MODULE DataframeChecks ---------------------------
(***************************************************************************)
(* validate_dataframe (dataframe/validator): the issues of a dataframe, as *)
(* records of severity, rule and the parameters concerned.                 *)
(***************************************************************************)
EXTENDS AdbCodec

CONSTANTS WordBits

ASSUME ChecksAssumption == WordBits \in Nat \ {0}

Issue(severity, rule, id, related) ==
  [severity |-> severity, rule |-> rule, id |-> id, related |-> related]

NoId == <<"", NoLabel, 0>>

When(condition, severity, rule, id) ==
  IF condition THEN {Issue(severity, rule, id, NoId)} ELSE {}

Low(s) == IF s.lsb < s.msb THEN s.lsb ELSE s.msb
High(s) == IF s.lsb < s.msb THEN s.msb ELSE s.lsb

\* Slip: words are counted from zero.
BadWordFromZero(s, wps) == s.word \notin 0..wps

BadWord(s, wps) == s.word \notin 1..wps

\* structural.validate, one parameter
Structural(p, wps) ==
  LET os == p.occurrences
      some(Test(_)) == \E k \in DOMAIN os : \E s \in DOMAIN os[k].segments : Test(os[k].segments[s])
      badBit(s) == {s.lsb, s.msb} \ (1..WordBits) # {}
      badSubframe(s) == s.subframes = {} \/ ~(s.subframes \subseteq Subframes)
  IN  When(os = <<>> \/ \E k \in DOMAIN os : os[k].segments = <<>>,
           "error", "structural.mapping_empty", p.id)
      \cup When(some(LAMBDA s : BadWord(s, wps)), "error", "structural.word_range", p.id)
      \cup When(some(badBit), "error", "structural.bit_range", p.id)
      \cup When(some(badSubframe), "error", "structural.subframe", p.id)
      \cup When(p.type \in {"analog_signed", "analog_unsigned", "bcd"} /\ p.scale = 0,
                "error", "structural.resolution", p.id)

\* mapping.validate, one parameter
Mapping(p) ==
  LET os == p.occurrences
      twice(k) == \E s, t \in DOMAIN os[k].segments :
                     s # t /\ os[k].segments[s].sequence = os[k].segments[t].sequence
      apart(k) == Cardinality({os[k].segments[s].subframes : s \in DOMAIN os[k].segments}) > 1
  IN  When(\E j, k \in DOMAIN os : j # k /\ os[j].index = os[k].index,
           "error", "mapping.occurrence_index", p.id)
      \cup When(\E k \in DOMAIN os : twice(k), "error", "mapping.segment_sequence", p.id)
      \cup When(\E k \in DOMAIN os : apart(k), "error", "mapping.subframe_consistency", p.id)

\* semantic.validate, one parameter
Semantic(p) ==
  When(p.type = "unknown", "warning", "semantic.type", p.id)
  \cup When(p.type = "discrete" /\ EffectiveStates(p.states) = <<>>,
            "warning", "semantic.discrete_states", p.id)

\* The bits of a parameter within a frame
Cells(p) ==
  UNION {UNION {LET g == p.occurrences[k].segments[s] IN
                IF Low(g) < 1 \/ High(g) > WordBits THEN {}
                ELSE (g.subframes \cap Subframes) \X {g.word} \X (Low(g)..High(g)) :
                s \in DOMAIN p.occurrences[k].segments} : k \in DOMAIN p.occurrences}

\* _overlap_issues: parameters that share a bit; the earlier one is named.
Overlaps(d) ==
  LET cells == [i \in DOMAIN d.parameters |-> Cells(d.parameters[i])]
  IN  {Issue("warning", "semantic.overlap", d.parameters[ij[1]].id, d.parameters[ij[2]].id) :
         ij \in {pair \in (DOMAIN d.parameters) \X (DOMAIN d.parameters) :
                   /\ pair[1] < pair[2]
                   /\ d.parameters[pair[1]].id # d.parameters[pair[2]].id
                   /\ cells[pair[1]] \cap cells[pair[2]] # {}}}

\* validate_dataframe
Validate(d) ==
  (UNION {Structural(d.parameters[i], d.wps) \cup Mapping(d.parameters[i]) \cup Semantic(d.parameters[i]) :
            i \in DOMAIN d.parameters})
  \cup Overlaps(d)

Errors(issues) == {i \in issues : i.severity = "error"}

\* ValidationIssue.concerns
Concerning(issues, id) == {i \in issues : id \in {i.id, i.related}}

\* with_parameter: a candidate in the place of the parameter it edits
WithParameter(d, p) ==
  [d EXCEPT !.parameters =
     IF \E i \in DOMAIN @ : @[i].id = p.id
     THEN [i \in DOMAIN @ |-> IF @[i].id = p.id THEN p ELSE @[i]] ELSE Append(@, p)]
=============================================================================
