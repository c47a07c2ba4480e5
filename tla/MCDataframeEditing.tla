------------------------- MODULE MCDataframeEditing -------------------------
(* Two subframes of four words of three bits.  The vendor's file holds a BCD *)
(* value of two weighted digits recorded in both subframes, a discrete of    *)
(* three states with a relative selector, and a value of a long scale at     *)
(* words 4 and 8 with an ignored selector.                                   *)
EXTENDS DataframeEditing

Loc(selector, word, lsb, msb) == [selector |-> selector, word |-> word, lsb |-> lsb, msb |-> msb]

Digits ==
  [name |-> <<"digits", 0>>, source |-> "BCD", scale |-> 1,
   slots |-> <<State(1, ""), State(10, "")>>, parts |-> 2,
   locations |-> <<Loc({}, 2, 1, 2), Loc({}, 1, 1, 3), Loc({1, 2}, 6, 1, 2), Loc({1, 2}, 5, 1, 3)>>]
Mode ==
  [name |-> <<"mode", 0>>, source |-> "Discrete", scale |-> 1,
   slots |-> <<State(0, "off"), State(1, "on"), State(2, "test")>>, parts |-> 1,
   locations |-> <<Loc({2}, 3, 1, 2)>>]
Long ==
  [name |-> <<"long", 0>>, source |-> "BNR", scale |-> 1234567, slots |-> <<>>, parts |-> 1,
   locations |-> <<Loc({0}, 4, 1, 3)>>]

MCFirstFiles ==
  [vendor |-> [wps |-> 4, records |-> <<Digits, Mode, Long>>],
   export |-> [wps |-> 0, records |-> <<>>]]

\* A row of a scanned page whose type text was misread and repaired
Misread ==
  [id |-> <<"pdf", "", 1>>, name |-> <<"digits", 0>>, source |-> "BCO", type |-> "bcd", scale |-> 1,
   states |-> [one |-> "", zero |-> "", table |-> <<>>],
   occurrences |-> <<Occurrence(1, <<Segment(1, {1, 2}, 1, 1, 3, NoWeight, {})>>),
                     Occurrence(2, <<Segment(1, {1, 2}, 3, 1, 3, NoWeight, {})>>)>>,
   record |-> <<>>]
\* and one whose type AFDA has no word for
Untyped ==
  [Misread EXCEPT !.id = <<"pdf", "", 2>>, !.name = <<"bits", 0>>, !.source = "R AW", !.type = "raw",
                  !.occurrences = <<Occurrence(1, <<Segment(1, {2}, 2, 1, 3, NoWeight, {})>>)>>]
MCImported == {[wps |-> 4, parameters |-> <<Misread, Untyped>>]}
=============================================================================
