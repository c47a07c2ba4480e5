--------------------------- MODULE MCLiveDecoding ---------------------------
(* Two subframes; a parameter recorded twice in the first subframe, its      *)
(* second occurrence before its first, and once in the other; two in the     *)
(* second only; one without a mapping.  An edit changes a unit and removes a *)
(* parameter; another dataframe has another rate.                            *)
EXTENDS LiveDecoding

Occurrence(subframes, offset) == [subframes |-> subframes, offset |-> offset]
Parameter(id, unit, known, occurrences) ==
  [id |-> id, unit |-> unit, known |-> known, occurrences |-> occurrences]

Altitude(unit) ==
  Parameter("alt", unit, TRUE, <<Occurrence({1, 2}, 1), Occurrence({1}, 0)>>)
Height == Parameter("height", "ft", TRUE, <<Occurrence({2}, 0)>>)
Speed == Parameter("speed", "kt", TRUE, <<Occurrence({2}, 1)>>)
Broken == Parameter("broken", "ft", FALSE, <<>>)

MCFirstDataframe == [wps |-> 64, parameters |-> <<Height, Altitude("ft"), Speed>>]
MCDataframes ==
  {MCFirstDataframe,
   [wps |-> 64, parameters |-> <<Broken, Altitude("m")>>],
   [wps |-> 128, parameters |-> <<Altitude("ft")>>]}
=============================================================================
