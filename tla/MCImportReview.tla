--------------------------- MODULE MCImportReview ---------------------------
(* Two subframes of four words of three bits.  The first import reads one    *)
(* row, of any layout, type or conversion, or two rows that concern each     *)
(* other; the second, which may end while the first is reviewed, a plain one. *)
EXTENDS ImportReview

Empty == [read |-> "blank", tokens |-> <<>>]
List(read, tokens) == [read |-> read, tokens |-> tokens]
Blank == [read |-> "blank", a |-> 0, b |-> 0]
Number(read, a, b) == [read |-> read, a |-> a, b |-> b]
Stated(read, S) == [read |-> read, stated |-> S]
Freq(read, n, d) == [read |-> read, n |-> n, d |-> d]

Plain ==
  [name |-> "ias", stacked |-> <<>>, description |-> "", type |-> "BNR", sign |-> "",
   words |-> List("plain", <<<<2>>>>), subframe |-> Stated("plain", {1, 2}),
   msb |-> Empty, lsb |-> Empty, bits |-> List("plain", <<<<1, 3>>>>),
   frequency |-> Freq("blank", 0, 1), resolution |-> Number("whole", 1, 0), offset |-> Blank,
   states |-> "none", limits |-> "none", scanned |-> FALSE, continued |-> FALSE, confidence |-> 1]

Both(msb, lsb) == [msb |-> msb, lsb |-> lsb, bits |-> Empty]
AllBits(bits) == [msb |-> Empty, lsb |-> Empty, bits |-> bits]

BitCells ==
  {AllBits(List("plain", <<<<3, 1>>>>)), AllBits(List("plain", <<<<1, 3>>, <<1, 2>>>>)),
   AllBits(List("misread", <<<<1>>>>)), Both(List("plain", <<<<3>>>>), List("plain", <<<<1>>>>)),
   Both(List("plain", <<<<3, 1>>>>), List("misread", <<<<3, 2>>>>)),
   Both(List("plain", <<<<1>>>>), List("plain", <<<<2>>>>)),
   Both(List("plain", <<<<3>>>>), Empty), Both(List("plain", <<<<3>>, <<2>>>>), List("plain", <<<<1>>>>))}

WordCells ==
  {List("plain", <<<<2>>>>), List("plain", <<<<1>>, <<3>>>>), List("plain", <<<<4>>, <<1>>>>),
   List("misread", <<<<2, 1>>>>), List("plain", <<<<1, 2>>, <<3, 4>>>>)}

Layouts ==
  {[Plain EXCEPT !.words = w, !.msb = b.msb, !.lsb = b.lsb, !.bits = b.bits, !.frequency = f, !.subframe = s] :
     w \in WordCells, b \in BitCells,
     f \in {Freq("blank", 0, 1), Freq("plain", 1, 1), Freq("plain", 2, 1), Freq("plain", 1, 4)},
     s \in {Stated("plain", {1, 2}), Stated("plain", {2})}}

Others ==
  {[Plain EXCEPT !.type = t, !.sign = g, !.states = c] :
     t \in {"BNR", "Signed Analog", "Discrete", "BCO", "Discret e", "Raw", "?"},
     g \in {"", "S", "U", "?"}, c \in {"none", "cells", "text"}}
  \cup {[Plain EXCEPT !.resolution = r, !.offset = o] :
          r \in {Blank, Number("comma", 0, 5), Number("point", 0, 5), Number("pair", 1, 2),
                 Number("misread", 1, 0), Number("misread_pair", 1, 2), Number("unreadable", 0, 0)},
          o \in {Blank, Number("whole", 0, 0), Number("whole", 1, 0), Number("unreadable", 0, 0)}}
  \cup {[Plain EXCEPT !.subframe = s] : s \in {Stated("blank", {}), Stated("zero", {}), Stated("misread", {1}),
                                               Stated("plain", {3}), Stated("unreadable", {})}}
  \cup {[Plain EXCEPT !.frequency = f] : f \in {Freq("misread", 1, 1), Freq("unreadable", 0, 1), Freq("plain", 0, 1)}}
  \cup {[Plain EXCEPT !.words = List("unreadable", <<<<1>>>>)], [Plain EXCEPT !.limits = "unreadable"],
        [Plain EXCEPT !.name = ""], [Plain EXCEPT !.name = "", !.stacked = <<"ap", "alt mode">>],
        [Plain EXCEPT !.scanned = TRUE, !.continued = TRUE, !.confidence = 0],
        [Plain EXCEPT !.type = "Discrete", !.states = "lines"]}

Discrete(name, words, bits) ==
  [Plain EXCEPT !.name = name, !.type = "Discrete", !.states = "cells",
                !.words = words, !.bits = List("plain", bits)]
Word(w) == List("plain", <<<<w>>>>)
Paired == [Plain EXCEPT !.bits = Empty, !.words = List("plain", <<<<1, 2>>>>),
                        !.msb = List("plain", <<<<3, 1>>>>), !.lsb = List("plain", <<<<3, 2>>>>)]
TwoRows ==
  {<<Discrete("on", Word(2), <<<<1>>>>), Discrete("up", Word(2), <<<<1>>>>)>>,
   <<Discrete("on", Word(2), <<<<1>>>>), Discrete("on", Word(4), <<<<2>>>>)>>,
   <<[Paired EXCEPT !.name = "alt"], [Paired EXCEPT !.words = List("plain", <<<<3, 4>>>>)]>>,
   <<Discrete("up", Word(3), <<<<1>>>>), [Plain EXCEPT !.subframe = Stated("blank", {})]>>}

MCDocuments(n) ==
  IF n = 1 THEN {<<row>> : row \in Layouts \cup Others} \cup TwoRows ELSE {<<Plain>>}

MCFirstProfile ==
  [unit |-> "auto", bits |-> "auto", meaning |-> "auto", pair |-> "auto",
   blankAll |-> FALSE, zeroAll |-> TRUE, comma |-> FALSE, confidence |-> 1]
MCProfiles ==
  {[MCFirstProfile EXCEPT !.comma = TRUE, !.pair = "offset_resolution", !.meaning = "segments", !.blankAll = TRUE,
                          !.unit = "seconds", !.zeroAll = FALSE]}
=============================================================================
