------------------------------- MODULE MCCodec -------------------------------
(* Words of three bits, digits of two bits below three, two subframes of   *)
(* two words: fields of one to six bits in one or two segments, with the   *)
(* bits of a range given either way round, and every kind of bad mapping.  *)
EXTENDS Codec

Seg(subframes, word, lsb, msb, weight) ==
  [subframes |-> subframes, word |-> word, lsb |-> lsb, msb |-> msb, weight |-> weight]

Plain(subframes, word, lsb, msb) == Seg(subframes, word, lsb, msb, None)

Param(type, resolution, offset, occurrences) ==
  [type |-> type, resolution |-> resolution, offset |-> offset, occurrences |-> occurrences]

Both == {1, 2}

\* A field over two words, a part of one word, one occurrence per subframe
TwoWords     == <<Plain(Both, 2, 1, 2), Plain(Both, 1, 2, 3)>>
TwoReversed  == <<Plain(Both, 1, 3, 1), Plain(Both, 2, 2, 1)>>
LowBits      == <<Plain(Both, 2, 1, 2)>>
PerSubframe  == <<<<Plain({1}, 2, 3, 1)>>, <<Plain({2}, 1, 1, 3)>>>>

Firsts == {
  Param("signed",   2,  1, <<TwoWords>>),
  Param("signed",  -1,  0, PerSubframe),
  Param("unsigned", 3, -2, <<TwoReversed>>),
  Param("bcd",      1,  0, <<TwoReversed>>),
  Param("bcd",      2, -1, <<<<Plain({2}, 1, 3, 1)>>>>),
  Param("bcd",      1,  0, <<<<Seg(Both, 2, 1, 2, 3), Seg(Both, 1, 3, 3, 1)>>>>),
  Param("bcd",     -2,  1, <<<<Seg(Both, 1, 2, 3, 9), Seg(Both, 2, 3, 2, 3)>>>>),
  Param("bcd",      1,  0, <<<<Seg(Both, 1, 2, 3, 1), Seg(Both, 2, 3, 2, 1)>>>>),
  Param("raw",      1,  0, <<LowBits>>),
  Param("discrete", 1,  0, <<<<Plain({1}, 2, 3, 2)>>>>) }

Goods == {
  Param("unsigned", 1,  0, <<<<Plain(Both, 2, 3, 3)>>>>),
  Param("signed",   1,  0, <<<<Plain({2}, 2, 2, 3), Plain({2}, 1, 1, 1)>>>>),
  Param("discrete", 1,  0, <<<<Plain(Both, 1, 1, 1)>>, <<Plain({2}, 2, 3, 3)>>>>) }

Bads == {
  Param("unsigned", 0,  1, <<LowBits>>),
  Param("unknown",  1,  0, <<LowBits>>),
  Param("raw",      1,  0, <<>>),
  Param("raw",      1,  0, <<LowBits, <<>>>>),
  Param("raw",      1,  0, <<<<Plain({1}, 2, 3, 3), Plain({2}, 2, 3, 3)>>>>),
  Param("raw",      1,  0, <<<<Plain({}, 2, 3, 3)>>>>),
  Param("raw",      1,  0, <<<<Plain({2, 3}, 2, 3, 3)>>>>),
  Param("raw",      1,  0, <<<<Plain(Both, 2, 3, 3), Plain(Both, 3, 1, 1)>>>>),
  Param("raw",      1,  0, <<<<Plain(Both, 2, 3, 4)>>>>) }

\* Every first parameter with each good one, and a plain one with each bad one
Pairs == Firsts \X Goods \cup {Param("signed", 2, 1, <<TwoWords>>)} \X Bads

SomeValues == {-3, 0, 1, 7}
=============================================================================
