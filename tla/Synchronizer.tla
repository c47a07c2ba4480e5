---------------------------- MODULE Synchronizer ----------------------------
(***************************************************************************)
(* The stream synchronizer of sources/serial/synchronizer.py: words in,    *)
(* subframes out.  A synchronizer is a record and feed() an operator, so   *)
(* that it can be checked on its own against a reference definition        *)
(* (SyncCheck) and between a device and an assembler (ContinuousStream).   *)
(*                                                                         *)
(* A word is a record.  Its field `sync' says what the word looks like:    *)
(* the number of the sync word it equals, or 0 for any other value; the    *)
(* other fields are the caller's, to tell words apart.  The progress       *)
(* indicator words_in_subframe is left out.                                *)
(***************************************************************************)
EXTENDS Integers, Sequences, FiniteSets

CONSTANTS
  WPS,           \* words per subframe
  StandardWps    \* STANDARD_WPS: the rates a device may be running at

ASSUME WpsAssumption ==
  /\ WPS \in Nat \ {0}
  /\ StandardWps \subseteq Nat \ {0} /\ StandardWps # {} /\ IsFiniteSet(StandardWps)

Searching == "SEARCHING"
Locked    == "LOCKED"

NewSynchronizer == [state |-> Searching, buffer |-> <<>>, expected |-> 1]

Successor(sf) == (sf % 4) + 1

\* Two sync words in rotation, d words apart.
PairAt(buf, pos, d) ==
  /\ buf[pos].sync # 0
  /\ buf[pos + d].sync = Successor(buf[pos].sync)

PairsAt(buf, d) == {pos \in 1 .. Len(buf) - d : PairAt(buf, pos, d)}

Least(S) == CHOOSE x \in S : \A y \in S : x <= y

From(buf, pos) == SubSeq(buf, pos, Len(buf))

RawSubframe(sf, words, valid) == [sf |-> sf, words |-> words, valid |-> valid]

-----------------------------------------------------------------------------
(* One turn of the loop in feed().  A turn carries the synchronizer and    *)
(* the result so far; it is its own successor when the loop breaks.        *)

NewTurn(s) == [sync |-> s, subframes |-> <<>>, locked |-> FALSE, lost |-> FALSE]

\* The first half of _try_lock: the pair nearest to the head of the buffer.
TryLock(t) ==
  LET buf   == t.sync.buffer
      pairs == PairsAt(buf, WPS)
      pos   == Least(pairs)
  IN  IF pairs = {} THEN t
      ELSE [t EXCEPT !.sync = [state    |-> Locked,
                               buffer   |-> From(buf, pos),
                               expected |-> buf[pos].sync],
                     !.locked = TRUE]

\* Slips in _take_locked: the lock is not verified; a loss costs a whole
\* subframe of words.
TakeLockedUnverified(t) ==
  IF Len(t.sync.buffer) < WPS THEN t
  ELSE [t EXCEPT !.sync = [state    |-> Locked,
                           buffer   |-> From(t.sync.buffer, WPS + 1),
                           expected |-> Successor(t.sync.expected)],
                 !.subframes = Append(@, RawSubframe(t.sync.expected,
                                         SubSeq(t.sync.buffer, 1, WPS), TRUE))]

AfterLoss(t, rest) ==
  [t EXCEPT !.sync = [state |-> Searching, buffer |-> rest, expected |-> t.sync.expected],
            !.subframes = Append(@, RawSubframe(t.sync.expected,
                                    SubSeq(t.sync.buffer, 1, WPS), FALSE)),
            !.lost = TRUE]

TakeLockedSkipping(t) ==
  IF Len(t.sync.buffer) >= WPS /\ t.sync.buffer[1].sync # t.sync.expected
  THEN AfterLoss(t, From(t.sync.buffer, WPS + 1))
  ELSE TakeLockedUnverified(t)

\* _take_locked: a wrong sync word costs the lock and one word.
TakeLocked(t) ==
  LET buf   == t.sync.buffer
      sf    == t.sync.expected
      words == SubSeq(buf, 1, WPS)
  IN  IF Len(buf) < WPS THEN t
      ELSE IF buf[1].sync # sf
      THEN [t EXCEPT !.sync = [state |-> Searching, buffer |-> Tail(buf), expected |-> sf],
                     !.subframes = Append(@, RawSubframe(sf, words, FALSE)),
                     !.lost = TRUE]
      ELSE [t EXCEPT !.sync = [state    |-> Locked,
                               buffer   |-> From(buf, WPS + 1),
                               expected |-> Successor(sf)],
                     !.subframes = Append(@, RawSubframe(sf, words, TRUE))]

Turn(t) == IF t.sync.state = Searching THEN TryLock(t) ELSE TakeLocked(t)

\* Every turn takes a word or is followed by one that does.
Settled(t) ==
  LET turns == 2 * Len(t.sync.buffer) + 1
      after[n \in 0 .. turns] == IF n = 0 THEN t ELSE Turn(after[n - 1])
  IN  after[turns]

-----------------------------------------------------------------------------
(* A search that found nothing looks for pairs at the other rates, then    *)
(* keeps just enough words to find a pair at the largest one.              *)

DetectedWps(buf) ==
  LET found == {d \in StandardWps \ {WPS} : PairsAt(buf, d) # {}}
  IN  IF found = {} THEN 0 ELSE Least(found)

Limit ==
  LET largest == CHOOSE d \in StandardWps \cup {WPS} :
                   \A e \in StandardWps \cup {WPS} : e <= d
  IN  largest + 1

Trimmed(buf) == IF Len(buf) > Limit THEN From(buf, Len(buf) - Limit + 1) ELSE buf

Feed(s, words) ==
  LET t == Settled(NewTurn([s EXCEPT !.buffer = @ \o words]))
      searching == t.sync.state = Searching
  IN  [sync      |-> IF searching THEN [t.sync EXCEPT !.buffer = Trimmed(@)] ELSE t.sync,
       subframes |-> t.subframes,
       locked    |-> t.locked,
       lost      |-> t.lost,
       detected  |-> IF searching THEN DetectedWps(t.sync.buffer) ELSE 0]
=============================================================================
