----------------------- MODULE ContinuousStream_proofs -----------------------
(***************************************************************************)
(* Proofs about the synchronizer: on its own, against its reference        *)
(* (SyncCheck), and in the continuous stream.  Both rest on one account of *)
(* the loop of feed(): what a turn does, that a set closed under turns     *)
(* holds the turn the loop ends with, and that this turn is idle.          *)
(***************************************************************************)
EXTENDS ContinuousStream, SyncReference, SequenceTheorems, FiniteSetTheorems,
        WellFoundedInduction, TLAPS

CONSTANTS Looks, StreamLen

\* The synchronizer on its own, against its reference.
R == INSTANCE SyncCheck

\* What SyncCheck assumes of its constants.
Streams == Looks \subseteq 0 .. 4 /\ StreamLen \in Nat

-----------------------------------------------------------------------------
(* Numbers and sequences *)

\* A set of natural numbers has a least element.
LEMMA LeastNatural ==
  ASSUME NEW T, T \subseteq Nat, T # {}
  PROVE  \E x \in T : \A y \in T : x <= y
<1> DEFINE Rel == OpToRel(<, Nat)
<1>1. IsWellFoundedOn(Rel, Nat)
  BY NatLessThanWellFounded
<1>2. \A x, y \in Nat : y < x => <<y, x>> \in Rel
  BY DEF OpToRel
<1> HIDE DEF Rel
<1>3. \E x \in T : \A y \in T : ~ (<<y, x>> \in Rel)
  BY <1>1, WFMin
<1>4. PICK x \in T : \A y \in T : ~ (<<y, x>> \in Rel)
  BY <1>3
<1>5. ASSUME NEW y \in T PROVE x <= y
  <2>1. x \in Nat /\ y \in Nat
    OBVIOUS
  <2>2. ~(y < x)
    BY <1>2, <1>4, <2>1
  <2>3. QED
    BY <2>1, <2>2
<1>6. QED
  BY <1>5

\* Induction on a set of numbers, in place of a predicate.
LEMMA SetInduction ==
  ASSUME NEW T, 0 \in T, \A n \in Nat : n \in T => n + 1 \in T
  PROVE  Nat \subseteq T
<1> SUFFICES ASSUME Nat \ T # {} PROVE FALSE
  OBVIOUS
<1>1. PICK x \in Nat \ T : \A y \in Nat \ T : x <= y
  BY LeastNatural
<1>2. x # 0 /\ x - 1 \in Nat
  BY <1>1
<1>3. x - 1 \in T
  BY <1>1, <1>2
<1>4. x - 1 + 1 = x
  BY <1>2
<1>5. QED
  BY <1>1, <1>2, <1>3, <1>4

\* What Least returns.
LEMMA LeastOf ==
  ASSUME NEW T, T \subseteq Nat, T # {}
  PROVE  Least(T) \in T /\ \A y \in T : Least(T) <= y
<1>1. \E x \in T : \A y \in T : x <= y
  BY LeastNatural
<1>2. QED
  BY <1>1 DEF Least

\* The end of a sequence, from one of its positions on.
LEMMA FromFacts ==
  ASSUME NEW W, NEW s \in Seq(W), NEW p \in 1 .. Len(s) + 1
  PROVE  /\ From(s, p) \in Seq(W)
         /\ Len(From(s, p)) = Len(s) - p + 1
         /\ \A i \in 1 .. Len(s) - p + 1 : From(s, p)[i] = s[p + i - 1]
<1>1. Len(s) \in Nat
  BY LenProperties
<1>2. QED
  BY <1>1, SubSeqProperties DEF From

\* A piece of a sequence.
LEMMA PieceFacts ==
  ASSUME NEW W, NEW s \in Seq(W), NEW p \in 1 .. Len(s) + 1, NEW q \in p - 1 .. Len(s)
  PROVE  /\ SubSeq(s, p, q) \in Seq(W)
         /\ Len(SubSeq(s, p, q)) = q - p + 1
         /\ \A i \in 1 .. q - p + 1 : SubSeq(s, p, q)[i] = s[p + i - 1]
<1>1. Len(s) \in Nat
  BY LenProperties
<1>2. QED
  BY <1>1, SubSeqProperties

\* The elements of a sequence are in its set.
LEMMA Elements ==
  ASSUME NEW W, NEW s \in Seq(W)
  PROVE  Len(s) \in Nat /\ DOMAIN s = 1 .. Len(s) /\ \A i \in 1 .. Len(s) : s[i] \in W
BY LenProperties, ElementOfSeq

\* One sequence after another.
LEMMA JoinFacts ==
  ASSUME NEW W, NEW s \in Seq(W), NEW u \in Seq(W)
  PROVE  /\ s \o u \in Seq(W)
         /\ Len(s \o u) = Len(s) + Len(u)
         /\ \A i \in 1 .. Len(s) : (s \o u)[i] = s[i]
         /\ \A i \in 1 .. Len(u) : (s \o u)[Len(s) + i] = u[i]
<1>1. Len(s) \in Nat /\ Len(u) \in Nat
  BY LenProperties
<1>2. QED
  BY <1>1, ConcatProperties

-----------------------------------------------------------------------------
(* A turn of the loop in feed() *)

Raws(W) == [sf : 1 .. 4, words : Seq(W), valid : BOOLEAN]

Synchronizers(W) == [state : {Searching, Locked}, buffer : Seq(W), expected : 1 .. 4]

Turns(W) ==
  [sync : Synchronizers(W), subframes : Seq(Raws(W)), locked : BOOLEAN, lost : BOOLEAN]

\* All that feed() knows of a word is what it looks like.
Readable(W) == \A w \in W : w.sync \in 0 .. 4

TurnOf(state, buffer, expected, subframes, locked, lost) ==
  [sync |-> [state |-> state, buffer |-> buffer, expected |-> expected],
   subframes |-> subframes, locked |-> locked, lost |-> lost]

\* The loop breaks.
Idle(t) ==
  IF t.sync.state = Searching THEN PairsAt(t.sync.buffer, WPS) = {}
  ELSE Len(t.sync.buffer) < WPS

\* The other three outcomes of a turn: a lock on the pair at pos, a wrong
\* sync word, a subframe.
LocksAt(t, pos) ==
  /\ t.sync.state = Searching
  /\ pos \in PairsAt(t.sync.buffer, WPS)
  /\ \A q \in PairsAt(t.sync.buffer, WPS) : pos <= q
  /\ Turn(t) = TurnOf(Locked, From(t.sync.buffer, pos), t.sync.buffer[pos].sync,
                      t.subframes, TRUE, t.lost)

Loses(t) ==
  /\ t.sync.state = Locked /\ Len(t.sync.buffer) >= WPS
  /\ t.sync.buffer[1].sync # t.sync.expected
  /\ Turn(t) = TurnOf(Searching, From(t.sync.buffer, 2), t.sync.expected,
                      Append(t.subframes, RawSubframe(t.sync.expected,
                                            SubSeq(t.sync.buffer, 1, WPS), FALSE)),
                      t.locked, TRUE)

Takes(t) ==
  /\ t.sync.state = Locked /\ Len(t.sync.buffer) >= WPS
  /\ t.sync.buffer[1].sync = t.sync.expected
  /\ Turn(t) = TurnOf(Locked, From(t.sync.buffer, WPS + 1), Successor(t.sync.expected),
                      Append(t.subframes, RawSubframe(t.sync.expected,
                                            SubSeq(t.sync.buffer, 1, WPS), TRUE)),
                      t.locked, t.lost)

\* The fields of a turn.
LEMMA TurnFields ==
  ASSUME NEW W, NEW t \in Turns(W)
  PROVE  /\ t.sync \in Synchronizers(W)
         /\ t.sync.state \in {Searching, Locked}
         /\ t.sync.buffer \in Seq(W) /\ Len(t.sync.buffer) \in Nat
         /\ t.sync.expected \in 1 .. 4
         /\ t.subframes \in Seq(Raws(W)) /\ t.locked \in BOOLEAN /\ t.lost \in BOOLEAN
         /\ t = [sync |-> t.sync, subframes |-> t.subframes, locked |-> t.locked, lost |-> t.lost]
<1>1. /\ t.sync \in Synchronizers(W)
      /\ t.subframes \in Seq(Raws(W)) /\ t.locked \in BOOLEAN /\ t.lost \in BOOLEAN
      /\ t = [sync |-> t.sync, subframes |-> t.subframes, locked |-> t.locked, lost |-> t.lost]
  BY DEF Turns
<1>2. /\ t.sync.state \in {Searching, Locked} /\ t.sync.buffer \in Seq(W)
      /\ t.sync.expected \in 1 .. 4
  BY <1>1 DEF Synchronizers
<1>3. QED
  BY <1>1, <1>2, LenProperties

\* The parts of a turn, put together.
LEMMA TurnOfType ==
  ASSUME NEW W, NEW st \in {Searching, Locked}, NEW buf \in Seq(W), NEW sf \in 1 .. 4,
         NEW raws \in Seq(Raws(W)), NEW locked \in BOOLEAN, NEW lost \in BOOLEAN
  PROVE  LET t == TurnOf(st, buf, sf, raws, locked, lost)
         IN  /\ t \in Turns(W)
             /\ t.sync.state = st /\ t.sync.buffer = buf /\ t.sync.expected = sf
             /\ t.subframes = raws /\ t.locked = locked /\ t.lost = lost
<1>1. [state |-> st, buffer |-> buf, expected |-> sf] \in Synchronizers(W)
  BY DEF Synchronizers
<1>2. QED
  BY <1>1 DEF TurnOf, Turns

\* The pairs of a buffer.
LEMMA PairFacts ==
  ASSUME NEW W, Readable(W), NEW buf \in Seq(W), NEW d \in Nat \ {0}
  PROVE  /\ PairsAt(buf, d) \subseteq Nat
         /\ \A p \in PairsAt(buf, d) :
              /\ p \in 1 .. Len(buf) /\ p + d \in 1 .. Len(buf) /\ Len(buf) \in Nat
              /\ buf[p].sync \in 1 .. 4 /\ buf[p + d].sync = Successor(buf[p].sync)
<1>1. Len(buf) \in Nat /\ \A i \in 1 .. Len(buf) : buf[i] \in W
  BY Elements
<1>2. ASSUME NEW p \in PairsAt(buf, d)
      PROVE  /\ p \in Nat /\ p \in 1 .. Len(buf) /\ p + d \in 1 .. Len(buf)
             /\ buf[p].sync \in 1 .. 4 /\ buf[p + d].sync = Successor(buf[p].sync)
  <2>1. p \in 1 .. Len(buf) - d /\ PairAt(buf, p, d)
    BY DEF PairsAt
  <2>2. p \in Nat /\ p \in 1 .. Len(buf) /\ p + d \in 1 .. Len(buf)
    BY <1>1, <2>1
  <2>3. buf[p].sync \in 0 .. 4
    BY <1>1, <2>2 DEF Readable
  <2>4. QED
    BY <2>1, <2>2, <2>3 DEF PairAt
<1>3. QED
  BY <1>1, <1>2

\* Sync words come in rotation.
LEMMA SuccessorType ==
  \A sf \in 1 .. 4 : Successor(sf) \in 1 .. 4
BY DEF Successor

\* What a turn may do, case by case.
LEMMA TurnCases ==
  ASSUME NEW W, Readable(W), NEW t \in Turns(W)
  PROVE  /\ Turn(t) \in Turns(W)
         /\ \/ Idle(t) /\ Turn(t) = t
            \/ \E pos \in PairsAt(t.sync.buffer, WPS) : LocksAt(t, pos)
            \/ Loses(t)
            \/ Takes(t)
<1> DEFINE buf == t.sync.buffer
           sf == t.sync.expected
<1>1. /\ t.sync.state \in {Searching, Locked}
      /\ buf \in Seq(W) /\ Len(buf) \in Nat /\ sf \in 1 .. 4
      /\ t.subframes \in Seq(Raws(W)) /\ t.locked \in BOOLEAN /\ t.lost \in BOOLEAN
      /\ t = [sync |-> t.sync, subframes |-> t.subframes, locked |-> t.locked, lost |-> t.lost]
  BY TurnFields
<1>2. WPS \in Nat \ {0}
  BY WpsAssumption
<1>3. CASE t.sync.state = Searching
  <2> DEFINE pairs == PairsAt(buf, WPS)
  <2>1. Turn(t) = TryLock(t)
    BY <1>3 DEF Turn
  <2>2. CASE pairs = {}
    <3>1. Turn(t) = t
      BY <2>1, <2>2 DEF TryLock
    <3>2. QED
      BY <1>3, <2>2, <3>1 DEF Idle
  <2>3. CASE pairs # {}
    <3> DEFINE pos == Least(pairs)
    <3>1. pos \in pairs /\ \A q \in pairs : pos <= q
      BY <1>1, <1>2, <2>3, PairFacts, LeastOf
    <3>2. /\ pos \in 1 .. Len(buf) /\ buf[pos].sync \in 1 .. 4
      BY <1>1, <1>2, <3>1, PairFacts
    <3>3. From(buf, pos) \in Seq(W)
      BY <1>1, <3>2, FromFacts
    <3> DEFINE locked == [state |-> Locked, buffer |-> From(buf, pos), expected |-> buf[pos].sync]
    <3>4. Turn(t) = [t EXCEPT !.sync = locked, !.locked = TRUE]
      BY <2>1, <2>3, Zenon DEF TryLock
    <3>5. Turn(t) = [sync |-> locked, subframes |-> t.subframes, locked |-> TRUE, lost |-> t.lost]
      <4> HIDE DEF locked
      <4>1. QED
        BY <1>1, <3>4
    <3>6. Turn(t) = TurnOf(Locked, From(buf, pos), buf[pos].sync, t.subframes, TRUE, t.lost)
      BY <3>5 DEF TurnOf
    <3>7. Turn(t) \in Turns(W)
      <4> HIDE DEF pos, pairs, buf
      <4>1. QED
        BY <1>1, <3>2, <3>3, <3>6 DEF TurnOf, Turns, Synchronizers
    <3>8. LocksAt(t, pos)
      BY <1>3, <3>1, <3>6 DEF LocksAt
    <3>9. QED
      BY <3>1, <3>7, <3>8
  <2>4. QED
    BY <2>2, <2>3
<1>4. CASE t.sync.state = Locked
  <2>0. t.sync.state # Searching
    BY <1>4 DEF Searching, Locked
  <2>1. Turn(t) = TakeLocked(t)
    BY <2>0 DEF Turn
  <2> DEFINE words == SubSeq(buf, 1, WPS)
  <2>2. CASE Len(buf) < WPS
    <3>1. Turn(t) = t
      BY <2>1, <2>2 DEF TakeLocked
    <3>2. QED
      BY <2>0, <2>2, <3>1 DEF Idle
  <2>3. CASE ~(Len(buf) < WPS)
    <3>0. Len(buf) >= WPS
      BY <1>1, <1>2, <2>3
    <3>1. words \in Seq(W)
      BY <1>1, <1>2, <3>0, PieceFacts
    <3>2. \A v \in BOOLEAN :
            /\ RawSubframe(sf, words, v) \in Raws(W)
            /\ Append(t.subframes, RawSubframe(sf, words, v)) \in Seq(Raws(W))
      <4>1. ASSUME NEW v \in BOOLEAN PROVE RawSubframe(sf, words, v) \in Raws(W)
        BY <1>1, <3>1 DEF RawSubframe, Raws
      <4>2. QED
        BY <1>1, <4>1, AppendProperties
    <3>3. CASE buf[1].sync # sf
      <4> DEFINE s == [state |-> Searching, buffer |-> Tail(buf), expected |-> sf]
                 raws == Append(t.subframes, RawSubframe(sf, words, FALSE))
      <4>1. Turn(t) = [t EXCEPT !.sync = s, !.subframes = raws, !.lost = TRUE]
        BY <2>1, <2>3, <3>3, Zenon DEF TakeLocked
      <4>2. Turn(t) = [sync |-> s, subframes |-> raws, locked |-> t.locked, lost |-> TRUE]
        <5> HIDE DEF s, raws
        <5>1. QED
          BY <1>1, <4>1
      <4>3. buf # <<>>
        BY <1>1, <1>2, <3>0, EmptySeq
      <4>4. Tail(buf) = From(buf, 2)
        BY <1>1, <4>3, TailIsSubSeq DEF From
      <4>5. From(buf, 2) \in Seq(W)
        BY <1>1, <1>2, <3>0, FromFacts
      <4>6. Turn(t) = TurnOf(Searching, From(buf, 2), sf, raws, t.locked, TRUE)
        BY <4>2, <4>4 DEF TurnOf
      <4>7. raws \in Seq(Raws(W))
        BY <3>2
      <4>8. Turn(t) \in Turns(W)
        <5> HIDE DEF raws, s, words, buf, sf
        <5>1. QED
          BY <1>1, <4>5, <4>6, <4>7 DEF TurnOf, Turns, Synchronizers
      <4>9. Loses(t)
        BY <1>4, <3>0, <3>3, <4>6 DEF Loses
      <4>10. QED
        BY <4>8, <4>9
    <3>4. CASE ~(buf[1].sync # sf)
      <4> DEFINE s == [state |-> Locked, buffer |-> From(buf, WPS + 1), expected |-> Successor(sf)]
                 raws == Append(t.subframes, RawSubframe(sf, words, TRUE))
      <4>1. Turn(t) = [t EXCEPT !.sync = s, !.subframes = raws]
        BY <2>1, <2>3, <3>4, Zenon DEF TakeLocked
      <4>2. Turn(t) = [sync |-> s, subframes |-> raws, locked |-> t.locked, lost |-> t.lost]
        <5> HIDE DEF s, raws
        <5>1. QED
          BY <1>1, <4>1
      <4>3. From(buf, WPS + 1) \in Seq(W)
        BY <1>1, <1>2, <3>0, FromFacts
      <4>4. Turn(t) = TurnOf(Locked, From(buf, WPS + 1), Successor(sf), raws, t.locked, t.lost)
        BY <4>2 DEF TurnOf
      <4>5. raws \in Seq(Raws(W))
        BY <3>2
      <4>6. Successor(sf) \in 1 .. 4
        BY <1>1, SuccessorType
      <4>7. Turn(t) \in Turns(W)
        <5> HIDE DEF raws
        <5>1. QED
          BY <1>1, <4>3, <4>4, <4>5, <4>6, TurnOfType
      <4>8. Takes(t)
        BY <1>4, <3>0, <3>4, <4>4 DEF Takes
      <4>9. QED
        BY <4>7, <4>8
    <3>5. QED
      BY <3>3, <3>4
  <2>4. QED
    BY <2>2, <2>3
<1>5. QED
  BY <1>1, <1>3, <1>4

-----------------------------------------------------------------------------
(* The loop of feed() *)

\* The turns that the loop goes through.
LoopSteps(g, t, turns) ==
  /\ g[0] = t /\ Settled(t) = g[turns]
  /\ \A n \in 1 .. turns : g[n] = Turn(g[n - 1])

\* The loop has a turn for each number up to its last.
LEMMA LoopTurns ==
  ASSUME NEW t, Len(t.sync.buffer) \in Nat
  PROVE  \E g : LoopSteps(g, t, 2 * Len(t.sync.buffer) + 1)
<1> DEFINE turns == 2 * Len(t.sync.buffer) + 1
           Is(g, m) == g = [n \in 0 .. m |-> IF n = 0 THEN t ELSE Turn(g[n - 1])]
           T == {m \in Nat : \E g : Is(g, m)}
<1>0. turns \in Nat
  OBVIOUS
<1>1. 0 \in T
  <2>1. Is([n \in 0 .. 0 |-> t], 0)
    OBVIOUS
  <2>2. QED
    BY <2>1
<1>2. ASSUME NEW m \in Nat, m \in T PROVE m + 1 \in T
  <2>1. PICK g : Is(g, m)
    BY <1>2
  <2> DEFINE h == [n \in 0 .. m + 1 |-> IF n = m + 1 THEN Turn(g[m]) ELSE g[n]]
  <2>2. ASSUME NEW n \in 0 .. m + 1
        PROVE  h[n] = IF n = 0 THEN t ELSE Turn(h[n - 1])
    <3>1. CASE n = m + 1
      <4>1. h[n - 1] = g[m] /\ n # 0
        BY <3>1
      <4>2. QED
        BY <3>1, <4>1
    <3>2. CASE n # m + 1
      <4>1. n \in 0 .. m /\ h[n] = g[n]
        BY <3>2
      <4>2. n # 0 => h[n - 1] = g[n - 1]
        BY <4>1
      <4>3. QED
        BY <2>1, <4>1, <4>2
    <3>3. QED
      BY <3>1, <3>2
  <2>3. Is(h, m + 1)
    <3>1. DOMAIN h = 0 .. m + 1 /\ h = [n \in 0 .. m + 1 |-> h[n]]
      OBVIOUS
    <3> HIDE DEF h
    <3>2. QED
      BY <2>2, <3>1
  <2> HIDE DEF Is
  <2>4. QED
    BY <2>3
<1> HIDE DEF T
<1>3. Nat \subseteq T
  BY <1>1, <1>2, SetInduction
<1>4. \E g : Is(g, turns)
  BY <1>0, <1>3 DEF T
<1> DEFINE g == CHOOSE f : Is(f, turns)
<1>5. Is(g, turns)
  BY <1>4
<1>6. Settled(t) = g[turns]
  BY DEF Settled
<1> HIDE DEF g, turns
<1>7. \A n \in 0 .. turns : g[n] = IF n = 0 THEN t ELSE Turn(g[n - 1])
  BY <1>5
<1>8. LoopSteps(g, t, turns)
  BY <1>0, <1>6, <1>7 DEF LoopSteps
<1>9. QED
  BY <1>8 DEF turns

\* The loop ends in any set that its turns do not leave.
LEMMA SettledIn ==
  ASSUME NEW T, NEW t \in T, Len(t.sync.buffer) \in Nat, \A u \in T : Turn(u) \in T
  PROVE  Settled(t) \in T
<1> DEFINE turns == 2 * Len(t.sync.buffer) + 1
<1>1. PICK g : LoopSteps(g, t, turns)
  BY LoopTurns
<1>0. turns \in Nat
  OBVIOUS
<1> HIDE DEF turns
<1> DEFINE U == {n \in Nat : n <= turns => g[n] \in T}
<1>2. 0 \in U
  BY <1>1 DEF LoopSteps
<1>3. ASSUME NEW n \in Nat, n \in U PROVE n + 1 \in U
  <2>1. CASE n + 1 <= turns
    <3>1. n + 1 \in 1 .. turns /\ n + 1 - 1 = n
      BY <1>0, <2>1
    <3>2. g[n + 1] = Turn(g[n])
      BY <1>1, <3>1 DEF LoopSteps
    <3>3. g[n] \in T
      BY <1>0, <1>3, <2>1
    <3>4. QED
      BY <3>2, <3>3
  <2>2. CASE ~(n + 1 <= turns)
    BY <2>2
  <2>3. QED
    BY <2>1, <2>2
<1> HIDE DEF U
<1>4. Nat \subseteq U
  BY <1>2, <1>3, SetInduction
<1>5. QED
  BY <1>0, <1>1, <1>4 DEF U, LoopSteps

\* What the words and the state leave to be done.
Work(t) ==
  IF t.sync.state = Searching THEN 2 * Len(t.sync.buffer) + 1 ELSE 2 * Len(t.sync.buffer)

\* A turn does some of it, or the loop is over.
LEMMA TurnWorks ==
  ASSUME NEW W, Readable(W), NEW t \in Turns(W)
  PROVE  /\ Work(t) \in Nat /\ Work(Turn(t)) \in Nat
         /\ IF Idle(t) THEN Turn(t) = t ELSE Work(Turn(t)) < Work(t)
<1> DEFINE buf == t.sync.buffer
           u == Turn(t)
<1>0. Searching # Locked
  BY DEF Searching, Locked
<1>1. Turn(t) \in Turns(W)
  BY TurnCases
<1>2. /\ t.sync.state \in {Searching, Locked} /\ buf \in Seq(W) /\ Len(buf) \in Nat
      /\ Turn(t).sync.state \in {Searching, Locked} /\ Len(Turn(t).sync.buffer) \in Nat
  BY <1>1, TurnFields
<1>3. WPS \in Nat \ {0}
  BY WpsAssumption
<1>4. Work(t) \in Nat /\ Work(Turn(t)) \in Nat
  BY <1>2 DEF Work
<1>5. CASE Idle(t) /\ Turn(t) = t
  BY <1>4, <1>5
<1>6. CASE \E pos \in PairsAt(buf, WPS) : LocksAt(t, pos)
  <2>1. PICK pos \in PairsAt(buf, WPS) : LocksAt(t, pos)
    BY <1>6
  <2>2. pos \in 1 .. Len(buf)
    BY <1>2, <1>3, PairFacts
  <2>3. /\ t.sync.state = Searching /\ Turn(t).sync.state = Locked
        /\ Turn(t).sync.buffer = From(buf, pos)
    BY <2>1 DEF LocksAt, TurnOf
  <2>4. Len(Turn(t).sync.buffer) <= Len(buf)
    BY <1>2, <2>2, <2>3, FromFacts
  <2>5. Work(Turn(t)) < Work(t)
    BY <1>0, <1>2, <2>3, <2>4 DEF Work
  <2>6. ~Idle(t)
    BY <2>1, <2>3 DEF Idle
  <2>7. QED
    BY <1>4, <2>5, <2>6
<1>7. CASE Loses(t)
  <2>1. /\ t.sync.state = Locked /\ Len(buf) >= WPS
        /\ Turn(t).sync.buffer = From(buf, 2)
    BY <1>7 DEF Loses, TurnOf
  <2>2. Len(Turn(t).sync.buffer) = Len(buf) - 1
    <3>1. 2 \in 1 .. Len(buf) + 1
      BY <1>2, <1>3, <2>1
    <3>2. QED
      BY <1>2, <2>1, <3>1, FromFacts
  <2>3. Work(Turn(t)) < Work(t)
    BY <1>0, <1>2, <2>1, <2>2 DEF Work
  <2>4. ~Idle(t)
    BY <1>0, <1>2, <1>3, <2>1 DEF Idle
  <2>5. QED
    BY <1>4, <2>3, <2>4
<1>8. CASE Takes(t)
  <2>1. /\ t.sync.state = Locked /\ Len(buf) >= WPS /\ Turn(t).sync.state = Locked
        /\ Turn(t).sync.buffer = From(buf, WPS + 1)
    BY <1>8 DEF Takes, TurnOf
  <2>2. Len(Turn(t).sync.buffer) = Len(buf) - WPS
    <3>1. WPS + 1 \in 1 .. Len(buf) + 1
      BY <1>2, <1>3, <2>1
    <3>2. Len(From(buf, WPS + 1)) = Len(buf) - (WPS + 1) + 1
      BY <1>2, <3>1, FromFacts
    <3>3. QED
      BY <1>2, <1>3, <2>1, <3>2
  <2>3. Work(Turn(t)) < Work(t)
    BY <1>0, <1>2, <1>3, <2>1, <2>2 DEF Work
  <2>4. ~Idle(t)
    BY <1>0, <1>2, <1>3, <2>1 DEF Idle
  <2>5. QED
    BY <1>4, <2>3, <2>4
<1>9. QED
  BY <1>5, <1>6, <1>7, <1>8, TurnCases

\* The loop runs until there is nothing left to do: feed() never returns
\* with a pair it has not seen or a subframe it could have delivered.
LEMMA SettledIdle ==
  ASSUME NEW W, Readable(W), NEW t \in Turns(W)
  PROVE  Settled(t) \in Turns(W) /\ Idle(Settled(t))
<1> DEFINE turns == 2 * Len(t.sync.buffer) + 1
<1>1. t.sync.state \in {Searching, Locked} /\ Len(t.sync.buffer) \in Nat
  BY TurnFields
<1>2. PICK g : LoopSteps(g, t, turns)
  BY <1>1, LoopTurns
<1>3. turns \in Nat /\ Work(t) \in Nat /\ Work(t) <= turns
  BY <1>1 DEF Work
<1> HIDE DEF turns
<1> DEFINE U == {n \in Nat : n <= turns =>
                   /\ g[n] \in Turns(W)
                   /\ Idle(g[n]) \/ Work(g[n]) + n <= turns}
<1>4. 0 \in U
  BY <1>2, <1>3 DEF LoopSteps
<1>5. ASSUME NEW n \in Nat, n \in U PROVE n + 1 \in U
  <2>1. CASE n + 1 <= turns
    <3>1. n + 1 \in 1 .. turns /\ n + 1 - 1 = n
      BY <1>3, <2>1
    <3>2. g[n + 1] = Turn(g[n])
      BY <1>2, <3>1 DEF LoopSteps
    <3>3. g[n] \in Turns(W) /\ (Idle(g[n]) \/ Work(g[n]) + n <= turns)
      BY <1>3, <1>5, <2>1
    <3>4. g[n + 1] \in Turns(W)
      BY <3>2, <3>3, TurnCases
    <3>5. /\ Work(g[n]) \in Nat /\ Work(g[n + 1]) \in Nat
          /\ IF Idle(g[n]) THEN g[n + 1] = g[n] ELSE Work(g[n + 1]) < Work(g[n])
      BY <3>2, <3>3, TurnWorks
    <3>6. Idle(g[n + 1]) \/ Work(g[n + 1]) + (n + 1) <= turns
      BY <1>3, <3>3, <3>5
    <3>7. QED
      BY <3>4, <3>6
  <2>2. CASE ~(n + 1 <= turns)
    BY <2>2
  <2>3. QED
    BY <2>1, <2>2
<1> HIDE DEF U
<1>6. Nat \subseteq U
  BY <1>4, <1>5, SetInduction
<1>7. /\ g[turns] \in Turns(W)
      /\ Idle(g[turns]) \/ Work(g[turns]) + turns <= turns
  BY <1>3, <1>6 DEF U
<1>8. Idle(g[turns])
  <2>1. SUFFICES ASSUME Work(g[turns]) + turns <= turns PROVE Idle(g[turns])
    BY <1>7
  <2>2. /\ g[turns].sync.state \in {Searching, Locked} /\ Len(g[turns].sync.buffer) \in Nat
    BY <1>7, TurnFields
  <2>3. g[turns].sync.state # Searching /\ Len(g[turns].sync.buffer) = 0
    BY <1>3, <2>1, <2>2 DEF Work
  <2>4. QED
    BY <2>3, WpsAssumption DEF Idle
<1>9. QED
  BY <1>2, <1>7, <1>8 DEF LoopSteps

-----------------------------------------------------------------------------
(* feed() *)

\* A finite set of numbers that is not empty has a greatest element.
LEMMA GreatestNatural ==
  ASSUME NEW D, D \subseteq Nat, D # {}, IsFiniteSet(D)
  PROVE  \E x \in D : \A y \in D : y <= x
<1> DEFINE T == {n \in Nat : \A S \in SUBSET D :
                   Cardinality(S) = n /\ S # {} => \E x \in S : \A y \in S : y <= x}
<1>1. \A S \in SUBSET D : IsFiniteSet(S) /\ Cardinality(S) \in Nat
  BY FS_Subset, FS_CardinalityType
<1>2. 0 \in T
  BY <1>1, FS_EmptySet
<1>3. ASSUME NEW n \in Nat, n \in T PROVE n + 1 \in T
  <2> SUFFICES ASSUME NEW S \in SUBSET D, Cardinality(S) = n + 1, S # {}
               PROVE  \E x \in S : \A y \in S : y <= x
    OBVIOUS
  <2>1. PICK a \in S : TRUE
    OBVIOUS
  <2> DEFINE S0 == S \ {a}
  <2>2. S0 \in SUBSET D /\ Cardinality(S0) = n
    <3>1. Cardinality(S0) = Cardinality(S) - 1
      BY <1>1, <2>1, FS_RemoveElement
    <3>2. QED
      BY <3>1
  <2>3. CASE S0 = {}
    <3>1. S = {a} /\ a \in Nat
      BY <2>1, <2>3
    <3>2. QED
      BY <3>1
  <2>4. CASE S0 # {}
    <3>1. PICK x \in S0 : \A y \in S0 : y <= x
      BY <1>3, <2>2, <2>4
    <3>2. \A y \in S : y = a \/ y \in S0
      OBVIOUS
    <3>3. a \in Nat /\ x \in Nat
      BY <2>1
    <3>4. CASE a <= x
      BY <3>1, <3>2, <3>4
    <3>5. CASE x < a
      <4>1. \A y \in S0 : y \in Nat /\ y <= a
        BY <3>1, <3>3, <3>5
      <4>2. \A y \in S : y <= a
        BY <3>2, <3>3, <4>1
      <4>3. QED
        BY <2>1, <4>2
    <3>6. QED
      BY <3>3, <3>4, <3>5
  <2>5. QED
    BY <2>3, <2>4
<1> HIDE DEF T
<1>4. Nat \subseteq T
  BY <1>2, <1>3, SetInduction
<1>5. Cardinality(D) \in T /\ D \in SUBSET D
  BY <1>1, <1>4
<1>6. QED
  BY <1>5 DEF T

\* A search keeps enough words for a pair at any rate.
LEMMA LimitFacts ==
  Limit \in Nat /\ Limit >= WPS + 1 /\ \A d \in StandardWps : Limit >= d + 1
<1> DEFINE D == StandardWps \cup {WPS}
           largest == CHOOSE d \in D : \A e \in D : e <= d
<1>1. D \subseteq Nat /\ D # {} /\ IsFiniteSet(D)
  BY WpsAssumption, FS_AddElement
<1>2. \E d \in D : \A e \in D : e <= d
  BY <1>1, GreatestNatural
<1>3. largest \in D /\ \A e \in D : e <= largest
  BY <1>2
<1>4. Limit = largest + 1
  BY DEF Limit
<1> HIDE DEF largest
<1>5. largest \in Nat /\ WPS <= largest /\ \A d \in StandardWps : d \in Nat /\ d <= largest
  BY <1>1, <1>3
<1>6. QED
  BY <1>4, <1>5, WpsAssumption

\* One sequence is the end of another.
IsEnd(u, v) ==
  /\ Len(u) <= Len(v)
  /\ \A i \in 1 .. Len(u) : u[i] = v[Len(v) - Len(u) + i]

\* What is left of a sequence is an end of it.
LEMMA EndFrom ==
  ASSUME NEW W, NEW s \in Seq(W), NEW p \in 1 .. Len(s) + 1
  PROVE  IsEnd(From(s, p), s)
<1>1. Len(s) \in Nat /\ Len(From(s, p)) = Len(s) - p + 1
  BY Elements, FromFacts
<1>2. ASSUME NEW i \in 1 .. Len(From(s, p))
      PROVE  From(s, p)[i] = s[Len(s) - Len(From(s, p)) + i]
  <2>1. Len(s) - Len(From(s, p)) + i = p + i - 1
    BY <1>1
  <2>2. From(s, p)[i] = s[p + i - 1]
    BY <1>1, FromFacts
  <2>3. QED
    BY <2>1, <2>2
<1>3. QED
  BY <1>1, <1>2 DEF IsEnd

\* An end of an end.
LEMMA EndOfEnd ==
  ASSUME NEW W, NEW u \in Seq(W), NEW v \in Seq(W), NEW w \in Seq(W), IsEnd(u, v), IsEnd(v, w)
  PROVE  IsEnd(u, w)
<1>1. Len(u) \in Nat /\ Len(v) \in Nat /\ Len(w) \in Nat /\ Len(u) <= Len(v) /\ Len(v) <= Len(w)
  BY Elements DEF IsEnd
<1>2. ASSUME NEW i \in 1 .. Len(u) PROVE u[i] = w[Len(w) - Len(u) + i]
  <2> DEFINE j == Len(v) - Len(u) + i
  <2>1. j \in 1 .. Len(v) /\ Len(w) - Len(v) + j = Len(w) - Len(u) + i
    BY <1>1
  <2>2. u[i] = v[j]
    BY DEF IsEnd
  <2>3. v[j] = w[Len(w) - Len(v) + j]
    <3> HIDE DEF j
    <3>1. QED
      BY <2>1 DEF IsEnd
  <2>4. QED
    BY <2>1, <2>2, <2>3
<1>3. QED
  BY <1>1, <1>2 DEF IsEnd

\* A buffer is an end of itself.
LEMMA EndOfItself ==
  ASSUME NEW W, NEW s \in Seq(W)
  PROVE  IsEnd(s, s)
<1>1. Len(s) \in Nat
  BY Elements
<1>2. \A i \in 1 .. Len(s) : Len(s) - Len(s) + i = i
  BY <1>1
<1>3. QED
  BY <1>1, <1>2 DEF IsEnd

\* What a search keeps.
LEMMA TrimmedFacts ==
  ASSUME NEW W, NEW buf \in Seq(W)
  PROVE  /\ Trimmed(buf) \in Seq(W) /\ IsEnd(Trimmed(buf), buf)
         /\ Len(Trimmed(buf)) = IF Len(buf) > Limit THEN Limit ELSE Len(buf)
<1>1. Len(buf) \in Nat /\ Limit \in Nat /\ Limit >= 1
  BY Elements, LimitFacts, WpsAssumption
<1>2. CASE Len(buf) > Limit
  <2> DEFINE p == Len(buf) - Limit + 1
  <2>1. Trimmed(buf) = From(buf, p)
    BY <1>2 DEF Trimmed
  <2>2. p \in 1 .. Len(buf) + 1 /\ Len(buf) - p + 1 = Limit
    BY <1>1, <1>2
  <2> HIDE DEF p
  <2>3. QED
    BY <1>2, <2>1, <2>2, FromFacts, EndFrom
<1>3. CASE ~(Len(buf) > Limit)
  <2>1. Trimmed(buf) = buf
    BY <1>3 DEF Trimmed
  <2>2. QED
    BY <1>3, <2>1, EndOfItself
<1>4. QED
  BY <1>2, <1>3

\* What the loop starts with.
Opening(s, words) == NewTurn([s EXCEPT !.buffer = @ \o words])

\* The fields of what the loop starts with.
LEMMA OpeningFacts ==
  ASSUME NEW W, NEW s \in Synchronizers(W), NEW words \in Seq(W)
  PROVE  LET t == Opening(s, words)
         IN  /\ t \in Turns(W)
             /\ t.sync.state = s.state /\ t.sync.expected = s.expected
             /\ t.sync.buffer = s.buffer \o words
             /\ t.subframes = <<>> /\ t.locked = FALSE /\ t.lost = FALSE
<1>1. /\ s.state \in {Searching, Locked} /\ s.buffer \in Seq(W) /\ s.expected \in 1 .. 4
      /\ s = [state |-> s.state, buffer |-> s.buffer, expected |-> s.expected]
  BY DEF Synchronizers
<1> DEFINE buf == s.buffer \o words
           s1 == [s EXCEPT !.buffer = buf]
<1>2. buf \in Seq(W)
  BY <1>1, JoinFacts
<1>3. s1 = [state |-> s.state, buffer |-> buf, expected |-> s.expected]
  <2> HIDE DEF buf
  <2>1. QED
    BY <1>1
<1>4. s1 \in Synchronizers(W)
  <2> HIDE DEF buf
  <2>1. QED
    BY <1>1, <1>2, <1>3 DEF Synchronizers
<1>5. <<>> \in Seq(Raws(W))
  BY EmptySeq
<1>6. Opening(s, words) = [sync |-> s1, subframes |-> <<>>, locked |-> FALSE, lost |-> FALSE]
  BY DEF Opening, NewTurn
<1>7. Opening(s, words) \in Turns(W)
  <2> HIDE DEF s1
  <2>1. QED
    BY <1>4, <1>5, <1>6 DEF Turns
<1>8. QED
  <2> HIDE DEF buf
  <2>1. s1.state = s.state /\ s1.buffer = buf /\ s1.expected = s.expected
    BY <1>3
  <2> HIDE DEF s1
  <2>2. QED
    BY <1>6, <1>7, <2>1 DEF buf

\* What feed() returns, from the turn its loop ends with.
LEMMA FeedFacts ==
  ASSUME NEW W, Readable(W), NEW s \in Synchronizers(W), NEW words \in Seq(W)
  PROVE  LET t == Settled(Opening(s, words))
             r == Feed(s, words)
         IN  /\ t \in Turns(W) /\ Idle(t)
             /\ r.sync \in Synchronizers(W)
             /\ r.sync.state = t.sync.state /\ r.sync.expected = t.sync.expected
             /\ r.sync.buffer = IF t.sync.state = Searching THEN Trimmed(t.sync.buffer)
                                ELSE t.sync.buffer
             /\ r.subframes = t.subframes /\ r.locked = t.locked /\ r.lost = t.lost
             /\ r.detected = IF t.sync.state = Searching THEN DetectedWps(t.sync.buffer) ELSE 0
<1> DEFINE t == Settled(Opening(s, words))
           r == Feed(s, words)
<1>1. t \in Turns(W) /\ Idle(t)
  <2>1. Opening(s, words) \in Turns(W)
    BY OpeningFacts
  <2>2. QED
    BY <2>1, SettledIdle
<1>2. r = [sync |-> IF t.sync.state = Searching THEN [t.sync EXCEPT !.buffer = Trimmed(@)]
                    ELSE t.sync,
           subframes |-> t.subframes, locked |-> t.locked, lost |-> t.lost,
           detected |-> IF t.sync.state = Searching THEN DetectedWps(t.sync.buffer) ELSE 0]
  BY DEF Feed, Opening
<1> HIDE DEF t, r
<1>3. /\ t.sync \in Synchronizers(W) /\ t.sync.state \in {Searching, Locked}
      /\ t.sync.buffer \in Seq(W) /\ t.sync.expected \in 1 .. 4
  BY <1>1, TurnFields
<1>4. Trimmed(t.sync.buffer) \in Seq(W)
  BY <1>3, TrimmedFacts
<1> DEFINE s1 == [t.sync EXCEPT !.buffer = Trimmed(@)]
<1>5. /\ s1 \in Synchronizers(W) /\ s1.state = t.sync.state /\ s1.expected = t.sync.expected
      /\ s1.buffer = Trimmed(t.sync.buffer)
  BY <1>3, <1>4 DEF Synchronizers
<1>6. /\ r.sync = IF t.sync.state = Searching THEN s1 ELSE t.sync
      /\ r.subframes = t.subframes /\ r.locked = t.locked /\ r.lost = t.lost
      /\ r.detected = IF t.sync.state = Searching THEN DetectedWps(t.sync.buffer) ELSE 0
  BY <1>2
<1> HIDE DEF s1
<1>7. /\ r.sync \in Synchronizers(W)
      /\ r.sync.state = t.sync.state /\ r.sync.expected = t.sync.expected
      /\ r.sync.buffer = IF t.sync.state = Searching THEN Trimmed(t.sync.buffer)
                         ELSE t.sync.buffer
  BY <1>3, <1>5, <1>6
<1>8. QED
  BY <1>1, <1>6, <1>7 DEF t, r

-----------------------------------------------------------------------------
(* The steps of the continuous stream *)

Devices ==
  [frame : Nat, subframe_index : 0 .. 3, word_index : 0 .. WPS - 1,
   order : {InOrder, Swapped}, dropping : BOOLEAN]

TypeOK ==
  /\ device \in Devices
  /\ wire \in Seq(Word)
  /\ sync \in Synchronizers(Word)
  /\ DOMAIN asm.words = A!Slots
  /\ syncState \in {Searching, Locked}
  /\ hurt \subseteq Nat \X Slot
  /\ calm \in 0 .. RelockBound

\* The words of the continuous stream look like something.
LEMMA WordsReadable == Readable(Word)
BY DEF Readable, Word

\* The slot of a subframe, in order or not.
LEMMA SlotFacts ==
  ASSUME NEW d \in Devices
  PROVE  SlotOf(d) \in Slot /\ (d.order = InOrder => SlotOf(d) = d.subframe_index)
<1>1. d.subframe_index \in 0 .. 3 /\ d.order \in {InOrder, Swapped}
  BY DEF Devices
<1>2. QED
  BY <1>1 DEF SlotOf, Slot, InOrder, Swapped

\* What the device decides at the beginning of a subframe.
LEMMA BegunFacts ==
  ASSUME NEW d \in Devices, NEW drop \in BOOLEAN, NEW swap \in BOOLEAN
  PROVE  LET b == Begun(d, drop, swap)
         IN  /\ b \in Devices
             /\ b.frame = d.frame /\ b.subframe_index = d.subframe_index
             /\ b.word_index = d.word_index
             /\ b.word_index # 0 => b = d
             /\ ~swap => b.order = d.order
<1> DEFINE b == Begun(d, drop, swap)
<1>1. /\ d.frame \in Nat /\ d.subframe_index \in 0 .. 3 /\ d.word_index \in 0 .. WPS - 1
      /\ d.order \in {InOrder, Swapped} /\ d.dropping \in BOOLEAN
      /\ d = [frame |-> d.frame, subframe_index |-> d.subframe_index,
              word_index |-> d.word_index, order |-> d.order, dropping |-> d.dropping]
  BY DEF Devices
<1>2. CASE d.word_index # 0
  <2>1. b = d
    BY <1>2 DEF Begun
  <2>2. QED
    BY <2>1
<1>3. CASE d.word_index = 0
  <2> DEFINE order == IF swap THEN Swapped ELSE d.order
  <2>1. b = [d EXCEPT !.dropping = drop, !.order = order]
    BY <1>3 DEF Begun
  <2>2. order \in {InOrder, Swapped} /\ (~swap => order = d.order)
    BY <1>1
  <2> HIDE DEF order
  <2>3. b = [frame |-> d.frame, subframe_index |-> d.subframe_index,
             word_index |-> d.word_index, order |-> order, dropping |-> drop]
    BY <1>1, <2>1
  <2> HIDE DEF b
  <2>4. b \in Devices
    BY <1>1, <2>2, <2>3 DEF Devices
  <2>5. QED
    BY <1>3, <2>2, <2>3, <2>4 DEF b
<1>4. QED
  BY <1>2, <1>3

\* The place after a word.
LEMMA AdvancedFacts ==
  ASSUME NEW d \in Devices
  PROVE  LET a == Advanced(d)
         IN  /\ a \in Devices
             /\ IF d.word_index + 1 < WPS
                THEN /\ a.word_index = d.word_index + 1
                     /\ a.frame = d.frame /\ a.subframe_index = d.subframe_index
                     /\ a.dropping = d.dropping /\ a.order = d.order
                ELSE /\ a.word_index = 0
                     /\ a.subframe_index = IF d.subframe_index < 3 THEN d.subframe_index + 1 ELSE 0
             /\ d.order = InOrder => a.order = InOrder
<1> DEFINE a == Advanced(d)
<1>0. WPS \in Nat \ {0}
  BY WpsAssumption
<1>1. /\ d.frame \in Nat /\ d.subframe_index \in 0 .. 3 /\ d.word_index \in 0 .. WPS - 1
      /\ d.order \in {InOrder, Swapped} /\ d.dropping \in BOOLEAN
      /\ d = [frame |-> d.frame, subframe_index |-> d.subframe_index,
              word_index |-> d.word_index, order |-> d.order, dropping |-> d.dropping]
  BY DEF Devices
<1>2. CASE d.word_index + 1 < WPS
  <2>1. a = [d EXCEPT !.word_index = @ + 1]
    BY <1>2 DEF Advanced
  <2>2. a = [frame |-> d.frame, subframe_index |-> d.subframe_index,
             word_index |-> d.word_index + 1, order |-> d.order, dropping |-> d.dropping]
    BY <1>1, <2>1
  <2>3. d.word_index + 1 \in 0 .. WPS - 1
    BY <1>0, <1>1, <1>2
  <2> HIDE DEF a
  <2>4. a \in Devices
    BY <1>1, <2>2, <2>3 DEF Devices
  <2>5. QED
    BY <1>2, <2>2, <2>4 DEF a
<1>3. CASE ~(d.word_index + 1 < WPS) /\ d.subframe_index < 3
  <2>1. a = [d EXCEPT !.word_index = 0, !.subframe_index = @ + 1]
    BY <1>3 DEF Advanced
  <2>2. a = [frame |-> d.frame, subframe_index |-> d.subframe_index + 1,
             word_index |-> 0, order |-> d.order, dropping |-> d.dropping]
    BY <1>1, <2>1
  <2>3. 0 \in 0 .. WPS - 1 /\ d.subframe_index + 1 \in 0 .. 3
    BY <1>0, <1>1, <1>3
  <2> HIDE DEF a
  <2>4. a \in Devices
    BY <1>1, <2>2, <2>3 DEF Devices
  <2>5. QED
    BY <1>3, <2>2, <2>4 DEF a
<1>4. CASE ~(d.word_index + 1 < WPS) /\ ~(d.subframe_index < 3)
  <2>1. a = [d EXCEPT !.word_index = 0, !.subframe_index = 0, !.frame = @ + 1, !.order = InOrder]
    BY <1>4 DEF Advanced
  <2>2. a = [frame |-> d.frame + 1, subframe_index |-> 0,
             word_index |-> 0, order |-> InOrder, dropping |-> d.dropping]
    BY <1>1, <2>1
  <2>3. 0 \in 0 .. WPS - 1 /\ d.frame + 1 \in Nat
    BY <1>0, <1>1
  <2> HIDE DEF a
  <2>4. a \in Devices
    BY <1>1, <2>2, <2>3 DEF Devices
  <2>5. QED
    BY <1>4, <2>2, <2>4 DEF a
<1>5. QED
  BY <1>2, <1>3, <1>4

\* The word that is due.
LEMMA DueFacts ==
  ASSUME NEW d \in Devices
  PROVE  LET w == Due(d)
         IN  /\ w \in Word /\ w.genuine
             /\ w.frame = d.frame /\ w.slot = SlotOf(d) /\ w.at = d.word_index
             /\ w.sync = IF d.word_index = 0 THEN SlotOf(d) + 1 ELSE 0
<1>1. d.frame \in Nat /\ d.word_index \in Nat /\ SlotOf(d) \in 0 .. 3
  <2>1. d.frame \in Nat /\ d.word_index \in 0 .. WPS - 1 /\ WPS \in Nat
    BY WpsAssumption DEF Devices
  <2>2. QED
    BY <2>1, SlotFacts DEF Slot
<1>2. (IF d.word_index = 0 THEN SlotOf(d) + 1 ELSE 0) \in 0 .. 4
  BY <1>1
<1>3. QED
  BY <1>1, <1>2 DEF Due, Word, Slot

\* A corrupted word remembers its place.
LEMMA CorruptionFacts ==
  ASSUME NEW w \in Word, NEW v \in Corruptions(w)
  PROVE  /\ v \in Word /\ ~v.genuine
         /\ v.frame = w.frame /\ v.slot = w.slot /\ v.at = w.at
<1>1. /\ w.frame \in Nat /\ w.slot \in Slot /\ w.at \in Nat
      /\ w = [sync |-> w.sync, frame |-> w.frame, slot |-> w.slot, at |-> w.at,
              genuine |-> w.genuine]
  BY DEF Word
<1>2. PICK s \in 0 .. 4 : v = [w EXCEPT !.sync = s, !.genuine = FALSE]
  BY DEF Corruptions
<1>3. v = [sync |-> s, frame |-> w.frame, slot |-> w.slot, at |-> w.at, genuine |-> FALSE]
  BY <1>1, <1>2
<1>4. QED
  BY <1>1, <1>3 DEF Word

\* What the device sends of a word d that is due, under the given faults.
Emits(d, w, lose, bad) ==
  /\ d \in Devices
  /\ d.frame = device.frame /\ d.subframe_index = device.subframe_index
  /\ d.word_index = device.word_index
  /\ d.word_index # 0 => d = device
  /\ device' = Advanced(d)
  /\ w \in Word /\ w.frame = d.frame /\ w.slot = SlotOf(d) /\ w.at = d.word_index
  /\ w.genuine => w = Due(d)
  /\ ~w.genuine => bad
  /\ wire' = IF lose \/ d.dropping THEN wire ELSE Append(wire, w)
  /\ hurt' = IF lose \/ bad THEN hurt \cup {<<d.frame, SlotOf(d)>>} ELSE hurt
  /\ calm' \in 0 .. RelockBound
  /\ calm' # 0 => /\ calm' <= calm + 1 /\ w = Due(d)
                  /\ ~lose /\ ~d.dropping /\ d.order = InOrder
  /\ arrivals' = <<>>
  /\ UNCHANGED <<restarts, sync, asm, syncState>>

\* What a step of the device does to the wire.
LEMMA EmitFacts ==
  ASSUME TypeOK, NEW drop \in BOOLEAN, NEW swap \in BOOLEAN, NEW lose \in BOOLEAN,
         NEW bad \in BOOLEAN, EmitNextWord(drop, swap, lose, bad)
  PROVE  \E d, w : Emits(d, w, lose, bad)
<1> DEFINE d == Begun(device, drop, swap)
           number == Cardinality({i \in 1 .. 4 : <<drop, swap, lose, bad>>[i]})
           slot == <<d.frame, SlotOf(d)>>
<1>0. device \in Devices /\ calm \in 0 .. RelockBound /\ RelockBound \in Nat
  BY WpsAssumption DEF TypeOK, RelockBound
<1>1. /\ d \in Devices
      /\ d.frame = device.frame /\ d.subframe_index = device.subframe_index
      /\ d.word_index = device.word_index
      /\ d.word_index # 0 => d = device
  BY <1>0, BegunFacts
<1>2. /\ device' = Advanced(d)
      /\ hurt' = IF lose \/ bad THEN hurt \cup {slot} ELSE hurt
      /\ calm' = IF number > 0 \/ d.dropping \/ d.order # InOrder THEN 0
                 ELSE IF calm < RelockBound THEN calm + 1 ELSE calm
      /\ arrivals' = <<>> /\ UNCHANGED <<restarts, sync, asm, syncState>>
  BY DEF EmitNextWord
<1>3. PICK w \in IF bad THEN Corruptions(Due(d)) ELSE {Due(d)} :
        wire' = IF lose \/ d.dropping THEN wire ELSE Append(wire, w)
  BY DEF EmitNextWord
<1>4. number \in Nat /\ (number = 0 => ~lose /\ ~bad)
  <2> DEFINE S == {i \in 1 .. 4 : <<drop, swap, lose, bad>>[i]}
  <2>1. IsFiniteSet(1 .. 4)
    <3>1. 1 \in Int /\ 4 \in Int
      OBVIOUS
    <3>2. \A a, b \in Int : IsFiniteSet(a .. b)
      BY FS_Interval
    <3>3. QED
      BY <3>1, <3>2
  <2>2. IsFiniteSet(S)
    BY <2>1, FS_Subset
  <2>3. number = Cardinality(S)
    OBVIOUS
  <2>4. (lose => 3 \in S) /\ (bad => 4 \in S)
    OBVIOUS
  <2> HIDE DEF S, number
  <2>5. Cardinality(S) \in Nat /\ (Cardinality(S) = 0 => S = {})
    BY <2>2, FS_CardinalityType, FS_EmptySet
  <2>6. QED
    BY <2>3, <2>4, <2>5
<1> HIDE DEF d, number
<1>5. Due(d) \in Word /\ Due(d).genuine /\ Due(d).frame = d.frame /\ Due(d).slot = SlotOf(d)
      /\ Due(d).at = d.word_index
  BY <1>1, DueFacts
<1>6. /\ w \in Word /\ w.frame = d.frame /\ w.slot = SlotOf(d) /\ w.at = d.word_index
      /\ w.genuine => w = Due(d)
      /\ ~w.genuine => bad
      /\ ~bad => w = Due(d)
  <2>1. CASE bad
    <3>1. w \in Corruptions(Due(d))
      BY <1>3, <2>1
    <3>2. QED
      BY <1>5, <2>1, <3>1, CorruptionFacts
  <2>2. CASE ~bad
    <3>1. w = Due(d)
      BY <1>3, <2>2
    <3>2. QED
      BY <1>5, <2>2, <3>1
  <2>3. QED
    BY <2>1, <2>2
<1>7. /\ calm' \in 0 .. RelockBound
      /\ calm' # 0 => calm' <= calm + 1 /\ number = 0 /\ ~d.dropping /\ d.order = InOrder
  BY <1>0, <1>2, <1>4
<1>8. Emits(d, w, lose, bad)
  BY <1>1, <1>2, <1>3, <1>4, <1>6, <1>7 DEF Emits
<1>9. QED
  BY <1>8

\* The words of a read and the words that stay on the wire.
LEMMA ReadFacts ==
  ASSUME NEW W, NEW s \in Seq(W), NEW n \in 0 .. Len(s)
  PROVE  /\ SubSeq(s, 1, n) \in Seq(W) /\ Len(SubSeq(s, 1, n)) = n
         /\ From(s, n + 1) \in Seq(W) /\ Len(From(s, n + 1)) = Len(s) - n
         /\ \A i \in 1 .. n : SubSeq(s, 1, n)[i] = s[i]
         /\ \A i \in 1 .. Len(s) - n : From(s, n + 1)[i] = s[n + i]
<1>1. Len(s) \in Nat
  BY Elements
<1>2. n + 1 \in 1 .. Len(s) + 1 /\ n \in 1 - 1 .. Len(s) /\ 1 \in 1 .. Len(s) + 1
  BY <1>1
<1>3. /\ SubSeq(s, 1, n) \in Seq(W) /\ Len(SubSeq(s, 1, n)) = n - 1 + 1
      /\ \A i \in 1 .. n - 1 + 1 : SubSeq(s, 1, n)[i] = s[1 + i - 1]
  BY <1>2, PieceFacts
<1>4. /\ From(s, n + 1) \in Seq(W) /\ Len(From(s, n + 1)) = Len(s) - (n + 1) + 1
      /\ \A i \in 1 .. Len(s) - (n + 1) + 1 : From(s, n + 1)[i] = s[n + 1 + i - 1]
  BY <1>2, FromFacts
<1>5. /\ n - 1 + 1 = n /\ Len(s) - (n + 1) + 1 = Len(s) - n
      /\ \A i \in 1 .. Len(s) : 1 + i - 1 = i /\ n + 1 + i - 1 = n + i
  BY <1>1
<1>6. \A i \in 1 .. n : SubSeq(s, 1, n)[i] = s[i]
  BY <1>1, <1>3, <1>5
<1>7. \A i \in 1 .. Len(s) - n : From(s, n + 1)[i] = s[n + i]
  BY <1>1, <1>4, <1>5
<1>8. QED
  BY <1>3, <1>4, <1>5, <1>6, <1>7

-----------------------------------------------------------------------------
(* The assembler behind the synchronizer *)

\* The assembler has a slot for each subframe.
Slotted(a) == DOMAIN a.words = A!Slots

\* The arrivals of one subframe: it may close a frame first.
ArrivalsOf(arrs, closed, arr) == arrs = <<arr>> \/ arrs = <<closed, arr>>

\* The arrival of a subframe holds its words, in its slot; it is good only if
\* the synchronizer found it valid.
LEMMA StoreFacts ==
  ASSUME NEW W, NEW raw \in Raws(W), NEW a, Slotted(a), NEW in, NEW st, NEW closed,
         in.sf = raw.sf, in.payload = raw.words, st \in {"RECEIVED", "LATE"} => raw.valid
  PROVE  LET r == A!StoreResult(a, in, st, closed)
         IN  /\ Slotted(r.asm)
             /\ \E arr : /\ r.arrivals = Append(closed, arr)
                         /\ arr.subframe = raw.sf /\ arr.words[raw.sf] = raw.words
                         /\ Good(arr) => raw.valid
<1> DEFINE full == A!Filled(a, in, st)
           r    == A!StoreResult(a, in, st, closed)
           arr  == A!Arrival(full, in.sf, st, A!FrameDone(full))
<1>1. raw.sf \in 1 .. 4
  BY DEF Raws
<1>2. full.words = [a.words EXCEPT ![in.sf] = in.payload]
  BY DEF A!Filled, A!Assembler
<1>3. DOMAIN full.words = A!Slots /\ full.words[raw.sf] = raw.words
  BY <1>1, <1>2 DEF Slotted, A!Slots
<1> HIDE DEF full
<1>4. r.asm = A!Completed(full) /\ r.arrivals = Append(closed, arr)
  BY DEF A!StoreResult, full
<1>5. A!Completed(full).words = full.words
  BY DEF A!Completed, A!FreshAssembler, A!Assembler
<1>6. arr.subframe = raw.sf /\ arr.words = full.words /\ arr.state = st
  BY DEF A!Arrival
<1> HIDE DEF arr, r
<1>7. Slotted(r.asm)
  BY <1>3, <1>4, <1>5 DEF Slotted
<1>8. arr.words[raw.sf] = raw.words /\ (Good(arr) => raw.valid)
  BY <1>3, <1>6 DEF Good
<1>9. QED
  BY <1>4, <1>6, <1>7, <1>8 DEF r

\* The same of take(), which may close a frame first.
LEMMA TakeFacts ==
  ASSUME NEW W, NEW raw \in Raws(W), NEW a, Slotted(a)
  PROVE  LET r == A!Take(a, Input(raw))
         IN  /\ Slotted(r.asm)
             /\ \E arr : /\ ArrivalsOf(r.arrivals, A!ClosedArrival(a), arr)
                         /\ arr.subframe = raw.sf /\ arr.words[raw.sf] = raw.words
                         /\ Good(arr) => raw.valid
<1> DEFINE in == Input(raw)
           r  == A!Take(a, in)
           c  == A!ClosedArrival(a)
           st == A!ReceivedState(in)
           late == IF st = "RECEIVED" THEN "LATE" ELSE st
<1>1. /\ in.id = NoId /\ in.valid = raw.valid /\ in.damage = {} /\ in.sf = raw.sf
      /\ in.payload = raw.words
  BY DEF Input
<1>2. ~A!IdCloses(a, in.id) /\ A!Identified(a, in.id) = a
  BY <1>1 DEF A!IdCloses, A!Identified
<1>3. /\ st \in {"RECEIVED", "LATE"} => raw.valid
      /\ late \in {"RECEIVED", "LATE"} => raw.valid
  BY <1>1 DEF A!ReceivedState, Raws
<1> HIDE DEF in
<1>4. r = IF A!IsLate(a, in.sf) THEN A!StoreResult(A!Recovered(a), in, late, <<>>)
          ELSE IF A!Restarts(a, in.sf)
          THEN A!StoreResult(A!CloseIncomplete(a), in, st, Append(<<>>, c))
          ELSE A!StoreResult(A!SkippedTo(a, in.sf), in, st, <<>>)
  BY <1>2 DEF A!Take
<1>5. A!Recovered(a).words = a.words /\ A!CloseIncomplete(a).words = a.words
      /\ A!SkippedTo(a, in.sf).words = a.words
  BY DEF A!Recovered, A!CloseIncomplete, A!SkippedTo, A!FreshAssembler, A!Assembler
<1>6. Slotted(A!Recovered(a)) /\ Slotted(A!CloseIncomplete(a)) /\ Slotted(A!SkippedTo(a, in.sf))
  BY <1>5 DEF Slotted
<1> HIDE DEF r, st, late, c
<1> DEFINE Stored(closed) == /\ Slotted(r.asm)
                             /\ \E arr : /\ r.arrivals = Append(closed, arr)
                                         /\ arr.subframe = raw.sf /\ arr.words[raw.sf] = raw.words
                                         /\ Good(arr) => raw.valid
<1>7. Stored(<<>>) \/ Stored(<<c>>)
  <2>1. CASE A!IsLate(a, in.sf)
    <3>1. r = A!StoreResult(A!Recovered(a), in, late, <<>>)
      BY <1>4, <2>1
    <3>2. Stored(<<>>)
      BY <1>1, <1>3, <1>6, <3>1, StoreFacts
    <3>3. QED
      BY <3>2
  <2>2. CASE ~A!IsLate(a, in.sf) /\ A!Restarts(a, in.sf)
    <3>1. r = A!StoreResult(A!CloseIncomplete(a), in, st, <<c>>)
      <4>1. Append(<<>>, c) = <<c>>
        OBVIOUS
      <4>2. QED
        BY <1>4, <2>2, <4>1
    <3>2. Stored(<<c>>)
      BY <1>1, <1>3, <1>6, <3>1, StoreFacts
    <3>3. QED
      BY <3>2
  <2>3. CASE ~A!IsLate(a, in.sf) /\ ~A!Restarts(a, in.sf)
    <3>1. r = A!StoreResult(A!SkippedTo(a, in.sf), in, st, <<>>)
      BY <1>4, <2>3
    <3>2. Stored(<<>>)
      BY <1>1, <1>3, <1>6, <3>1, StoreFacts
    <3>3. QED
      BY <3>2
  <2>4. QED
    BY <2>1, <2>2, <2>3
<1>8. \A arr : Append(<<>>, arr) = <<arr>> /\ Append(<<c>>, arr) = <<c, arr>>
  <2>1. ASSUME NEW arr PROVE Append(<<>>, arr) = <<arr>>
    OBVIOUS
  <2>2. ASSUME NEW arr PROVE Append(<<c>>, arr) = <<c, arr>>
    <3> DEFINE X == {c, arr}
    <3>1. <<c>> \in Seq(X) /\ <<c, arr>> \in Seq(X) /\ arr \in X
      OBVIOUS
    <3>2. /\ Len(<<c>>) = 1 /\ Len(<<c, arr>>) = 2 /\ <<c>>[1] = c
          /\ <<c, arr>>[1] = c /\ <<c, arr>>[2] = arr
      OBVIOUS
    <3> HIDE DEF X
    <3>3. /\ Append(<<c>>, arr) \in Seq(X) /\ Len(Append(<<c>>, arr)) = 2
          /\ Append(<<c>>, arr)[1] = c /\ Append(<<c>>, arr)[2] = arr
      BY <3>1, <3>2, AppendProperties
    <3>4. \A i \in 1 .. 2 : Append(<<c>>, arr)[i] = <<c, arr>>[i]
      <4>1. \A i \in 1 .. 2 : i = 1 \/ i = 2
        OBVIOUS
      <4>2. QED
        BY <3>2, <3>3, <4>1
    <3>5. QED
      BY <3>1, <3>2, <3>3, <3>4, SeqEqual
  <2>3. QED
    BY <2>1, <2>2
<1>9. /\ Slotted(r.asm)
      /\ \E arr : /\ ArrivalsOf(r.arrivals, c, arr)
                  /\ arr.subframe = raw.sf /\ arr.words[raw.sf] = raw.words
                  /\ Good(arr) => raw.valid
  BY <1>7, <1>8 DEF ArrivalsOf
<1>10. QED
  BY <1>9 DEF r, in, c

\* What deliver_subframe leaves behind after each of the subframes.
DeliverSteps(g, a, raws) ==
  /\ g[0] = [asm |-> a, arrivals |-> <<>>] /\ DeliverAll(a, raws) = g[Len(raws)]
  /\ \A n \in 1 .. Len(raws) :
       LET r == A!Take(g[n - 1].asm, Input(raws[n]))
       IN  g[n] = [asm |-> r.asm, arrivals |-> g[n - 1].arrivals \o r.arrivals]

\* The loop over the delivered subframes runs as DeliverSteps says.
LEMMA DeliverTurns ==
  ASSUME NEW a, NEW raws, Len(raws) \in Nat
  PROVE  \E g : DeliverSteps(g, a, raws)
<1> DEFINE Next1(p, raw) == LET r == A!Take(p.asm, Input(raw))
                            IN  [asm |-> r.asm, arrivals |-> p.arrivals \o r.arrivals]
           p0 == [asm |-> a, arrivals |-> <<>>]
           Is(g, m) == g = [n \in 0 .. m |-> IF n = 0 THEN p0 ELSE Next1(g[n - 1], raws[n])]
           T == {m \in Nat : \E g : Is(g, m)}
           g == CHOOSE f : Is(f, Len(raws))
<1>1. DeliverAll(a, raws) = g[Len(raws)]
  BY DEF DeliverAll
<1> HIDE DEF Next1, p0
<1>2. 0 \in T
  <2>1. Is([n \in 0 .. 0 |-> p0], 0)
    OBVIOUS
  <2>2. QED
    BY <2>1
<1>3. ASSUME NEW m \in Nat, m \in T PROVE m + 1 \in T
  <2>1. PICK f : Is(f, m)
    BY <1>3
  <2> DEFINE h == [n \in 0 .. m + 1 |-> IF n = m + 1 THEN Next1(f[m], raws[m + 1]) ELSE f[n]]
  <2>2. ASSUME NEW n \in 0 .. m + 1
        PROVE  h[n] = IF n = 0 THEN p0 ELSE Next1(h[n - 1], raws[n])
    <3>1. CASE n = m + 1
      <4>1. h[n - 1] = f[m] /\ n # 0
        BY <3>1
      <4>2. QED
        BY <3>1, <4>1
    <3>2. CASE n # m + 1
      <4>1. n \in 0 .. m /\ h[n] = f[n]
        BY <3>2
      <4>2. n # 0 => h[n - 1] = f[n - 1]
        BY <4>1
      <4>3. QED
        BY <2>1, <4>1, <4>2
    <3>3. QED
      BY <3>1, <3>2
  <2>3. Is(h, m + 1)
    <3>1. DOMAIN h = 0 .. m + 1 /\ h = [n \in 0 .. m + 1 |-> h[n]]
      OBVIOUS
    <3> HIDE DEF h
    <3>2. QED
      BY <2>2, <3>1
  <2> HIDE DEF Is
  <2>4. QED
    BY <2>3
<1> HIDE DEF T
<1>4. Nat \subseteq T
  BY <1>2, <1>3, SetInduction
<1>5. \E f : Is(f, Len(raws))
  BY <1>4 DEF T
<1>6. Is(g, Len(raws))
  BY <1>5
<1> HIDE DEF g
<1>7. \A n \in 0 .. Len(raws) : g[n] = IF n = 0 THEN p0 ELSE Next1(g[n - 1], raws[n])
  BY <1>6
<1>8. g[0] = p0 /\ \A n \in 1 .. Len(raws) : g[n] = Next1(g[n - 1], raws[n])
  BY <1>7
<1>9. DeliverSteps(g, a, raws)
  BY <1>1, <1>8 DEF DeliverSteps, p0, Next1
<1>10. QED
  BY <1>9

\* Every good arrival of a read comes from a subframe the synchronizer found
\* valid, and holds its words.
LEMMA DeliverFacts ==
  ASSUME NEW W, NEW raws \in Seq(Raws(W)), NEW a, Slotted(a)
  PROVE  LET d == DeliverAll(a, raws)
         IN  /\ Slotted(d.asm)
             /\ \A i \in DOMAIN d.arrivals :
                  Good(d.arrivals[i]) =>
                    \E n \in 1 .. Len(raws) :
                      /\ raws[n].valid /\ d.arrivals[i].subframe = raws[n].sf
                      /\ d.arrivals[i].words[raws[n].sf] = raws[n].words
<1>1. Len(raws) \in Nat /\ \A n \in 1 .. Len(raws) : raws[n] \in Raws(W)
  BY Elements
<1>2. PICK g : DeliverSteps(g, a, raws)
  BY <1>1, DeliverTurns
<1> DEFINE N == Len(raws)
           Take(n) == A!Take(g[n - 1].asm, Input(raws[n]))
           From1(x) == \E n \in 1 .. N :
                         /\ raws[n].valid /\ x.subframe = raws[n].sf
                         /\ x.words[raws[n].sf] = raws[n].words
           X == {x \in UNION {{Take(n).arrivals[1], Take(n).arrivals[2]} : n \in 1 .. N} :
                   Good(x) => From1(x)}
           U == {n \in Nat : n <= N => Slotted(g[n].asm) /\ g[n].arrivals \in Seq(X)}
<1> HIDE DEF From1
<1>3. 0 \in U
  <2> HIDE DEF X
  <2>1. g[0].asm = a /\ g[0].arrivals = <<>>
    BY <1>2 DEF DeliverSteps
  <2>2. <<>> \in Seq(X)
    BY EmptySeq
  <2>3. QED
    BY <2>1, <2>2
<1>4. ASSUME NEW n \in Nat, n \in U PROVE n + 1 \in U
  <2> SUFFICES ASSUME n + 1 <= N
               PROVE  Slotted(g[n + 1].asm) /\ g[n + 1].arrivals \in Seq(X)
    OBVIOUS
  <2>1. n + 1 \in 1 .. N /\ n + 1 - 1 = n /\ n <= N
    BY <1>1
  <2>2. Slotted(g[n].asm) /\ g[n].arrivals \in Seq(X)
    BY <1>4, <2>1
  <2> DEFINE raw == raws[n + 1]
             r == A!Take(g[n].asm, Input(raw))
             c == A!ClosedArrival(g[n].asm)
  <2>3. raw \in Raws(W) /\ raw.sf \in 1 .. 4
    BY <1>1, <2>1 DEF Raws
  <2>4. g[n + 1] = [asm |-> r.asm, arrivals |-> g[n].arrivals \o r.arrivals]
    <3> DEFINE m == n + 1
    <3>1. m \in 1 .. Len(raws) /\ m - 1 = n
      BY <2>1
    <3> HIDE DEF m
    <3>2. g[m] = [asm |-> A!Take(g[m - 1].asm, Input(raws[m])).asm,
                  arrivals |-> g[m - 1].arrivals \o A!Take(g[m - 1].asm, Input(raws[m])).arrivals]
      BY <1>2, <3>1 DEF DeliverSteps
    <3>3. QED
      BY <3>1, <3>2 DEF m
  <2>5. r = Take(n + 1)
    BY <2>1
  <2> HIDE DEF Take, X
  <2>6. PICK arr : /\ Slotted(r.asm) /\ ArrivalsOf(r.arrivals, c, arr)
                   /\ arr.subframe = raw.sf /\ arr.words[raw.sf] = raw.words
                   /\ Good(arr) => raw.valid
    BY <2>2, <2>3, TakeFacts
  <2>7. ~Good(c)
    BY DEF Good, A!ClosedArrival, A!Arrival
  <2>8. Good(arr) => From1(arr)
    BY <2>1, <2>6 DEF From1
  <2> HIDE DEF raw, r, c
  <2>9. r.arrivals \in Seq(X)
    <3>1. CASE r.arrivals = <<arr>>
      <4>1. r.arrivals[1] = arr
        BY <3>1
      <4>2. arr \in X
        BY <2>1, <2>5, <2>8, <4>1 DEF X
      <4>3. QED
        BY <3>1, <4>2
    <3>2. CASE r.arrivals = <<c, arr>>
      <4>1. r.arrivals[1] = c /\ r.arrivals[2] = arr
        BY <3>2
      <4>2. arr \in X /\ c \in X
        BY <2>1, <2>5, <2>7, <2>8, <4>1 DEF X
      <4>3. QED
        BY <3>2, <4>2
    <3>3. QED
      BY <2>6, <3>1, <3>2 DEF ArrivalsOf
  <2>10. g[n].arrivals \o r.arrivals \in Seq(X)
    BY <2>2, <2>9, JoinFacts
  <2>11. QED
    BY <2>4, <2>6, <2>10
<1> HIDE DEF U, X
<1>5. Nat \subseteq U
  BY <1>3, <1>4, SetInduction
<1>6. Slotted(g[N].asm) /\ g[N].arrivals \in Seq(X)
  BY <1>1, <1>5 DEF U
<1>7. DeliverAll(a, raws) = g[N]
  BY <1>2 DEF DeliverSteps
<1>8. \A i \in DOMAIN g[N].arrivals : g[N].arrivals[i] \in X
  BY <1>6, Elements
<1>9. \A i \in DOMAIN g[N].arrivals : Good(g[N].arrivals[i]) => From1(g[N].arrivals[i])
  BY <1>8 DEF X
<1>10. QED
  BY <1>6, <1>7, <1>9 DEF From1

-----------------------------------------------------------------------------
(* Types, and the state that is shown *)

\* The words of a read.
Read(n) == SubSeq(wire, 1, n)

\* The turn that a read of n words ends with.
Ending(n) == Settled(Opening(sync, Read(n)))

\* What a read leaves behind.
LEMMA ProcessFacts ==
  ASSUME TypeOK, NEW n \in 1 .. Len(wire), ProcessWords(n)
  PROVE  /\ n \in Nat /\ Len(wire) \in Nat
         /\ Read(n) \in Seq(Word) /\ Len(Read(n)) = n
         /\ wire' = From(wire, n + 1)
         /\ wire' \in Seq(Word) /\ Len(wire') = Len(wire) - n
         /\ Ending(n) \in Turns(Word) /\ Idle(Ending(n))
         /\ sync' \in Synchronizers(Word)
         /\ sync'.state = Ending(n).sync.state /\ sync'.expected = Ending(n).sync.expected
         /\ sync'.buffer = IF Ending(n).sync.state = Searching
                           THEN Trimmed(Ending(n).sync.buffer) ELSE Ending(n).sync.buffer
         /\ asm' = DeliverAll(asm, Ending(n).subframes).asm
         /\ arrivals' = DeliverAll(asm, Ending(n).subframes).arrivals
         /\ syncState' = IF Ending(n).lost THEN Searching
                         ELSE IF Ending(n).locked THEN Locked ELSE syncState
         /\ UNCHANGED <<device, faults, restarts, hurt, calm>>
<1> DEFINE r == Feed(sync, Read(n))
<1>1. wire \in Seq(Word) /\ sync \in Synchronizers(Word) /\ Len(wire) \in Nat
  BY Elements DEF TypeOK
<1>2. /\ n \in Nat /\ Read(n) \in Seq(Word) /\ Len(Read(n)) = n
      /\ From(wire, n + 1) \in Seq(Word) /\ Len(From(wire, n + 1)) = Len(wire) - n
  BY <1>1, ReadFacts DEF Read
<1>3. /\ Ending(n) \in Turns(Word) /\ Idle(Ending(n))
      /\ r.sync \in Synchronizers(Word)
      /\ r.sync.state = Ending(n).sync.state /\ r.sync.expected = Ending(n).sync.expected
      /\ r.sync.buffer = IF Ending(n).sync.state = Searching
                         THEN Trimmed(Ending(n).sync.buffer) ELSE Ending(n).sync.buffer
      /\ r.subframes = Ending(n).subframes /\ r.locked = Ending(n).locked
      /\ r.lost = Ending(n).lost
  BY <1>1, <1>2, WordsReadable, FeedFacts DEF Ending
<1>4. /\ wire' = From(wire, n + 1) /\ sync' = r.sync
      /\ asm' = DeliverAll(asm, r.subframes).asm
      /\ arrivals' = DeliverAll(asm, r.subframes).arrivals
      /\ syncState' = Shown(r)
      /\ UNCHANGED <<device, faults, restarts, hurt, calm>>
  BY DEF ProcessWords, Read
<1> HIDE DEF r
<1>5. QED
  BY <1>1, <1>2, <1>3, <1>4 DEF Shown

\* A start takes the link back to where it began, but for the device.
LEMMA RestartFacts ==
  ASSUME TypeOK, NEW n \in 0 .. Len(wire), Restart(n)
  PROVE  /\ n \in Nat /\ Len(wire) \in Nat
         /\ wire' = From(wire, n + 1)
         /\ wire' \in Seq(Word) /\ Len(wire') = Len(wire) - n
         /\ sync' = NewSynchronizer /\ sync' \in Synchronizers(Word)
         /\ Slotted(asm') /\ syncState' = Searching /\ arrivals' = <<>> /\ calm' = 0
         /\ UNCHANGED <<device, faults, hurt>>
<1>1. wire \in Seq(Word) /\ Len(wire) \in Nat
  BY Elements DEF TypeOK
<1>2. /\ n \in Nat /\ From(wire, n + 1) \in Seq(Word) /\ Len(From(wire, n + 1)) = Len(wire) - n
  BY <1>1, ReadFacts
<1>3. NewSynchronizer \in Synchronizers(Word)
  BY EmptySeq DEF NewSynchronizer, Synchronizers
<1>4. Slotted(A!ResetTo(asm, 0))
  BY DEF TypeOK, Slotted, A!ResetTo, A!FreshAssembler, A!Assembler
<1>5. QED
  BY <1>1, <1>2, <1>3, <1>4 DEF Restart

\* The initial state is of the types.
LEMMA InitType == Init => TypeOK
<1> SUFFICES ASSUME Init PROVE TypeOK
  OBVIOUS
<1>1. 0 \in 0 .. WPS - 1 /\ 0 \in 0 .. RelockBound
  BY WpsAssumption DEF RelockBound
<1>2. device \in Devices
  BY <1>1 DEF Init, Devices
<1>3. sync \in Synchronizers(Word) /\ wire \in Seq(Word)
  BY EmptySeq DEF Init, NewSynchronizer, Synchronizers
<1>4. DOMAIN asm.words = A!Slots
  BY DEF Init, A!NewAssembler, A!FreshAssembler, A!Assembler
<1>5. QED
  BY <1>1, <1>2, <1>3, <1>4 DEF Init, TypeOK

\* Every step keeps the types.
LEMMA NextType == TypeOK /\ [Next]_vars => TypeOK'
<1> SUFFICES ASSUME TypeOK, [Next]_vars PROVE TypeOK'
  OBVIOUS
<1>1. ASSUME NEW drop \in BOOLEAN, NEW swap \in BOOLEAN, NEW lose \in BOOLEAN,
             NEW bad \in BOOLEAN, EmitNextWord(drop, swap, lose, bad)
      PROVE  TypeOK'
  <2>1. PICK d, w : Emits(d, w, lose, bad)
    BY <1>1, EmitFacts
  <2>2. device' \in Devices
    BY <2>1, AdvancedFacts DEF Emits
  <2>3. wire' \in Seq(Word)
    BY <2>1, AppendProperties DEF Emits, TypeOK
  <2>4. hurt' \subseteq Nat \X Slot
    <3>1. d.frame \in Nat /\ SlotOf(d) \in Slot
      BY <2>1, SlotFacts DEF Emits, Devices
    <3>2. QED
      BY <2>1, <3>1 DEF Emits, TypeOK
  <2>5. QED
    BY <2>1, <2>2, <2>3, <2>4 DEF Emits, TypeOK
<1>2. ASSUME NEW n \in 1 .. Len(wire), ProcessWords(n) PROVE TypeOK'
  <2>1. Ending(n).subframes \in Seq(Raws(Word))
    BY <1>2, ProcessFacts, TurnFields
  <2>2. Slotted(asm')
    BY <1>2, <2>1, ProcessFacts, DeliverFacts DEF TypeOK, Slotted
  <2>3. syncState' \in {Searching, Locked}
    BY <1>2, ProcessFacts DEF TypeOK
  <2>4. wire' \in Seq(Word) /\ sync' \in Synchronizers(Word) /\ UNCHANGED <<device, hurt, calm>>
    BY <1>2, ProcessFacts
  <2>5. QED
    BY <2>2, <2>3, <2>4 DEF TypeOK, Slotted
<1>3. ASSUME NEW n \in 0 .. Len(wire), Restart(n) PROVE TypeOK'
  <2>1. 0 \in 0 .. RelockBound
    BY WpsAssumption DEF RelockBound
  <2>2. QED
    BY <1>3, <2>1, RestartFacts DEF TypeOK, Slotted
<1>4. CASE UNCHANGED vars
  BY <1>4 DEF vars, TypeOK
<1>5. QED
  BY <1>1, <1>2, <1>3, <1>4 DEF Next

\* In the course of a read a lock that was not lost since is a lock, and
\* without a lock or a loss the state has not changed.
LEMMA LockedAtLast ==
  ASSUME TypeOK, NEW n \in 1 .. Len(wire), ProcessWords(n)
  PROVE  /\ ~Ending(n).lost /\ Ending(n).locked => Ending(n).sync.state = Locked
         /\ ~Ending(n).lost /\ ~Ending(n).locked => Ending(n).sync.state = sync.state
<1> DEFINE T == {u \in Turns(Word) :
                   /\ ~u.lost /\ u.locked => u.sync.state = Locked
                   /\ ~u.lost /\ ~u.locked => u.sync.state = sync.state}
           t0 == Opening(sync, Read(n))
<1>1. sync \in Synchronizers(Word) /\ Read(n) \in Seq(Word)
  BY ProcessFacts DEF TypeOK
<1>2. t0 \in Turns(Word) /\ t0.sync.state = sync.state /\ ~t0.locked
  BY <1>1, OpeningFacts
<1>3. t0 \in T /\ Len(t0.sync.buffer) \in Nat
  BY <1>2, TurnFields
<1>4. ASSUME NEW u \in T PROVE Turn(u) \in T
  <2>1. u \in Turns(Word) /\ Turn(u) \in Turns(Word)
    BY WordsReadable, TurnCases
  <2>2. CASE Idle(u) /\ Turn(u) = u
    BY <2>2
  <2>3. CASE \E pos \in PairsAt(u.sync.buffer, WPS) : LocksAt(u, pos)
    <3>1. Turn(u).sync.state = Locked /\ Turn(u).locked
      BY <2>3 DEF LocksAt, TurnOf
    <3>2. QED
      BY <2>1, <3>1
  <2>4. CASE Loses(u)
    <3>1. Turn(u).lost
      BY <2>4 DEF Loses, TurnOf
    <3>2. QED
      BY <2>1, <3>1
  <2>5. CASE Takes(u)
    <3>1. /\ u.sync.state = Locked /\ Turn(u).sync.state = Locked
          /\ Turn(u).lost = u.lost /\ Turn(u).locked = u.locked
      BY <2>5 DEF Takes, TurnOf
    <3>2. QED
      BY <2>1, <3>1
  <2>6. QED
    BY <2>1, <2>2, <2>3, <2>4, <2>5, WordsReadable, TurnCases
<1> HIDE DEF T, t0
<1>5. Settled(t0) \in T
  BY <1>3, <1>4, SettledIn
<1>6. QED
  BY <1>5 DEF T, t0, Ending

\* For any number of words to a subframe and however the stream is cut into
\* reads, the state shown is LOCKED only of a synchronizer that is locked.
THEOREM LockShownIsReal == Spec => []ShownLockIsReal
<1> DEFINE Inv == TypeOK /\ ShownLockIsReal
<1>1. Init => Inv
  BY InitType DEF Init, ShownLockIsReal, Searching, Locked
<1>2. Inv /\ [Next]_vars => Inv'
  <2> SUFFICES ASSUME Inv, [Next]_vars PROVE ShownLockIsReal'
    BY NextType
  <2>1. ASSUME NEW drop \in BOOLEAN, NEW swap \in BOOLEAN, NEW lose \in BOOLEAN,
               NEW bad \in BOOLEAN, EmitNextWord(drop, swap, lose, bad)
        PROVE  ShownLockIsReal'
    BY <2>1 DEF EmitNextWord, ShownLockIsReal
  <2>2. ASSUME NEW n \in 1 .. Len(wire), ProcessWords(n) PROVE ShownLockIsReal'
    <3>1. /\ sync'.state = Ending(n).sync.state
          /\ syncState' = IF Ending(n).lost THEN Searching
                          ELSE IF Ending(n).locked THEN Locked ELSE syncState
      BY <2>2, ProcessFacts
    <3>2. QED
      BY <2>2, <3>1, LockedAtLast DEF ShownLockIsReal, Searching, Locked
  <2>3. ASSUME NEW n \in 0 .. Len(wire), Restart(n) PROVE ShownLockIsReal'
    BY <2>3 DEF Restart, ShownLockIsReal, Searching, Locked
  <2>4. CASE UNCHANGED vars
    BY <2>4 DEF vars, ShownLockIsReal
  <2>5. QED
    BY <2>1, <2>2, <2>3, <2>4 DEF Next
<1>3. Inv => ShownLockIsReal
  OBVIOUS
<1>4. QED
  BY <1>1, <1>2, <1>3, PTL DEF Spec

-----------------------------------------------------------------------------
(* The words of a read: where they come from and where they go *)

\* A subframe is a piece of the words v, and valid only under its sync word.
PieceOf(raw, v) ==
  \E p \in 1 .. Len(v) :
    /\ p + WPS - 1 <= Len(v)
    /\ raw.words = SubSeq(v, p, p + WPS - 1)
    /\ raw.valid => v[p].sync = raw.sf

\* The first words of the end of a sequence are a piece of it.
LEMMA EndPiece ==
  ASSUME NEW W, NEW v \in Seq(W), NEW u \in Seq(W), IsEnd(u, v), Len(u) >= WPS
  PROVE  \E p \in 1 .. Len(v) :
           /\ p + WPS - 1 <= Len(v) /\ u[1] = v[p]
           /\ SubSeq(u, 1, WPS) = SubSeq(v, p, p + WPS - 1)
<1> DEFINE p == Len(v) - Len(u) + 1
<1>1. WPS \in Nat \ {0} /\ Len(u) \in Nat /\ Len(v) \in Nat /\ Len(u) <= Len(v)
  BY WpsAssumption, Elements DEF IsEnd
<1>2. p \in 1 .. Len(v) /\ p + WPS - 1 <= Len(v)
  BY <1>1
<1>3. \A i \in 1 .. Len(u) : u[i] = v[Len(v) - Len(u) + i]
  BY DEF IsEnd
<1>4. \A i \in 1 .. Len(u) : u[i] = v[p + i - 1]
  <2> SUFFICES ASSUME NEW i \in 1 .. Len(u) PROVE u[i] = v[p + i - 1]
    OBVIOUS
  <2>1. p + i - 1 = Len(v) - Len(u) + i
    BY <1>1
  <2>2. QED
    BY <1>3, <2>1
<1> HIDE DEF p
<1>5. /\ SubSeq(v, p, p + WPS - 1) \in Seq(W) /\ Len(SubSeq(v, p, p + WPS - 1)) = WPS
      /\ \A i \in 1 .. WPS : SubSeq(v, p, p + WPS - 1)[i] = v[p + i - 1]
  <2> DEFINE q == p + WPS - 1
  <2>1. p \in 1 .. Len(v) + 1 /\ q \in p - 1 .. Len(v) /\ q - p + 1 = WPS
    BY <1>1, <1>2
  <2> HIDE DEF q
  <2>2. /\ SubSeq(v, p, q) \in Seq(W) /\ Len(SubSeq(v, p, q)) = q - p + 1
        /\ \A i \in 1 .. q - p + 1 : SubSeq(v, p, q)[i] = v[p + i - 1]
    BY <2>1, PieceFacts
  <2>3. QED
    BY <2>1, <2>2 DEF q
<1>6. /\ SubSeq(u, 1, WPS) \in Seq(W) /\ Len(SubSeq(u, 1, WPS)) = WPS
      /\ \A i \in 1 .. WPS : SubSeq(u, 1, WPS)[i] = u[i]
  <2>1. WPS \in 0 .. Len(u)
    BY <1>1
  <2>2. QED
    BY <2>1, ReadFacts
<1>7. \A i \in 1 .. WPS : SubSeq(u, 1, WPS)[i] = SubSeq(v, p, p + WPS - 1)[i]
  BY <1>1, <1>4, <1>5, <1>6
<1>8. SubSeq(u, 1, WPS) = SubSeq(v, p, p + WPS - 1)
  BY <1>5, <1>6, <1>7, SeqEqual
<1>9. u[1] = v[p]
  <2>1. 1 \in 1 .. Len(u) /\ p + 1 - 1 = p
    BY <1>1, <1>2
  <2>2. QED
    BY <1>4, <2>1
<1>10. QED
  BY <1>2, <1>8, <1>9

\* A turn leaves an end of its buffer, and delivers pieces of it.
LEMMA TurnWords ==
  ASSUME NEW W, Readable(W), NEW v \in Seq(W), NEW u \in Turns(W), IsEnd(u.sync.buffer, v),
         \A k \in 1 .. Len(u.subframes) : PieceOf(u.subframes[k], v)
  PROVE  /\ IsEnd(Turn(u).sync.buffer, v)
         /\ \A k \in 1 .. Len(Turn(u).subframes) : PieceOf(Turn(u).subframes[k], v)
<1> DEFINE buf == u.sync.buffer
           sf == u.sync.expected
           words == SubSeq(buf, 1, WPS)
<1>1. /\ WPS \in Nat \ {0} /\ Len(buf) \in Nat /\ buf \in Seq(W) /\ sf \in 1 .. 4
      /\ u.subframes \in Seq(Raws(W)) /\ Len(u.subframes) \in Nat
  BY WpsAssumption, TurnFields, Elements
<1>0. IsEnd(buf, v)
  OBVIOUS
<1>2. ASSUME NEW p \in 1 .. Len(buf) + 1, Turn(u).sync.buffer = From(buf, p)
      PROVE  IsEnd(Turn(u).sync.buffer, v)
  <2> HIDE DEF buf
  <2>1. From(buf, p) \in Seq(W) /\ IsEnd(From(buf, p), buf)
    BY <1>1, FromFacts, EndFrom
  <2>2. IsEnd(From(buf, p), v)
    BY <1>0, <1>1, <2>1, EndOfEnd
  <2>3. QED
    BY <1>2, <2>2
<1>3. ASSUME NEW valid \in BOOLEAN, Len(buf) >= WPS, valid => buf[1].sync = sf,
             Turn(u).subframes = Append(u.subframes, RawSubframe(sf, words, valid))
      PROVE  \A k \in 1 .. Len(Turn(u).subframes) : PieceOf(Turn(u).subframes[k], v)
  <2> DEFINE raw == RawSubframe(sf, words, valid)
  <2>1. raw.words = words /\ raw.valid = valid /\ raw.sf = sf
    BY DEF RawSubframe
  <2>2. PICK p \in 1 .. Len(v) : /\ p + WPS - 1 <= Len(v) /\ buf[1] = v[p]
                                 /\ words = SubSeq(v, p, p + WPS - 1)
    <3> HIDE DEF buf
    <3>1. QED
      BY <1>0, <1>1, <1>3, EndPiece
  <2>3. PieceOf(raw, v)
    <3> HIDE DEF raw
    <3>1. QED
      BY <1>3, <2>1, <2>2 DEF PieceOf
  <2>4. words \in Seq(W)
    <3>1. WPS \in 0 .. Len(buf)
      BY <1>1, <1>3
    <3>2. QED
      BY <1>1, <3>1, ReadFacts
  <2>5. raw \in Raws(W)
    BY <1>1, <2>4 DEF Raws, RawSubframe
  <2> HIDE DEF raw
  <2>6. /\ Len(Append(u.subframes, raw)) = Len(u.subframes) + 1
        /\ Append(u.subframes, raw)[Len(u.subframes) + 1] = raw
        /\ \A k \in 1 .. Len(u.subframes) : Append(u.subframes, raw)[k] = u.subframes[k]
    BY <1>1, <2>5, AppendProperties
  <2>7. Turn(u).subframes = Append(u.subframes, raw)
    BY <1>3 DEF raw
  <2>8. ASSUME NEW k \in 1 .. Len(u.subframes) + 1
        PROVE  PieceOf(Append(u.subframes, raw)[k], v)
    <3>1. k = Len(u.subframes) + 1 \/ k \in 1 .. Len(u.subframes)
      BY <1>1
    <3>2. QED
      BY <2>3, <2>6, <3>1
  <2>9. QED
    BY <2>6, <2>7, <2>8
<1>4. CASE Idle(u) /\ Turn(u) = u
  BY <1>4
<1>5. CASE \E pos \in PairsAt(buf, WPS) : LocksAt(u, pos)
  <2>1. PICK pos \in PairsAt(buf, WPS) : LocksAt(u, pos)
    BY <1>5
  <2>2. pos \in 1 .. Len(buf) + 1
    BY <1>1, <2>1, PairFacts
  <2>3. Turn(u).sync.buffer = From(buf, pos) /\ Turn(u).subframes = u.subframes
    BY <2>1 DEF LocksAt, TurnOf
  <2>4. QED
    BY <1>2, <2>2, <2>3
<1>6. CASE Loses(u)
  <2>1. /\ Len(buf) >= WPS /\ Turn(u).sync.buffer = From(buf, 2)
        /\ Turn(u).subframes = Append(u.subframes, RawSubframe(sf, words, FALSE))
    <3> DEFINE raws == Append(u.subframes, RawSubframe(sf, words, FALSE))
    <3>1. /\ Len(buf) >= WPS
          /\ Turn(u) = TurnOf(Searching, From(buf, 2), sf, raws, u.locked, TRUE)
      BY <1>6 DEF Loses
    <3> HIDE DEF raws, buf, sf
    <3>2. /\ Len(buf) >= WPS
          /\ Turn(u).sync.buffer = From(buf, 2) /\ Turn(u).subframes = raws
      BY <3>1 DEF TurnOf
    <3>3. QED
      BY <3>2 DEF raws
  <2>2. 2 \in 1 .. Len(buf) + 1
    BY <1>1, <2>1
  <2>3. IsEnd(Turn(u).sync.buffer, v)
    BY <1>2, <2>1, <2>2
  <2>4. QED
    BY <1>3, <2>1, <2>3
<1>7. CASE Takes(u)
  <2>1. /\ Len(buf) >= WPS /\ buf[1].sync = sf
        /\ Turn(u).sync.buffer = From(buf, WPS + 1)
        /\ Turn(u).subframes = Append(u.subframes, RawSubframe(sf, words, TRUE))
    <3> DEFINE raws == Append(u.subframes, RawSubframe(sf, words, TRUE))
    <3>1. /\ Len(buf) >= WPS /\ buf[1].sync = sf
          /\ Turn(u) = TurnOf(Locked, From(buf, WPS + 1), Successor(sf), raws, u.locked, u.lost)
      BY <1>7 DEF Takes
    <3> HIDE DEF raws, buf, sf
    <3>2. /\ Len(buf) >= WPS /\ buf[1].sync = sf
          /\ Turn(u).sync.buffer = From(buf, WPS + 1) /\ Turn(u).subframes = raws
      BY <3>1 DEF TurnOf
    <3>3. QED
      BY <3>2 DEF raws
  <2>2. WPS + 1 \in 1 .. Len(buf) + 1
    BY <1>1, <2>1
  <2>3. IsEnd(Turn(u).sync.buffer, v)
    BY <1>2, <2>1, <2>2
  <2>4. QED
    BY <1>3, <2>1, <2>3
<1>8. QED
  BY <1>4, <1>5, <1>6, <1>7, TurnCases

\* The words held and the words of a read, together.
Gathered(n) == sync.buffer \o Read(n)

\* Whatever turns a read takes, what stays in the buffer is an end of what
\* was gathered, and what is delivered are pieces of it.
LEMMA EndingWords ==
  ASSUME TypeOK, NEW n \in 1 .. Len(wire), ProcessWords(n)
  PROVE  /\ Gathered(n) \in Seq(Word)
         /\ IsEnd(Ending(n).sync.buffer, Gathered(n))
         /\ \A k \in 1 .. Len(Ending(n).subframes) :
              PieceOf(Ending(n).subframes[k], Gathered(n))
<1> DEFINE v == Gathered(n)
           T == {u \in Turns(Word) :
                   /\ IsEnd(u.sync.buffer, v)
                   /\ \A k \in 1 .. Len(u.subframes) : PieceOf(u.subframes[k], v)}
           t0 == Opening(sync, Read(n))
<1>1. sync \in Synchronizers(Word) /\ Read(n) \in Seq(Word) /\ sync.buffer \in Seq(Word)
  BY ProcessFacts DEF TypeOK, Synchronizers
<1>2. v \in Seq(Word)
  BY <1>1, JoinFacts DEF Gathered
<1>3. t0 \in Turns(Word) /\ t0.sync.buffer = v /\ t0.subframes = <<>>
  BY <1>1, OpeningFacts DEF Gathered
<1> HIDE DEF v
<1>4. t0 \in T /\ Len(t0.sync.buffer) \in Nat
  <2>1. Len(v) \in Nat /\ IsEnd(v, v)
    BY <1>2, Elements, EndOfItself
  <2>2. Len(<<>>) = 0 /\ \A k \in 1 .. 0 : FALSE
    OBVIOUS
  <2> HIDE DEF t0
  <2>3. QED
    BY <1>3, <2>1, <2>2
<1>5. \A u \in T : Turn(u) \in T
  BY <1>2, WordsReadable, TurnCases, TurnWords
<1> HIDE DEF T, t0
<1>6. Settled(t0) \in T
  BY <1>4, <1>5, SettledIn
<1>7. QED
  BY <1>2, <1>6 DEF T, t0, Ending, v

\* The words that were sent and are not taken yet.
Pipe == sync.buffer \o wire

\* An end of one part of a sequence gives an end of the whole.
LEMMA JoinEnd ==
  ASSUME NEW W, NEW u \in Seq(W), NEW v \in Seq(W), NEW w \in Seq(W), IsEnd(u, v)
  PROVE  IsEnd(u \o w, v \o w)
<1>1. /\ Len(u) \in Nat /\ Len(v) \in Nat /\ Len(w) \in Nat /\ Len(u) <= Len(v)
      /\ Len(u \o w) = Len(u) + Len(w) /\ Len(v \o w) = Len(v) + Len(w)
  BY Elements, JoinFacts DEF IsEnd
<1>2. ASSUME NEW i \in 1 .. Len(u) + Len(w)
      PROVE  (u \o w)[i] = (v \o w)[Len(v) - Len(u) + i]
  <2>1. CASE i \in 1 .. Len(u)
    <3> DEFINE j == Len(v) - Len(u) + i
    <3>1. j \in 1 .. Len(v)
      BY <1>1, <2>1
    <3>2. u[i] = v[j]
      BY <2>1 DEF IsEnd
    <3> HIDE DEF j
    <3>3. (u \o w)[i] = u[i] /\ (v \o w)[j] = v[j]
      BY <2>1, <3>1, JoinFacts
    <3>4. QED
      BY <3>2, <3>3 DEF j
  <2>2. CASE i \notin 1 .. Len(u)
    <3> DEFINE k == i - Len(u)
    <3>1. k \in 1 .. Len(w) /\ Len(u) + k = i /\ Len(v) + k = Len(v) - Len(u) + i
      BY <1>1, <2>2
    <3> HIDE DEF k
    <3>2. (u \o w)[Len(u) + k] = w[k] /\ (v \o w)[Len(v) + k] = w[k]
      BY <3>1, JoinFacts
    <3>3. QED
      BY <3>1, <3>2
  <2>3. QED
    BY <2>1, <2>2
<1>3. Len(v \o w) - Len(u \o w) = Len(v) - Len(u)
  BY <1>1
<1>4. QED
  BY <1>1, <1>2, <1>3 DEF IsEnd

\* What stays of a sequence after a cut is its end.
LEMMA CutJoins ==
  ASSUME NEW W, NEW b \in Seq(W), NEW s \in Seq(W), NEW n \in 0 .. Len(s)
  PROVE  (b \o SubSeq(s, 1, n)) \o From(s, n + 1) = b \o s
<1> DEFINE x == SubSeq(s, 1, n)
           y == From(s, n + 1)
           left == (b \o x) \o y
           right == b \o s
<1>1. /\ Len(b) \in Nat /\ Len(s) \in Nat /\ n \in Nat
      /\ x \in Seq(W) /\ Len(x) = n /\ y \in Seq(W) /\ Len(y) = Len(s) - n
      /\ \A i \in 1 .. n : x[i] = s[i]
      /\ \A i \in 1 .. Len(s) - n : y[i] = s[n + i]
  BY Elements, ReadFacts
<1> HIDE DEF x, y
<1>2. /\ b \o x \in Seq(W) /\ Len(b \o x) = Len(b) + n
      /\ \A i \in 1 .. Len(b) : (b \o x)[i] = b[i]
      /\ \A i \in 1 .. n : (b \o x)[Len(b) + i] = x[i]
  <2>1. /\ b \o x \in Seq(W) /\ Len(b \o x) = Len(b) + Len(x)
        /\ \A i \in 1 .. Len(b) : (b \o x)[i] = b[i]
        /\ \A i \in 1 .. Len(x) : (b \o x)[Len(b) + i] = x[i]
    <3>1. x \in Seq(W)
      BY <1>1
    <3>2. QED
      BY <3>1, JoinFacts
  <2>2. QED
    BY <1>1, <2>1
<1>3. /\ left \in Seq(W) /\ Len(left) = Len(b) + n + (Len(s) - n)
      /\ \A i \in 1 .. Len(b) + n : left[i] = (b \o x)[i]
      /\ \A i \in 1 .. Len(s) - n : left[Len(b) + n + i] = y[i]
  <2> DEFINE z == b \o x
  <2>1. z \in Seq(W)
    BY <1>2
  <2>2. left = z \o y
    OBVIOUS
  <2>3. Len(z) = Len(b) + n
    BY <1>2
  <2> HIDE DEF z, left
  <2>4. /\ left \in Seq(W) /\ Len(left) = Len(z) + Len(y)
        /\ \A i \in 1 .. Len(z) : left[i] = z[i]
        /\ \A i \in 1 .. Len(y) : left[Len(z) + i] = y[i]
    <3>1. y \in Seq(W)
      BY <1>1
    <3>2. QED
      BY <3>1, <2>1, <2>2, JoinFacts
  <2>5. QED
    BY <1>1, <2>3, <2>4 DEF z
<1>4. /\ right \in Seq(W) /\ Len(right) = Len(b) + Len(s)
      /\ \A i \in 1 .. Len(b) : right[i] = b[i]
      /\ \A i \in 1 .. Len(s) : right[Len(b) + i] = s[i]
  BY JoinFacts
<1> HIDE DEF left, right
<1>5. ASSUME NEW i \in 1 .. Len(b) + Len(s) PROVE left[i] = right[i]
  <2>1. CASE i <= Len(b)
    <3>1. i \in 1 .. Len(b) /\ i \in 1 .. Len(b) + n
      BY <1>1, <2>1
    <3>2. QED
      BY <1>2, <1>3, <1>4, <3>1
  <2>2. CASE Len(b) < i /\ i <= Len(b) + n
    <3> DEFINE k == i - Len(b)
    <3>1. k \in 1 .. n /\ k \in 1 .. Len(s) /\ Len(b) + k = i /\ i \in 1 .. Len(b) + n
      BY <1>1, <2>2
    <3> HIDE DEF k
    <3>2. left[i] = x[k]
      BY <1>2, <1>3, <3>1
    <3>3. right[i] = s[k]
      BY <1>4, <3>1
    <3>4. QED
      BY <1>1, <3>1, <3>2, <3>3
  <2>3. CASE Len(b) + n < i
    <3> DEFINE k == i - (Len(b) + n)
    <3>1. /\ k \in 1 .. Len(s) - n /\ n + k \in 1 .. Len(s)
          /\ Len(b) + n + k = i /\ Len(b) + (n + k) = i
      BY <1>1, <2>3
    <3> HIDE DEF k
    <3>2. left[i] = y[k]
      BY <1>3, <3>1
    <3>3. right[i] = s[n + k]
      BY <1>4, <3>1
    <3>4. QED
      BY <1>1, <3>1, <3>2, <3>3
  <2>4. QED
    BY <1>1, <2>1, <2>2, <2>3
<1>6. Len(left) = Len(right)
  BY <1>1, <1>3, <1>4
<1>7. left = right
  BY <1>3, <1>4, <1>5, <1>6, SeqEqual
<1>8. QED
  BY <1>7 DEF left, right, x, y

\* A read takes words from the head of the pipe.
LEMMA PipeAfterRead ==
  ASSUME TypeOK, NEW n \in 1 .. Len(wire), ProcessWords(n)
  PROVE  /\ Pipe \in Seq(Word) /\ Pipe' \in Seq(Word) /\ IsEnd(Pipe', Pipe)
         /\ Pipe = Gathered(n) \o wire'
<1>1. /\ sync \in Synchronizers(Word) /\ sync.buffer \in Seq(Word) /\ wire \in Seq(Word)
      /\ Len(wire) \in Nat
  BY Elements DEF TypeOK, Synchronizers
<1>2. /\ wire' = From(wire, n + 1) /\ wire' \in Seq(Word)
      /\ sync' \in Synchronizers(Word) /\ sync'.buffer \in Seq(Word)
      /\ Ending(n).sync.buffer \in Seq(Word)
      /\ sync'.buffer = IF Ending(n).sync.state = Searching
                        THEN Trimmed(Ending(n).sync.buffer) ELSE Ending(n).sync.buffer
  BY ProcessFacts, TurnFields DEF Synchronizers
<1>3. Gathered(n) \in Seq(Word) /\ IsEnd(Ending(n).sync.buffer, Gathered(n))
  BY EndingWords
<1>4. IsEnd(sync'.buffer, Gathered(n))
  <2>1. IsEnd(sync'.buffer, Ending(n).sync.buffer)
    BY <1>2, TrimmedFacts, EndOfItself
  <2>2. QED
    BY <1>2, <1>3, <2>1, EndOfEnd
<1>5. Pipe = Gathered(n) \o wire'
  <2>1. n \in 0 .. Len(wire)
    BY <1>1
  <2>2. QED
    BY <1>1, <1>2, <2>1, CutJoins DEF Pipe, Gathered, Read
<1>6. Pipe' = sync'.buffer \o wire'
  BY DEF Pipe
<1>7. Pipe \in Seq(Word) /\ Pipe' \in Seq(Word)
  BY <1>1, <1>2, <1>6, JoinFacts DEF Pipe
<1>8. QED
  BY <1>2, <1>3, <1>4, <1>5, <1>6, <1>7, JoinEnd

\* So does a start.
LEMMA PipeAfterRestart ==
  ASSUME TypeOK, NEW n \in 0 .. Len(wire), Restart(n)
  PROVE  Pipe \in Seq(Word) /\ Pipe' \in Seq(Word) /\ IsEnd(Pipe', Pipe)
<1>1. /\ sync.buffer \in Seq(Word) /\ wire \in Seq(Word) /\ Len(wire) \in Nat
  BY Elements DEF TypeOK, Synchronizers
<1>2. wire' = From(wire, n + 1) /\ wire' \in Seq(Word) /\ sync' = NewSynchronizer
  BY RestartFacts
<1>3. Pipe' = wire'
  <2>1. Pipe' = <<>> \o wire'
    BY <1>2 DEF Pipe, NewSynchronizer
  <2>2. QED
    BY <1>2, <2>1, ConcatEmptySeq
<1>4. IsEnd(wire', wire)
  <2>1. n + 1 \in 1 .. Len(wire) + 1
    BY <1>1
  <2>2. QED
    BY <1>1, <1>2, <2>1, EndFrom
<1>5. IsEnd(wire, Pipe)
  <2>1. /\ Len(sync.buffer) \in Nat /\ Len(Pipe) = Len(sync.buffer) + Len(wire)
        /\ \A i \in 1 .. Len(wire) : Pipe[Len(sync.buffer) + i] = wire[i]
    BY <1>1, JoinFacts, Elements DEF Pipe
  <2>2. Len(Pipe) - Len(wire) = Len(sync.buffer)
    BY <1>1, <2>1
  <2>3. QED
    BY <1>1, <2>1, <2>2 DEF IsEnd
<1>6. Pipe \in Seq(Word)
  BY <1>1, JoinFacts DEF Pipe
<1>7. QED
  BY <1>1, <1>2, <1>3, <1>4, <1>5, <1>6, EndOfEnd

\* A word goes in at the far end.
LEMMA PipeAfterEmit ==
  ASSUME TypeOK, NEW d, NEW w, NEW lose \in BOOLEAN, NEW bad \in BOOLEAN, Emits(d, w, lose, bad)
  PROVE  /\ Pipe \in Seq(Word) /\ Pipe' \in Seq(Word)
         /\ lose \/ d.dropping => Pipe' = Pipe
         /\ ~(lose \/ d.dropping) => Pipe' = Append(Pipe, w)
<1>1. sync.buffer \in Seq(Word) /\ wire \in Seq(Word) /\ w \in Word
  BY DEF TypeOK, Synchronizers, Emits
<1>2. sync' = sync /\ wire' = IF lose \/ d.dropping THEN wire ELSE Append(wire, w)
  BY DEF Emits
<1>3. Pipe \in Seq(Word)
  BY <1>1, JoinFacts DEF Pipe
<1>4. CASE lose \/ d.dropping
  BY <1>2, <1>3, <1>4 DEF Pipe
<1>5. CASE ~(lose \/ d.dropping)
  <2>1. Pipe' = sync.buffer \o Append(wire, w)
    BY <1>2, <1>5 DEF Pipe
  <2>2. <<w>> \in Seq(Word) /\ Append(wire, w) = wire \o <<w>> /\ Append(Pipe, w) = Pipe \o <<w>>
    <3>1. <<w>> \in Seq(Word)
      BY <1>1
    <3>2. Append(wire, w) = wire \o <<w>>
      BY <1>1, AppendIsConcat
    <3>3. Append(Pipe, w) = Pipe \o <<w>>
      BY <1>1, <1>3, AppendIsConcat
    <3>4. QED
      BY <3>1, <3>2, <3>3
  <2>3. Pipe' = Append(Pipe, w)
    <3>1. (sync.buffer \o wire) \o <<w>> = sync.buffer \o (wire \o <<w>>)
      <4> DEFINE b == sync.buffer
                 x == <<w>>
      <4>1. b \in Seq(Word) /\ wire \in Seq(Word) /\ x \in Seq(Word)
        BY <1>1, <2>2
      <4> HIDE DEF b, x
      <4>2. (b \o wire) \o x = b \o (wire \o x)
        BY <4>1, ConcatAssociative
      <4>3. QED
        BY <4>2 DEF b, x
    <3>2. QED
      BY <2>1, <2>2, <3>1 DEF Pipe
  <2>4. QED
    BY <1>1, <1>3, <1>5, <2>3, AppendProperties
<1>6. QED
  BY <1>4, <1>5

-----------------------------------------------------------------------------
(* A fault harms no more than it touches *)

\* The subframe a word was generated for.
Home(w) == <<w.frame, w.slot>>

\* An undamaged word looks like a sync word exactly if it is one; the
\* subframe of a damaged one is known to be hurt.
HonestWords(q, h) ==
  \A i \in 1 .. Len(q) :
    /\ q[i].at \in 0 .. WPS - 1
    /\ q[i].genuine => q[i].sync = IF q[i].at = 0 THEN q[i].slot + 1 ELSE 0
    /\ ~q[i].genuine => Home(q[i]) \in h

\* Within a subframe that is not hurt no word is missing ...
UnbrokenWords(q, h) ==
  \A i \in 1 .. Len(q) - 1 :
    q[i].at < WPS - 1 /\ Home(q[i]) \notin h =>
      Home(q[i + 1]) = Home(q[i]) /\ q[i + 1].at = q[i].at + 1

\* ... and the device is about to send the next one.
UnbrokenEnd(q, d, h) ==
  LET w == q[Len(q)]
  IN  Len(q) # 0 /\ w.at < WPS - 1 /\ Home(w) \notin h =>
        /\ Home(w) = <<d.frame, SlotOf(d)>>
        /\ d.word_index = w.at + 1 /\ ~d.dropping

PipeOK(q, d, h) == HonestWords(q, h) /\ UnbrokenWords(q, h) /\ UnbrokenEnd(q, d, h)

\* What holds of the pipe holds of its end.
LEMMA PipeEnd ==
  ASSUME NEW W, NEW q \in Seq(W), NEW u \in Seq(W), IsEnd(u, q), NEW d, NEW h, PipeOK(q, d, h)
  PROVE  PipeOK(u, d, h)
<1> DEFINE gap == Len(q) - Len(u)
<1>1. Len(u) \in Nat /\ Len(q) \in Nat /\ gap \in Nat
  BY Elements DEF IsEnd
<1>2. \A i \in 1 .. Len(u) : u[i] = q[gap + i] /\ gap + i \in 1 .. Len(q)
  BY <1>1 DEF IsEnd
<1>3. \A i \in 1 .. Len(u) - 1 : /\ i \in 1 .. Len(u) /\ i + 1 \in 1 .. Len(u)
                                 /\ gap + i \in 1 .. Len(q) - 1 /\ gap + (i + 1) = gap + i + 1
  BY <1>1
<1>4. Len(u) # 0 => Len(u) \in 1 .. Len(u) /\ gap + Len(u) = Len(q)
  BY <1>1
<1> HIDE DEF gap
<1>5. HonestWords(u, h)
  BY <1>2 DEF PipeOK, HonestWords
<1>6. UnbrokenWords(u, h)
  <2> SUFFICES ASSUME NEW i \in 1 .. Len(u) - 1
               PROVE  u[i].at < WPS - 1 /\ Home(u[i]) \notin h =>
                        Home(u[i + 1]) = Home(u[i]) /\ u[i + 1].at = u[i].at + 1
    BY DEF UnbrokenWords
  <2>1. u[i] = q[gap + i] /\ u[i + 1] = q[gap + i + 1] /\ gap + i \in 1 .. Len(q) - 1
    BY <1>2, <1>3
  <2>2. QED
    BY <2>1 DEF PipeOK, UnbrokenWords
<1>7. UnbrokenEnd(u, d, h)
  <2>1. Len(u) # 0 => u[Len(u)] = q[Len(q)] /\ Len(q) # 0
    BY <1>1, <1>2, <1>4
  <2>2. QED
    BY <2>1 DEF PipeOK, UnbrokenEnd
<1>8. QED
  BY <1>5, <1>6, <1>7 DEF PipeOK

\* A word more, or one lost, keeps the pipe in order.
LEMMA EmitKeepsPipe ==
  ASSUME TypeOK, NEW d, NEW w, NEW lose \in BOOLEAN, NEW bad \in BOOLEAN,
         Emits(d, w, lose, bad), PipeOK(Pipe, device, hurt)
  PROVE  PipeOK(Pipe, device, hurt)'
<1> DEFINE q  == Pipe
           q1 == Pipe'
           n  == Len(q)
           a  == Advanced(d)
<1>1. /\ WPS \in Nat \ {0} /\ q \in Seq(Word) /\ n \in Nat
      /\ \A i \in 1 .. n : q[i] \in Word
  <2>1. q \in Seq(Word)
    BY PipeAfterEmit
  <2> HIDE DEF q
  <2>2. QED
    BY <2>1, WpsAssumption, Elements
<1>2. /\ d \in Devices /\ d.word_index \in 0 .. WPS - 1
      /\ d.frame = device.frame /\ (d.word_index # 0 => d = device)
      /\ d.word_index = device.word_index /\ device' = a
      /\ w \in Word /\ Home(w) = <<d.frame, SlotOf(d)>> /\ w.at = d.word_index
      /\ (w.genuine => w = Due(d)) /\ (~w.genuine => bad)
      /\ hurt' = IF lose \/ bad THEN hurt \cup {<<d.frame, SlotOf(d)>>} ELSE hurt
  BY DEF Emits, Home, Devices
<1>3. hurt \subseteq hurt'
  BY <1>2
<1>4. /\ HonestWords(q, hurt) /\ UnbrokenWords(q, hurt) /\ UnbrokenEnd(q, device, hurt)
  BY DEF PipeOK
\* The last word of the pipe, if its subframe goes on.
<1>5. n # 0 /\ q[n].at < WPS - 1 /\ Home(q[n]) \notin hurt' =>
        /\ d = device /\ Home(q[n]) = <<d.frame, SlotOf(d)>>
        /\ d.word_index = q[n].at + 1 /\ ~d.dropping /\ ~lose
  <2> SUFFICES ASSUME n # 0, q[n].at < WPS - 1, Home(q[n]) \notin hurt'
               PROVE  /\ d = device /\ Home(q[n]) = <<d.frame, SlotOf(d)>>
                      /\ d.word_index = q[n].at + 1 /\ ~d.dropping /\ ~lose
    OBVIOUS
  <2>1. /\ Home(q[n]) = <<device.frame, SlotOf(device)>>
        /\ device.word_index = q[n].at + 1 /\ ~device.dropping
    BY <1>3, <1>4 DEF UnbrokenEnd
  <2>2. q[n].at \in Nat
    BY <1>1 DEF Word
  <2>3. d.word_index # 0
    BY <1>2, <2>1, <2>2
  <2>4. d = device
    BY <1>2, <2>3
  <2>5. ~lose
    BY <1>2, <2>1, <2>4
  <2>6. QED
    BY <2>1, <2>4, <2>5
<1>6. HonestWords(q, hurt') /\ UnbrokenWords(q, hurt')
  BY <1>3, <1>4 DEF HonestWords, UnbrokenWords
<1>7. CASE lose \/ d.dropping
  <2>1. q1 = q
    BY <1>7, PipeAfterEmit
  <2>2. UnbrokenEnd(q, device', hurt')
    BY <1>5, <1>7 DEF UnbrokenEnd
  <2>3. QED
    BY <1>6, <2>1, <2>2 DEF PipeOK
<1>8. CASE ~(lose \/ d.dropping)
  <2>1. q1 = Append(q, w)
    BY <1>8, PipeAfterEmit
  <2> HIDE DEF q, q1
  <2>2. /\ Len(q1) = n + 1 /\ q1[n + 1] = w /\ \A i \in 1 .. n : q1[i] = q[i]
    BY <1>1, <1>2, <2>1, AppendProperties
  <2> HIDE DEF n
  <2>3. HonestWords(q1, hurt')
    <3>1. /\ w.at \in 0 .. WPS - 1
          /\ w.genuine => w.sync = IF w.at = 0 THEN w.slot + 1 ELSE 0
          /\ ~w.genuine => Home(w) \in hurt'
      <4>1. w.genuine => w.sync = IF w.at = 0 THEN w.slot + 1 ELSE 0
        BY <1>2, DueFacts
      <4>2. ~w.genuine => Home(w) \in hurt'
        BY <1>2
      <4>3. QED
        BY <1>2, <4>1, <4>2
    <3>2. \A i \in 1 .. n + 1 : i = n + 1 \/ i \in 1 .. n
      BY <1>1
    <3>3. \A i \in 1 .. n : /\ q[i].at \in 0 .. WPS - 1
                            /\ q[i].genuine => q[i].sync = IF q[i].at = 0 THEN q[i].slot + 1 ELSE 0
                            /\ ~q[i].genuine => Home(q[i]) \in hurt'
      BY <1>6 DEF HonestWords, n
    <3> SUFFICES ASSUME NEW i \in 1 .. n + 1
                 PROVE  /\ q1[i].at \in 0 .. WPS - 1
                        /\ q1[i].genuine => q1[i].sync = IF q1[i].at = 0 THEN q1[i].slot + 1 ELSE 0
                        /\ ~q1[i].genuine => Home(q1[i]) \in hurt'
      BY <2>2 DEF HonestWords
    <3>4. CASE i = n + 1
      BY <2>2, <3>1, <3>4
    <3>5. CASE i \in 1 .. n
      <4>1. q1[i] = q[i]
        BY <2>2, <3>5
      <4>2. QED
        BY <3>3, <3>5, <4>1
    <3>6. QED
      BY <3>2, <3>4, <3>5
  <2>4. UnbrokenWords(q1, hurt')
    <3> SUFFICES ASSUME NEW i \in 1 .. n, q1[i].at < WPS - 1, Home(q1[i]) \notin hurt'
                 PROVE  Home(q1[i + 1]) = Home(q1[i]) /\ q1[i + 1].at = q1[i].at + 1
      <4>1. Len(q1) - 1 = n
        BY <1>1, <2>2
      <4>2. QED
        BY <4>1 DEF UnbrokenWords
    <3>1. q1[i] = q[i]
      BY <2>2
    <3>2. CASE i = n
      <4>1. n # 0 /\ q1[i + 1] = w
        BY <1>1, <2>2, <3>2
      <4>2. QED
        BY <1>2, <1>5, <3>1, <3>2, <4>1
    <3>3. CASE i # n
      <4>1. i \in 1 .. n - 1 /\ i + 1 \in 1 .. n
        BY <1>1, <3>3
      <4>2. q1[i + 1] = q[i + 1]
        BY <2>2, <4>1
      <4>3. QED
        BY <1>6, <3>1, <4>1, <4>2 DEF UnbrokenWords, n
    <3>4. QED
      BY <3>2, <3>3
  <2>5. UnbrokenEnd(q1, device', hurt')
    <3>1. q1[Len(q1)] = w
      BY <2>2
    <3>2. ASSUME w.at < WPS - 1
          PROVE  /\ Home(w) = <<a.frame, SlotOf(a)>>
                 /\ a.word_index = w.at + 1 /\ ~a.dropping
      <4>1. d.word_index + 1 < WPS
        BY <1>1, <1>2, <3>2
      <4>2. /\ a.word_index = d.word_index + 1 /\ a.frame = d.frame
            /\ a.subframe_index = d.subframe_index /\ a.dropping = d.dropping /\ a.order = d.order
        BY <1>2, <4>1, AdvancedFacts
      <4>3. SlotOf(a) = SlotOf(d)
        BY <4>2 DEF SlotOf
      <4>4. QED
        BY <1>2, <1>8, <4>2, <4>3
    <3>3. QED
      BY <1>2, <3>1, <3>2 DEF UnbrokenEnd
  <2>6. QED
    BY <2>3, <2>4, <2>5 DEF PipeOK, q1
<1>9. QED
  BY <1>7, <1>8

\* A piece of the pipe that begins with a sync word and holds nothing of a
\* hurt subframe is one subframe, from its first word to its last.
LEMMA PieceIsSent ==
  ASSUME NEW v \in Seq(Word), HonestWords(v, hurt), UnbrokenWords(v, hurt),
         NEW p \in 1 .. Len(v), p + WPS - 1 <= Len(v), v[p].sync \in 1 .. 4,
         ~Touched(SubSeq(v, p, p + WPS - 1))
  PROVE  LET words == SubSeq(v, p, p + WPS - 1)
         IN  Sent(words, words[1].frame, v[p].sync - 1)
<1> DEFINE words == SubSeq(v, p, p + WPS - 1)
           U == {n \in Nat : n < WPS =>
                   Home(v[p + n]) = <<v[p].frame, v[p].sync - 1>> /\ v[p + n].at = n}
<1>1. WPS \in Nat \ {0} /\ Len(v) \in Nat /\ \A i \in 1 .. Len(v) : v[i] \in Word
  BY WpsAssumption, Elements
<1>2. /\ words \in Seq(Word) /\ Len(words) = WPS /\ DOMAIN words = 1 .. WPS
      /\ \A i \in 1 .. WPS : words[i] = v[p + i - 1]
  <2> DEFINE q == p + WPS - 1
  <2>1. p \in 1 .. Len(v) + 1 /\ q \in p - 1 .. Len(v) /\ q - p + 1 = WPS
    BY <1>1
  <2> HIDE DEF q
  <2>2. /\ SubSeq(v, p, q) \in Seq(Word) /\ Len(SubSeq(v, p, q)) = q - p + 1
        /\ \A i \in 1 .. q - p + 1 : SubSeq(v, p, q)[i] = v[p + i - 1]
    BY <2>1, PieceFacts
  <2>3. DOMAIN SubSeq(v, p, q) = 1 .. Len(SubSeq(v, p, q))
    BY <2>2, Elements
  <2>4. QED
    BY <2>1, <2>2, <2>3 DEF q
<1>3. \A n \in Nat : n < WPS => Home(v[p + n]) \notin hurt /\ p + n \in 1 .. Len(v)
  <2> SUFFICES ASSUME NEW n \in Nat, n < WPS
               PROVE  Home(v[p + n]) \notin hurt /\ p + n \in 1 .. Len(v)
    OBVIOUS
  <2>1. n + 1 \in 1 .. WPS /\ p + (n + 1) - 1 = p + n /\ p + n \in 1 .. Len(v)
    BY <1>1
  <2>2. words[n + 1] = v[p + n]
    BY <1>2, <2>1
  <2> HIDE DEF words
  <2>3. <<words[n + 1].frame, words[n + 1].slot>> \notin hurt
    BY <1>2, <2>1 DEF Touched, words
  <2>4. QED
    BY <2>1, <2>2, <2>3 DEF Home
<1> HIDE DEF words
<1>4. 0 \in U
  <2>1. p + 0 = p /\ 0 < WPS
    BY <1>1
  <2>2. Home(v[p]) \notin hurt
    BY <1>3, <2>1
  <2>3. v[p].genuine /\ v[p].sync = IF v[p].at = 0 THEN v[p].slot + 1 ELSE 0
    <3>1. /\ v[p].genuine => v[p].sync = IF v[p].at = 0 THEN v[p].slot + 1 ELSE 0
          /\ ~v[p].genuine => Home(v[p]) \in hurt
      BY DEF HonestWords
    <3>2. v[p].genuine
      BY <2>2, <3>1
    <3>3. QED
      BY <3>1, <3>2
  <2>4. v[p].slot \in Int
    <3>1. v[p] \in Word
      BY <1>1
    <3>2. v[p].slot \in Slot
      BY <3>1 DEF Word
    <3>3. QED
      BY <3>2 DEF Slot
  <2>5. v[p].at = 0 /\ v[p].slot = v[p].sync - 1
    <3> DEFINE x == v[p].sync
               y == v[p].slot
    <3>1. x \in 1 .. 4 /\ y \in Int /\ x = IF v[p].at = 0 THEN y + 1 ELSE 0
      BY <2>3, <2>4
    <3> HIDE DEF x, y
    <3>2. v[p].at = 0 /\ y = x - 1
      BY <3>1
    <3>3. QED
      BY <3>2 DEF x, y
  <2>6. QED
    BY <2>1, <2>5 DEF Home
<1>5. ASSUME NEW n \in Nat, n \in U PROVE n + 1 \in U
  <2> SUFFICES ASSUME n + 1 < WPS
               PROVE  /\ Home(v[p + (n + 1)]) = <<v[p].frame, v[p].sync - 1>>
                      /\ v[p + (n + 1)].at = n + 1
    OBVIOUS
  <2>1. /\ n < WPS /\ n < WPS - 1 /\ p + (n + 1) = p + n + 1 /\ p + n \in 1 .. Len(v) - 1
    BY <1>1
  <2>2. Home(v[p + n]) = <<v[p].frame, v[p].sync - 1>> /\ v[p + n].at = n
    BY <1>5, <2>1
  <2>3. Home(v[p + n]) \notin hurt
    BY <1>3, <2>1
  <2>4. Home(v[p + n + 1]) = Home(v[p + n]) /\ v[p + n + 1].at = v[p + n].at + 1
    BY <2>1, <2>2, <2>3 DEF UnbrokenWords
  <2>5. QED
    BY <2>1, <2>2, <2>4
<1> HIDE DEF U
<1>6. Nat \subseteq U
  BY <1>4, <1>5, SetInduction
<1>7. \A n \in Nat : n < WPS =>
        /\ v[p + n].frame = v[p].frame /\ v[p + n].slot = v[p].sync - 1 /\ v[p + n].at = n
  BY <1>6 DEF U, Home
<1>8. ASSUME NEW i \in 1 .. WPS
      PROVE  /\ words[i].frame = words[1].frame /\ words[i].slot = v[p].sync - 1
             /\ words[i].at = i - 1 /\ words[i].genuine
  <2> DEFINE n == i - 1
  <2>1. n \in Nat /\ n < WPS /\ p + i - 1 = p + n /\ 1 \in 1 .. WPS /\ p + 1 - 1 = p
    BY <1>1
  <2>2. words[i] = v[p + n] /\ words[1] = v[p]
    BY <1>2, <2>1
  <2> HIDE DEF n
  <2>3. v[p + n].genuine
    BY <1>3, <2>1 DEF HonestWords
  <2>4. v[p + n].frame = v[p].frame /\ v[p + n].slot = v[p].sync - 1 /\ v[p + n].at = n
    BY <1>7, <2>1
  <2>5. QED
    BY <2>2, <2>3, <2>4 DEF n
<1>9. QED
  BY <1>2, <1>8 DEF Sent, words

\* A read of a pipe in order delivers nothing but sent subframes and touched
\* ones.
LEMMA ReadIsConfined ==
  ASSUME TypeOK, PipeOK(Pipe, device, hurt), NEW n \in 1 .. Len(wire), ProcessWords(n)
  PROVE  DamageConfined'
<1> DEFINE v == Gathered(n)
           raws == Ending(n).subframes
<1>1. /\ v \in Seq(Word) /\ wire' \in Seq(Word) /\ Pipe = v \o wire'
      /\ raws \in Seq(Raws(Word)) /\ Len(raws) \in Nat
      /\ \A k \in 1 .. Len(raws) : raws[k] \in Raws(Word)
      /\ \A k \in 1 .. Len(raws) : PieceOf(raws[k], v)
  <2>1. Ending(n) \in Turns(Word) /\ wire' \in Seq(Word)
    BY ProcessFacts
  <2>2. raws \in Seq(Raws(Word))
    BY <2>1, TurnFields
  <2>3. v \in Seq(Word) /\ \A k \in 1 .. Len(raws) : PieceOf(raws[k], v)
    BY EndingWords
  <2>4. Pipe = v \o wire'
    BY PipeAfterRead
  <2> HIDE DEF v, raws
  <2>5. QED
    BY <2>1, <2>2, <2>3, <2>4, Elements
<1>2. arrivals' = DeliverAll(asm, raws).arrivals /\ hurt' = hurt
  BY ProcessFacts
<1> HIDE DEF v, raws
<1>3. HonestWords(v, hurt) /\ UnbrokenWords(v, hurt)
  <2>1. /\ Len(v) \in Nat /\ Len(wire') \in Nat /\ Len(Pipe) = Len(v) + Len(wire')
        /\ \A i \in 1 .. Len(v) : Pipe[i] = v[i]
    BY <1>1, JoinFacts, Elements
  <2>2. \A i \in 1 .. Len(v) : i \in 1 .. Len(Pipe)
    BY <2>1
  <2>3. \A i \in 1 .. Len(v) - 1 :
          i \in 1 .. Len(Pipe) - 1 /\ i \in 1 .. Len(v) /\ i + 1 \in 1 .. Len(v)
    BY <2>1
  <2>4. HonestWords(v, hurt)
    BY <2>1, <2>2 DEF PipeOK, HonestWords
  <2>5. UnbrokenWords(v, hurt)
    BY <2>1, <2>3 DEF PipeOK, UnbrokenWords
  <2>6. QED
    BY <2>4, <2>5
<1>4. ASSUME NEW i \in DOMAIN arrivals', Good(arrivals'[i])
      PROVE  LET words == arrivals'[i].words[arrivals'[i].subframe]
             IN  \/ Sent(words, words[1].frame, arrivals'[i].subframe - 1)
                 \/ Touched(words)
  <2> DEFINE x == arrivals'[i]
  <2>1. PICK k \in 1 .. Len(raws) :
          raws[k].valid /\ x.subframe = raws[k].sf /\ x.words[raws[k].sf] = raws[k].words
    BY <1>1, <1>2, <1>4, DeliverFacts DEF TypeOK, Slotted
  <2>2. PieceOf(raws[k], v) /\ raws[k].sf \in 1 .. 4
    BY <1>1 DEF Raws
  <2>3. PICK p \in 1 .. Len(v) :
          /\ p + WPS - 1 <= Len(v) /\ raws[k].words = SubSeq(v, p, p + WPS - 1)
          /\ v[p].sync = raws[k].sf
    BY <2>1, <2>2 DEF PieceOf
  <2> DEFINE words == SubSeq(v, p, p + WPS - 1)
  <2>4. x.words[x.subframe] = words /\ x.subframe = v[p].sync
    BY <2>1, <2>3
  <2>5. Touched(words) \/ Sent(words, words[1].frame, v[p].sync - 1)
    BY <1>1, <1>3, <2>2, <2>3, PieceIsSent
  <2> HIDE DEF words, x
  <2>6. QED
    BY <2>4, <2>5 DEF x
<1>5. \A words : Touched(words)' <=>
        \E j \in DOMAIN words : <<words[j].frame, words[j].slot>> \in hurt'
  BY DEF Touched
<1>6. QED
  BY <1>2, <1>4 DEF DamageConfined, Good, Sent, Touched

\* For any number of words to a subframe, of faults and of frames: a
\* subframe accepted as valid is one the device sent, whole and in its slot,
\* or a fault has touched it.
THEOREM FaultsConfined == Spec => []DamageConfined
<1> DEFINE Inv == TypeOK /\ PipeOK(Pipe, device, hurt) /\ DamageConfined
<1>1. Init => Inv
  <2> SUFFICES ASSUME Init PROVE Inv
    OBVIOUS
  <2>1. Pipe = <<>> \o <<>>
    BY DEF Init, Pipe, NewSynchronizer
  <2>2. Len(Pipe) = 0
    BY <2>1
  <2>3. PipeOK(Pipe, device, hurt)
    BY <2>2 DEF PipeOK, HonestWords, UnbrokenWords, UnbrokenEnd
  <2>4. DamageConfined
    BY DEF Init, DamageConfined
  <2>5. QED
    BY <2>3, <2>4, InitType
<1>2. Inv /\ [Next]_vars => Inv'
  <2> SUFFICES ASSUME Inv, [Next]_vars PROVE PipeOK(Pipe, device, hurt)' /\ DamageConfined'
    BY NextType
  <2>1. ASSUME NEW drop \in BOOLEAN, NEW swap \in BOOLEAN, NEW lose \in BOOLEAN,
               NEW bad \in BOOLEAN, EmitNextWord(drop, swap, lose, bad)
        PROVE  PipeOK(Pipe, device, hurt)' /\ DamageConfined'
    <3>1. PICK d, w : Emits(d, w, lose, bad)
      BY <2>1, EmitFacts
    <3>2. arrivals' = <<>>
      BY <3>1 DEF Emits
    <3>3. DamageConfined'
      BY <3>2 DEF DamageConfined
    <3>4. QED
      BY <3>1, <3>3, EmitKeepsPipe
  <2>2. ASSUME NEW n \in 1 .. Len(wire), ProcessWords(n)
        PROVE  PipeOK(Pipe, device, hurt)' /\ DamageConfined'
    <3>1. Pipe \in Seq(Word) /\ Pipe' \in Seq(Word) /\ IsEnd(Pipe', Pipe)
      BY <2>2, PipeAfterRead
    <3>2. device' = device /\ hurt' = hurt
      BY <2>2, ProcessFacts
    <3>3. PipeOK(Pipe', device, hurt)
      BY <3>1, PipeEnd
    <3>4. PipeOK(Pipe, device, hurt)'
      BY <3>2, <3>3
    <3>5. QED
      BY <2>2, <3>4, ReadIsConfined
  <2>3. ASSUME NEW n \in 0 .. Len(wire), Restart(n)
        PROVE  PipeOK(Pipe, device, hurt)' /\ DamageConfined'
    <3>1. Pipe \in Seq(Word) /\ Pipe' \in Seq(Word) /\ IsEnd(Pipe', Pipe)
      BY <2>3, PipeAfterRestart
    <3>2. device' = device /\ hurt' = hurt /\ arrivals' = <<>>
      BY <2>3, RestartFacts
    <3>3. PipeOK(Pipe', device, hurt)
      BY <3>1, PipeEnd
    <3>4. PipeOK(Pipe, device, hurt)'
      BY <3>2, <3>3
    <3>5. DamageConfined'
      BY <3>2 DEF DamageConfined
    <3>6. QED
      BY <3>4, <3>5
  <2>4. CASE UNCHANGED vars
    <3>1. /\ device' = device /\ hurt' = hurt /\ sync' = sync /\ wire' = wire
          /\ arrivals' = arrivals
      BY <2>4 DEF vars
    <3>2. PipeOK(Pipe, device, hurt)'
      BY <3>1 DEF Pipe
    <3>3. DamageConfined'
      BY <3>1 DEF DamageConfined, Touched
    <3>4. QED
      BY <3>2, <3>3
  <2>5. QED
    BY <2>1, <2>2, <2>3, <2>4 DEF Next
<1>3. Inv => DamageConfined
  OBVIOUS
<1>4. QED
  BY <1>1, <1>2, <1>3, PTL DEF Spec

-----------------------------------------------------------------------------
(* Re-lock *)

\* The sync word of the subframe k before subframe x.
Number(x, k) == ((x - k + 4) % 4) + 1

\* What the word sent j words ago looks like if nothing has disturbed the
\* device since: j = 0 is the word that is due.
Look(d, j) ==
  LET o == d.word_index
      x == d.subframe_index
  IN  IF j = o THEN Number(x, 0)
      ELSE IF j = o + WPS THEN Number(x, 1)
      ELSE IF j = o + 2 * WPS THEN Number(x, 2)
      ELSE IF j = o + 3 * WPS THEN Number(x, 3)
      ELSE 0

\* The words of q that were sent among the last c look like the stream that
\* leads to the place d.
Clean(q, c, d) ==
  \A i \in 1 .. Len(q) :
    LET j == Len(q) - i + 1
    IN  j <= c => q[i].sync = Look(d, j)

\* The words sent since the last disturbance look like the stream.
CleanWords == Clean(Pipe, calm, device)

\* A lock whose last subframe began after the last disturbance is on the true
\* phase, and expects the right subframe.
LockRight ==
  sync.state = Locked =>
    /\ Len(sync.buffer) < WPS
    /\ Len(sync.buffer) + Len(wire) + WPS <= calm =>
         sync.expected = Look(device, Len(sync.buffer) + Len(wire))

\* A search that has gone through s words began at most a subframe after the
\* last disturbance, and has met no pair: s or the clean words read end
\* before the pair of the last sync word, o words ago, begins.
Searched(s) ==
  LET b == Len(sync.buffer)
      e == Len(wire)
  IN  /\ b <= s /\ (s = b \/ b >= WPS + 1)
      /\ calm - e <= s + WPS
      /\ \A o \in 1 .. WPS :
           o <= b /\ o + e <= calm /\ Look(device, o + e) # 0 =>
             calm - e < o + WPS \/ s < o + WPS

SearchShort == sync.state = Searching => \E s \in Nat : Searched(s)

Relocking == CleanWords /\ LockRight /\ SearchShort

\* Sync numbers, and what follows them.
LEMMA NumberFacts ==
  ASSUME NEW x \in 0 .. 3
  PROVE  /\ \A k \in 0 .. 3 : Number(x, k) \in 1 .. 4
         /\ Number(x, 0) = x + 1
         /\ Successor(Number(x, 1)) = Number(x, 0)
         /\ Successor(Number(x, 2)) = Number(x, 1)
         /\ Successor(Number(x, 3)) = Number(x, 2)
<1>1. x = 0 \/ x = 1 \/ x = 2 \/ x = 3
  OBVIOUS
<1>2. /\ Number(x, 0) = x + 1
      /\ Number(x, 1) = IF x = 0 THEN 4 ELSE x
      /\ Number(x, 2) = IF x = 0 THEN 3 ELSE IF x = 1 THEN 4 ELSE x - 1
      /\ Number(x, 3) = IF x = 3 THEN 1 ELSE x + 2
  BY <1>1 DEF Number
<1>3. \A k \in 0 .. 3 : k = 0 \/ k = 1 \/ k = 2 \/ k = 3
  OBVIOUS
<1>4. \A k \in 0 .. 3 : Number(x, k) \in 1 .. 4
  BY <1>1, <1>2, <1>3
<1>5. Successor(1) = 2 /\ Successor(2) = 3 /\ Successor(3) = 4 /\ Successor(4) = 1
  BY DEF Successor
<1>6. /\ Successor(Number(x, 1)) = Number(x, 0)
      /\ Successor(Number(x, 2)) = Number(x, 1)
      /\ Successor(Number(x, 3)) = Number(x, 2)
  BY <1>1, <1>2, <1>5
<1>7. QED
  BY <1>2, <1>4, <1>6

\* The numbers of the next subframe's past.
LEMMA NumberShift ==
  ASSUME NEW x \in 0 .. 3, NEW y, y = IF x < 3 THEN x + 1 ELSE 0
  PROVE  /\ Number(y, 1) = Number(x, 0) /\ Number(y, 2) = Number(x, 1)
         /\ Number(y, 3) = Number(x, 2)
<1>1. x = 0 \/ x = 1 \/ x = 2 \/ x = 3
  OBVIOUS
<1>2. QED
  BY <1>1 DEF Number

\* Where the sync words of the last three subframes are.
LEMMA LookFacts ==
  ASSUME NEW d \in Devices, NEW j \in 0 .. 3 * WPS
  PROVE  /\ Look(d, j) \in 0 .. 4
         /\ Look(d, j) # 0 /\ j >= WPS => Look(d, j - WPS) = Successor(Look(d, j))
         /\ Look(d, j) # 0 /\ j + WPS <= 3 * WPS =>
              /\ Look(d, j + WPS) \in 1 .. 4
              /\ Look(d, j) = Successor(Look(d, j + WPS))
         /\ Look(d, j) # 0 /\ j < WPS => j = d.word_index /\ Look(d, j) = d.subframe_index + 1
         /\ Look(d, 0) = IF d.word_index = 0 THEN d.subframe_index + 1 ELSE 0
<1> DEFINE o == d.word_index
           x == d.subframe_index
<1>1. WPS \in Nat \ {0} /\ o \in 0 .. WPS - 1 /\ x \in 0 .. 3 /\ j \in Nat /\ j <= 3 * WPS
  BY WpsAssumption DEF Devices
<1> DEFINE n0 == Number(x, 0)
           n1 == Number(x, 1)
           n2 == Number(x, 2)
           n3 == Number(x, 3)
<1>2. /\ n0 \in 1 .. 4 /\ n1 \in 1 .. 4 /\ n2 \in 1 .. 4 /\ n3 \in 1 .. 4 /\ n0 = x + 1
      /\ Successor(n1) = n0 /\ Successor(n2) = n1 /\ Successor(n3) = n2
  BY <1>1, NumberFacts
<1>3. \A i : Look(d, i) = IF i = o THEN n0 ELSE IF i = o + WPS THEN n1
                          ELSE IF i = o + 2 * WPS THEN n2 ELSE IF i = o + 3 * WPS THEN n3 ELSE 0
  BY DEF Look
<1> HIDE DEF n0, n1, n2, n3, o
<1>4. Look(d, j) \in 0 .. 4
  BY <1>2, <1>3
<1>5. Look(d, j) # 0 /\ j >= WPS => Look(d, j - WPS) = Successor(Look(d, j))
  BY <1>1, <1>2, <1>3
<1>6. Look(d, j) # 0 /\ j + WPS <= 3 * WPS =>
        Look(d, j + WPS) \in 1 .. 4 /\ Look(d, j) = Successor(Look(d, j + WPS))
  BY <1>1, <1>2, <1>3
<1>7. Look(d, j) # 0 /\ j < WPS => j = o /\ Look(d, j) = x + 1
  BY <1>1, <1>2, <1>3
<1>8. Look(d, 0) = IF o = 0 THEN x + 1 ELSE 0
  BY <1>1, <1>2, <1>3
<1>9. QED
  BY <1>4, <1>5, <1>6, <1>7, <1>8 DEF o

\* A word further on, everything is a word further back.
LEMMA LookShift ==
  ASSUME NEW d \in Devices, NEW j \in Nat, j < 3 * WPS
  PROVE  Look(Advanced(d), j + 1) = Look(d, j)
<1> DEFINE o == d.word_index
           x == d.subframe_index
           a == Advanced(d)
<1>1. WPS \in Nat \ {0} /\ o \in 0 .. WPS - 1 /\ x \in 0 .. 3
  BY WpsAssumption DEF Devices
<1>2. IF o + 1 < WPS THEN a.word_index = o + 1 /\ a.subframe_index = x
      ELSE a.word_index = 0 /\ a.subframe_index = IF x < 3 THEN x + 1 ELSE 0
  BY AdvancedFacts
<1> HIDE DEF a, o, x
<1>3. CASE o + 1 < WPS
  <2>1. /\ j + 1 = o + 1 <=> j = o
        /\ j + 1 = o + 1 + WPS <=> j = o + WPS
        /\ j + 1 = o + 1 + 2 * WPS <=> j = o + 2 * WPS
        /\ j + 1 = o + 1 + 3 * WPS <=> j = o + 3 * WPS
    BY <1>1
  <2>2. QED
    BY <1>2, <1>3, <2>1 DEF Look, a, o, x
<1>4. CASE ~(o + 1 < WPS)
  <2> DEFINE y == a.subframe_index
  <2>1. Number(y, 1) = Number(x, 0) /\ Number(y, 2) = Number(x, 1) /\ Number(y, 3) = Number(x, 2)
    BY <1>1, <1>2, <1>4, NumberShift
  <2> HIDE DEF y
  <2>2. /\ o = WPS - 1 /\ j + 1 # 0 /\ j # o + 3 * WPS
        /\ j + 1 = 0 + WPS <=> j = o
        /\ j + 1 = 0 + 2 * WPS <=> j = o + WPS
        /\ j + 1 = 0 + 3 * WPS <=> j = o + 2 * WPS
    BY <1>1, <1>4
  <2>3. Look(a, j + 1) = IF j + 1 = 0 THEN Number(y, 0) ELSE IF j + 1 = 0 + WPS THEN Number(y, 1)
                         ELSE IF j + 1 = 0 + 2 * WPS THEN Number(y, 2)
                         ELSE IF j + 1 = 0 + 3 * WPS THEN Number(y, 3) ELSE 0
    BY <1>2, <1>4 DEF Look, y
  <2>4. Look(d, j) = IF j = o THEN Number(x, 0) ELSE IF j = o + WPS THEN Number(x, 1)
                     ELSE IF j = o + 2 * WPS THEN Number(x, 2)
                     ELSE IF j = o + 3 * WPS THEN Number(x, 3) ELSE 0
    BY DEF Look, o, x
  <2>5. QED
    BY <2>1, <2>2, <2>3, <2>4 DEF a
<1>5. QED
  BY <1>3, <1>4

\* Two places alike look alike.
LEMMA LookSame ==
  ASSUME NEW d, NEW a, d.word_index = a.word_index, d.subframe_index = a.subframe_index
  PROVE  \A j : Look(d, j) = Look(a, j)
BY DEF Look


\* The words of a buffer with e words still behind it, where they are clean.
Seen(buf, e) ==
  \A i \in 1 .. Len(buf) :
    LET j == Len(buf) - i + 1 + e
    IN  j <= calm => buf[i].sync = Look(device, j)

\* In the course of a read that leaves e words on the wire.
Held(u, e) ==
  LET m == Len(u.sync.buffer)
  IN  /\ Seen(u.sync.buffer, e)
      /\ u.sync.state = Locked /\ m + e + WPS <= calm => u.sync.expected = Look(device, m + e)

\* What is seen of a buffer is seen of its end.
LEMMA SeenFrom ==
  ASSUME NEW buf \in Seq(Word), NEW e \in Nat, Seen(buf, e), NEW p \in 1 .. Len(buf) + 1
  PROVE  Seen(From(buf, p), e)
<1> DEFINE v == From(buf, p)
<1>1. /\ Len(buf) \in Nat /\ v \in Seq(Word) /\ Len(v) = Len(buf) - p + 1
      /\ \A i \in 1 .. Len(buf) - p + 1 : v[i] = buf[p + i - 1]
  BY Elements, FromFacts
<1> HIDE DEF v
<1>2. ASSUME NEW i \in 1 .. Len(v), Len(v) - i + 1 + e <= calm
      PROVE  v[i].sync = Look(device, Len(v) - i + 1 + e)
  <2> DEFINE k == p + i - 1
  <2>1. k \in 1 .. Len(buf) /\ Len(buf) - k + 1 + e = Len(v) - i + 1 + e
    BY <1>1
  <2>2. v[i] = buf[k]
    BY <1>1
  <2> HIDE DEF k
  <2>3. QED
    BY <1>2, <2>1, <2>2 DEF Seen
<1>3. QED
  BY <1>2 DEF Seen, v

\* No turn takes a lock off the true phase, and a lock that was on it is not
\* lost: a search that follows a loss began soon after the disturbance.
LEMMA TurnHeld ==
  ASSUME TypeOK, NEW u \in Turns(Word), NEW e \in Nat, Held(u, e)
  PROVE  /\ Held(Turn(u), e)
         /\ Turn(u).sync.state = Searching =>
              Turn(u) = u \/ calm - e <= Len(Turn(u).sync.buffer) + WPS
<1> DEFINE buf == u.sync.buffer
           m == Len(buf)
           sf == u.sync.expected
<1>1. /\ WPS \in Nat \ {0} /\ m \in Nat /\ buf \in Seq(Word) /\ sf \in 1 .. 4
      /\ calm \in Nat /\ calm <= 3 * WPS /\ device \in Devices
      /\ Turn(u) \in Turns(Word) /\ Searching # Locked
  BY WpsAssumption, TurnFields, WordsReadable, TurnCases DEF TypeOK, RelockBound, Searching, Locked
<1>2. /\ Seen(buf, e)
      /\ u.sync.state = Locked /\ m + e + WPS <= calm => sf = Look(device, m + e)
  BY DEF Held
<1>3. \A i \in 1 .. m : m - i + 1 + e <= calm => buf[i].sync = Look(device, m - i + 1 + e)
  BY <1>2 DEF Seen
<1>4. CASE Turn(u) = u
  BY <1>4
<1>5. CASE \E pos \in PairsAt(buf, WPS) : LocksAt(u, pos)
  <2>1. PICK pos \in PairsAt(buf, WPS) : LocksAt(u, pos)
    BY <1>5
  <2>2. pos \in 1 .. m /\ pos \in 1 .. m + 1
    BY <1>1, <2>1, WordsReadable, PairFacts
  <2>3. /\ Turn(u).sync.buffer = From(buf, pos) /\ Turn(u).sync.state = Locked
        /\ Turn(u).sync.expected = buf[pos].sync
    BY <2>1 DEF LocksAt, TurnOf
  <2> HIDE DEF buf
  <2>4. Seen(From(buf, pos), e) /\ Len(From(buf, pos)) = m - pos + 1
    BY <1>1, <1>2, <2>2, SeenFrom, FromFacts
  <2>5. m - pos + 1 + e + WPS <= calm => buf[pos].sync = Look(device, m - pos + 1 + e)
    <3>1. m - pos + 1 + e + WPS <= calm => m - pos + 1 + e <= calm
      BY <1>1, <2>2
    <3>2. m - pos + 1 + e <= calm => buf[pos].sync = Look(device, m - pos + 1 + e)
      BY <1>3, <2>2
    <3>3. QED
      BY <3>1, <3>2
  <2>6. QED
    BY <1>1, <2>3, <2>4, <2>5 DEF Held
<1>6. CASE Loses(u)
  <2>1. /\ u.sync.state = Locked /\ m >= WPS /\ buf[1].sync # sf
        /\ Turn(u).sync.buffer = From(buf, 2) /\ Turn(u).sync.state = Searching
    BY <1>6 DEF Loses, TurnOf
  <2>2. 2 \in 1 .. m + 1 /\ 1 \in 1 .. m /\ m - 1 + 1 + e = m + e
    BY <1>1, <2>1
  <2> HIDE DEF buf, sf
  <2>3. Seen(From(buf, 2), e) /\ Len(From(buf, 2)) = m - 2 + 1
    BY <1>1, <1>2, <2>2, SeenFrom, FromFacts
  <2>4. ~(m + e + WPS <= calm)
    <3> SUFFICES ASSUME m + e + WPS <= calm PROVE FALSE
      OBVIOUS
    <3>1. m + e <= calm
      BY <1>1
    <3>2. sf = Look(device, m + e) /\ buf[1].sync = Look(device, m + e)
      BY <1>2, <1>3, <2>1, <2>2, <3>1
    <3>3. QED
      BY <2>1, <3>2
  <2>5. calm - e <= Len(From(buf, 2)) + WPS
    BY <1>1, <2>3, <2>4
  <2>6. QED
    BY <1>1, <2>1, <2>3, <2>5 DEF Held
<1>7. CASE Takes(u)
  <2>1. /\ u.sync.state = Locked /\ m >= WPS /\ buf[1].sync = sf
        /\ Turn(u).sync.buffer = From(buf, WPS + 1) /\ Turn(u).sync.state = Locked
        /\ Turn(u).sync.expected = Successor(sf)
    BY <1>7 DEF Takes, TurnOf
  <2>2. WPS + 1 \in 1 .. m + 1 /\ 1 \in 1 .. m /\ m - 1 + 1 + e = m + e
    BY <1>1, <2>1
  <2> HIDE DEF buf, sf
  <2>3. Seen(From(buf, WPS + 1), e) /\ Len(From(buf, WPS + 1)) = m - (WPS + 1) + 1
    BY <1>1, <1>2, <2>2, SeenFrom, FromFacts
  <2>4. ASSUME m - WPS + e + WPS <= calm PROVE Successor(sf) = Look(device, m - WPS + e)
    <3> DEFINE j == m + e
    <3>1. j <= calm /\ j \in 0 .. 3 * WPS /\ j >= WPS /\ j - WPS = m - WPS + e
      BY <1>1, <2>1, <2>4
    <3>2. sf = Look(device, j)
      BY <1>3, <2>1, <2>2, <3>1
    <3> HIDE DEF j
    <3>3. Look(device, j) # 0
      BY <1>1, <3>2
    <3>4. Look(device, j - WPS) = Successor(Look(device, j))
      BY <1>1, <3>1, <3>3, LookFacts
    <3>5. QED
      BY <3>1, <3>2, <3>4
  <2>5. m - (WPS + 1) + 1 = m - WPS
    BY <1>1
  <2>6. QED
    BY <1>1, <2>1, <2>3, <2>4, <2>5 DEF Held
<1>8. QED
  BY <1>4, <1>5, <1>6, <1>7, WordsReadable, TurnCases

\* Two clean sync words in a buffer are a pair.
LEMMA PairSeen ==
  ASSUME TypeOK, NEW buf \in Seq(Word), NEW e \in Nat, Seen(buf, e), NEW o \in 1 .. WPS,
         o + WPS <= Len(buf), o + WPS + e <= calm, Look(device, o + e) # 0
  PROVE  PairsAt(buf, WPS) # {}
<1> DEFINE p == Len(buf) - (o + WPS) + 1
           j == o + e
<1>1. /\ WPS \in Nat \ {0} /\ Len(buf) \in Nat /\ calm <= 3 * WPS /\ calm \in Nat
      /\ device \in Devices
  BY WpsAssumption, Elements DEF TypeOK, RelockBound
<1>2. /\ p \in 1 .. Len(buf) - WPS /\ p \in 1 .. Len(buf) /\ p + WPS \in 1 .. Len(buf)
      /\ Len(buf) - p + 1 + e = j + WPS /\ Len(buf) - (p + WPS) + 1 + e = j
      /\ j \in 0 .. 3 * WPS /\ j + WPS <= 3 * WPS /\ j + WPS <= calm /\ j <= calm
  BY <1>1
<1>0. Look(device, j) # 0
  OBVIOUS
<1> HIDE DEF p, j
<1>3. buf[p].sync = Look(device, j + WPS) /\ buf[p + WPS].sync = Look(device, j)
  BY <1>2 DEF Seen
<1>4. Look(device, j + WPS) \in 1 .. 4 /\ Look(device, j) = Successor(Look(device, j + WPS))
  BY <1>0, <1>1, <1>2, LookFacts
<1>5. PairAt(buf, p, WPS)
  BY <1>3, <1>4 DEF PairAt
<1>6. QED
  BY <1>2, <1>5 DEF PairsAt

\* The pipe, from the words that a read gathers: how far back a word is.
LEMMA GatheredSeen ==
  ASSUME TypeOK, CleanWords, NEW n \in 1 .. Len(wire), ProcessWords(n)
  PROVE  /\ Seen(Gathered(n), Len(wire) - n)
         /\ Gathered(n) \in Seq(Word) /\ Len(Gathered(n)) = Len(sync.buffer) + n
<1> DEFINE v == Gathered(n)
           e == Len(wire) - n
<1>1. /\ v \in Seq(Word) /\ wire' \in Seq(Word) /\ Pipe = v \o wire' /\ Len(wire') = e
      /\ Len(wire) \in Nat /\ n \in Nat
  BY EndingWords, ProcessFacts, PipeAfterRead
<1>2. /\ v = sync.buffer \o Read(n) /\ sync.buffer \in Seq(Word) /\ Read(n) \in Seq(Word)
      /\ Len(Read(n)) = n
  BY ProcessFacts DEF Gathered, TypeOK, Synchronizers
<1>3. Len(v) = Len(sync.buffer) + n /\ Len(sync.buffer) \in Nat
  <2> DEFINE x == Read(n)
             b == sync.buffer
  <2>1. v = b \o x /\ b \in Seq(Word) /\ x \in Seq(Word) /\ Len(x) = n
    BY <1>2
  <2> HIDE DEF x, b, v
  <2>2. Len(v) = Len(b) + Len(x) /\ Len(b) \in Nat
    BY <2>1, JoinFacts, Elements
  <2>3. QED
    BY <2>1, <2>2 DEF b
<1> HIDE DEF v
<1>4. /\ Len(Pipe) = Len(v) + e /\ Len(v) \in Nat /\ e \in Nat
      /\ \A i \in 1 .. Len(v) : Pipe[i] = v[i]
  BY <1>1, JoinFacts, Elements
<1> HIDE DEF e
<1>5. ASSUME NEW i \in 1 .. Len(v), Len(v) - i + 1 + e <= calm
      PROVE  v[i].sync = Look(device, Len(v) - i + 1 + e)
  <2>1. i \in 1 .. Len(Pipe) /\ Len(Pipe) - i + 1 = Len(v) - i + 1 + e
    BY <1>4
  <2>2. Pipe[i].sync = Look(device, Len(v) - i + 1 + e)
    BY <1>5, <2>1 DEF CleanWords, Clean
  <2>3. QED
    BY <1>4, <2>2
<1>6. Seen(v, e)
  BY <1>5 DEF Seen
<1>7. QED
  BY <1>1, <1>3, <1>6 DEF v, e

\* What a read ends with: a lock is held right, and a search began with the
\* read's or soon after the disturbance.
LEMMA EndingHeld ==
  ASSUME TypeOK, CleanWords, LockRight, NEW n \in 1 .. Len(wire), ProcessWords(n)
  PROVE  LET u == Ending(n)
             e == Len(wire) - n
         IN  /\ Held(u, e)
             /\ u.sync.state = Searching =>
                  \/ sync.state = Searching /\ u.sync.buffer = Gathered(n)
                  \/ calm - e <= Len(u.sync.buffer) + WPS
<1> DEFINE e == Len(wire) - n
           t0 == Opening(sync, Read(n))
           Soon(u) == u.sync.state = Searching =>
                        u = t0 \/ calm - e <= Len(u.sync.buffer) + WPS
           T == {u \in Turns(Word) : Held(u, e) /\ Soon(u)}
<1>1. /\ Seen(Gathered(n), e) /\ Len(Gathered(n)) = Len(sync.buffer) + n
      /\ Len(wire) \in Nat /\ n \in Nat /\ e \in Nat
  BY GatheredSeen, ProcessFacts
<1>2. sync \in Synchronizers(Word) /\ Read(n) \in Seq(Word) /\ Len(sync.buffer) \in Nat
  BY ProcessFacts, Elements DEF TypeOK, Synchronizers
<1>3. /\ t0 \in Turns(Word) /\ t0.sync.state = sync.state /\ t0.sync.expected = sync.expected
      /\ t0.sync.buffer = Gathered(n)
  BY <1>2, OpeningFacts DEF Gathered
<1>4. Len(Gathered(n)) + e = Len(sync.buffer) + Len(wire)
  BY <1>1, <1>2
<1>5. Held(t0, e)
  <2> HIDE DEF t0, e
  <2>1. sync.state = Locked /\ Len(sync.buffer) + Len(wire) + WPS <= calm =>
          sync.expected = Look(device, Len(sync.buffer) + Len(wire))
    BY DEF LockRight
  <2>2. QED
    BY <1>1, <1>3, <1>4, <2>1 DEF Held
<1>6. t0 \in T /\ Len(t0.sync.buffer) \in Nat
  BY <1>3, <1>5, TurnFields
<1>7. ASSUME NEW u \in T PROVE Turn(u) \in T
  <2>1. Turn(u) \in Turns(Word)
    BY WordsReadable, TurnCases
  <2> HIDE DEF t0, e
  <2>2. /\ Held(Turn(u), e)
        /\ Turn(u).sync.state = Searching =>
             Turn(u) = u \/ calm - e <= Len(Turn(u).sync.buffer) + WPS
    BY <1>1, TurnHeld
  <2>3. Soon(Turn(u))
    BY <2>2
  <2>4. QED
    BY <2>1, <2>2, <2>3
<1> HIDE DEF T
<1>8. Settled(t0) \in T
  BY <1>6, <1>7, SettledIn
<1>9. QED
  BY <1>3, <1>8 DEF T, Ending

\* A read keeps the account of the search, or begins a new one.
LEMMA ReadSearches ==
  ASSUME TypeOK, CleanWords, LockRight, SearchShort,
         NEW n \in 1 .. Len(wire), ProcessWords(n), Ending(n).sync.state = Searching
  PROVE  \E s \in Nat : Searched(s)'
<1> DEFINE v == Ending(n).sync.buffer
           m == Len(v)
           b == Len(sync.buffer)
           e == Len(wire) - n
           b1 == Len(sync'.buffer)
           InPhase(o) == o <= b1 /\ o + e <= calm /\ Look(device, o + e) # 0
           Account(s) == /\ b1 <= s /\ (s = b1 \/ b1 >= WPS + 1)
                         /\ calm - e <= s + WPS
                         /\ \A o \in 1 .. WPS : InPhase(o) => calm - e < o + WPS \/ s < o + WPS
<1>1. /\ WPS \in Nat \ {0} /\ calm \in Nat /\ Limit \in Nat /\ Limit >= WPS + 1
      /\ n \in Nat /\ Len(wire) \in Nat /\ e \in Nat /\ b \in Nat /\ n >= 1
  BY WpsAssumption, LimitFacts, ProcessFacts, Elements DEF TypeOK, RelockBound, Synchronizers
<1>2. /\ v \in Seq(Word) /\ m \in Nat /\ PairsAt(v, WPS) = {} /\ Len(wire') = e
      /\ b1 = IF m > Limit THEN Limit ELSE m
      /\ device' = device /\ calm' = calm
  BY ProcessFacts, TurnFields, TrimmedFacts DEF Idle
<1>3. Seen(v, e) /\ (\/ sync.state = Searching /\ m = b + n
                     \/ calm - e <= m + WPS)
  BY EndingHeld, GatheredSeen DEF Held
<1>4. \A s : Account(s) => Searched(s)'
  BY <1>2 DEF Searched
<1>0. m \in Nat /\ b1 = IF m > Limit THEN Limit ELSE m
  BY <1>2
<1> HIDE DEF v, m, b, e, b1
\* A clean pair would have been seen.
<1>5. ASSUME NEW o \in 1 .. WPS, InPhase(o), calm - e >= o + WPS
      PROVE  m < o + WPS
  <2> SUFFICES ASSUME m >= o + WPS PROVE FALSE
    BY <1>1, <1>2
  <2>1. o + WPS + e <= calm
    BY <1>1, <1>5
  <2>2. PairsAt(v, WPS) # {}
    BY <1>1, <1>2, <1>3, <1>5, <2>1, PairSeen DEF m
  <2>3. QED
    BY <1>2, <2>2
<1>6. CASE sync.state = Searching /\ m = b + n
  <2>1. PICK s \in Nat : Searched(s)
    BY <1>6 DEF SearchShort
  <2>2. /\ b <= s /\ (s = b \/ b >= WPS + 1) /\ calm - Len(wire) <= s + WPS
        /\ \A o \in 1 .. WPS :
             o <= b /\ o + Len(wire) <= calm /\ Look(device, o + Len(wire)) # 0 =>
               calm - Len(wire) < o + WPS \/ s < o + WPS
    BY <2>1 DEF Searched, b
  <2>3. e = Len(wire) - n
    BY DEF e
  <2>4. b1 <= s + n /\ (s + n = b1 \/ b1 >= WPS + 1) /\ calm - e <= s + n + WPS
    <3>1. b <= s /\ (s = b \/ b >= WPS + 1) /\ calm - Len(wire) <= s + WPS
      BY <2>2
    <3>2. QED
      BY <1>0, <1>1, <1>6, <2>3, <3>1
  <2>5. ASSUME NEW o \in 1 .. WPS, InPhase(o)
        PROVE  calm - e < o + WPS \/ s + n < o + WPS
    <3> SUFFICES ASSUME calm - e >= o + WPS, s + n >= o + WPS PROVE FALSE
      BY <1>1
    <3>1. b + n < o + WPS
      BY <1>5, <1>6, <2>5
    <3>2. b >= WPS + 1
      BY <1>1, <2>2, <3>1
    <3> DEFINE k == o - n
    <3>3. k \in 1 .. WPS /\ k <= b /\ k + Len(wire) = o + e
      BY <1>1, <2>3, <3>1, <3>2
    <3>4. k + Len(wire) <= calm /\ Look(device, k + Len(wire)) # 0
      BY <2>5, <3>3
    <3>5. calm - Len(wire) < k + WPS \/ s < k + WPS
      <4> HIDE DEF k, Clean
      <4>1. QED
        BY <2>2, <3>3, <3>4
    <3>6. QED
      BY <1>1, <2>3, <3>5
  <2>6. Account(s + n)
    BY <2>4, <2>5
  <2> HIDE DEF Account
  <2>7. QED
    BY <1>1, <1>4, <2>6
<1>7. CASE calm - e <= m + WPS
  <2>1. b1 <= m /\ (m = b1 \/ b1 >= WPS + 1)
    BY <1>0, <1>1
  <2>2. ASSUME NEW o \in 1 .. WPS, InPhase(o)
        PROVE  calm - e < o + WPS \/ m < o + WPS
    <3>1. calm - e >= o + WPS => m < o + WPS
      BY <1>5, <2>2
    <3>2. QED
      BY <1>0, <1>1, <3>1
  <2>3. Account(m)
    BY <1>7, <2>1, <2>2
  <2> HIDE DEF Account
  <2>4. QED
    BY <1>2, <1>4, <2>3
<1>8. QED
  BY <1>3, <1>6, <1>7

\* A clean word more.
LEMMA AppendClean ==
  ASSUME NEW q \in Seq(Word), NEW w \in Word, NEW c \in Nat, NEW c1 \in Nat,
         c1 <= c + 1, c1 <= 3 * WPS, NEW d, NEW d1,
         \A j \in Nat : j < 3 * WPS => Look(d1, j + 1) = Look(d, j),
         w.sync = Look(d1, 1), Clean(q, c, d)
  PROVE  Clean(Append(q, w), c1, d1)
<1> DEFINE m == Len(q)
           q1 == Append(q, w)
<1>1. m \in Nat /\ Len(q1) = m + 1 /\ q1[m + 1] = w /\ \A i \in 1 .. m : q1[i] = q[i]
  BY Elements, AppendProperties
<1>2. \A i \in 1 .. m : m - i + 1 <= c => q[i].sync = Look(d, m - i + 1)
  BY DEF Clean
<1> HIDE DEF m, q1
<1>3. ASSUME NEW i \in 1 .. m + 1, m + 1 - i + 1 <= c1
      PROVE  q1[i].sync = Look(d1, m + 1 - i + 1)
  <2>1. CASE i = m + 1
    <3>1. m + 1 - i + 1 = 1
      BY <1>1, <2>1
    <3>2. QED
      BY <1>1, <2>1, <3>1
  <2>2. CASE i # m + 1
    <3> DEFINE j == m - i + 1
    <3>1. /\ i \in 1 .. m /\ j \in Nat /\ j <= c /\ j < 3 * WPS
          /\ m + 1 - i + 1 = j + 1
      BY <1>1, <1>3, <2>2, WpsAssumption
    <3>2. q[i].sync = Look(d, j)
      BY <1>2, <3>1
    <3> HIDE DEF j
    <3>3. Look(d1, j + 1) = Look(d, j)
      BY <3>1
    <3>4. q1[i] = q[i]
      BY <1>1, <3>1
    <3>5. QED
      BY <3>1, <3>2, <3>3, <3>4
  <2>3. QED
    BY <2>1, <2>2
<1>4. \A i \in 1 .. Len(q1) :
        Len(q1) - i + 1 <= c1 => q1[i].sync = Look(d1, Len(q1) - i + 1)
  BY <1>1, <1>3
<1>5. QED
  BY <1>4 DEF Clean, q1

\* A word more on the wire puts every word one further back; a disturbance
\* clears the account.
LEMMA EmitKeepsRelocking ==
  ASSUME TypeOK, Relocking, NEW d, NEW w, NEW lose \in BOOLEAN, NEW bad \in BOOLEAN,
         Emits(d, w, lose, bad)
  PROVE  Relocking'
<1> DEFINE b == Len(sync.buffer)
           e == Len(wire)
           e1 == Len(wire')
<1>1. /\ WPS \in Nat \ {0} /\ wire \in Seq(Word) /\ e \in Nat /\ b \in Nat /\ w \in Word
      /\ calm \in Nat /\ calm' \in Nat /\ calm' <= 3 * WPS
  BY WpsAssumption, Elements DEF TypeOK, RelockBound, Synchronizers, Emits
<1>2. sync' = sync /\ wire' = IF lose \/ d.dropping THEN wire ELSE Append(wire, w)
  BY DEF Emits
<1>3. e1 \in Nat
  <2>1. wire' \in Seq(Word)
    BY <1>1, <1>2, AppendProperties
  <2>2. QED
    BY <2>1, Elements
<1>4. Pipe' \in Seq(Word) /\ Len(Pipe') \in Nat
  BY PipeAfterEmit, Elements
<1>5. CASE calm' = 0
  <2>1. CleanWords'
    BY <1>4, <1>5 DEF CleanWords, Clean
  <2>2. LockRight'
    <3>1. ~(b + e1 + WPS <= 0)
      BY <1>1, <1>3
    <3>2. sync.state = Locked => b < WPS
      BY DEF Relocking, LockRight
    <3>3. QED
      BY <1>2, <1>5, <3>1, <3>2 DEF LockRight
  <2>3. ASSUME NEW s \in Nat, Searched(s) PROVE Searched(s)'
    <3>1. b <= s /\ (s = b \/ b >= WPS + 1)
      BY <2>3 DEF Searched
    <3>2. 0 - e1 <= s + WPS /\ \A o \in 1 .. WPS : ~(o + e1 <= 0)
      BY <1>1, <1>3
    <3> HIDE DEF b, e1
    <3>3. QED
      BY <1>2, <1>5, <3>1, <3>2 DEF Searched, b, e1
  <2>4. SearchShort'
    BY <1>2, <2>3 DEF Relocking, SearchShort
  <2>5. QED
    BY <2>1, <2>2, <2>4 DEF Relocking
<1>6. CASE calm' # 0
  <2>1. /\ calm' <= calm + 1 /\ w = Due(d) /\ ~(lose \/ d.dropping) /\ d.order = InOrder
        /\ d \in Devices /\ device' = Advanced(d)
        /\ d.word_index = device.word_index /\ d.subframe_index = device.subframe_index
    BY <1>6 DEF Emits
  <2>2. /\ e1 = e + 1 /\ Pipe' = Append(Pipe, w) /\ Pipe \in Seq(Word)
    <3>1. wire' = Append(wire, w)
      BY <1>2, <2>1
    <3>2. e1 = e + 1
      BY <1>1, <3>1, AppendProperties
    <3>3. Pipe' = Append(Pipe, w) /\ Pipe \in Seq(Word)
      BY <2>1, PipeAfterEmit
    <3>4. QED
      BY <3>2, <3>3
  <2>0. e1 = e + 1 /\ calm' <= calm + 1
    BY <2>1, <2>2
  <2>3. \A j \in Nat : j < 3 * WPS => Look(device', j + 1) = Look(device, j)
    BY <2>1, LookShift, LookSame
  <2>4. w.sync = Look(device', 1)
    <3>1. w.sync = IF d.word_index = 0 THEN d.subframe_index + 1 ELSE 0
      BY <2>1, DueFacts, SlotFacts
    <3>2. 0 \in 0 .. 3 * WPS /\ 0 < 3 * WPS /\ 0 + 1 = 1
      BY <1>1
    <3>3. Look(d, 0) = IF d.word_index = 0 THEN d.subframe_index + 1 ELSE 0
      BY <2>1, <3>2, LookFacts
    <3>4. Look(d, 0) = Look(device, 0)
      BY <2>1, LookSame
    <3>5. Look(device', 1) = Look(device, 0)
      BY <2>3, <3>2
    <3>6. QED
      BY <3>1, <3>3, <3>4, <3>5
  <2>5. CleanWords'
    <3> DEFINE q == Pipe
               q1 == Pipe'
    <3>1. q \in Seq(Word) /\ q1 = Append(q, w) /\ Clean(q, calm, device)
      BY <2>2 DEF Relocking, CleanWords, Clean
    <3>2. calm \in Nat /\ calm' \in Nat /\ calm' <= calm + 1 /\ calm' <= 3 * WPS /\ w \in Word
      BY <1>1, <2>0
    <3> HIDE DEF q, q1
    <3>3. Clean(Append(q, w), calm', device')
      BY <2>3, <2>4, <3>1, <3>2, AppendClean
    <3>4. Clean(q1, calm', device')
      BY <3>1, <3>3
    <3>5. QED
      BY <3>4 DEF CleanWords, Clean, q1
  <2>6. LockRight'
    <3> SUFFICES ASSUME sync.state = Locked
                 PROVE  b < WPS /\ (b + e1 + WPS <= calm' => sync.expected = Look(device', b + e1))
      BY <1>2 DEF LockRight
    <3>1. b < WPS /\ (b + e + WPS <= calm => sync.expected = Look(device, b + e))
      BY DEF Relocking, LockRight
    <3> DEFINE j == b + e
    <3>2. j \in Nat /\ b + e1 = j + 1
      <4> HIDE DEF b, e, e1
      <4>1. QED
        BY <1>1, <2>0
    <3>3. b + e1 + WPS <= calm' => j + WPS <= calm /\ j < 3 * WPS
      <4> HIDE DEF b, e, e1
      <4>1. QED
        BY <1>1, <2>0
    <3>4. j < 3 * WPS => Look(device', j + 1) = Look(device, j)
      BY <2>3, <3>2
    <3> HIDE DEF j
    <3>5. j + WPS <= calm => sync.expected = Look(device, j)
      BY <3>1 DEF j
    <3>6. QED
      BY <3>1, <3>2, <3>3, <3>4, <3>5
  <2>7. ASSUME NEW s \in Nat, Searched(s) PROVE Searched(s)'
    <3>1. /\ b <= s /\ (s = b \/ b >= WPS + 1) /\ calm - e <= s + WPS
          /\ \A o \in 1 .. WPS :
               o <= b /\ o + e <= calm /\ Look(device, o + e) # 0 =>
                 calm - e < o + WPS \/ s < o + WPS
      BY <2>7 DEF Searched
    <3>2. calm' - e1 <= calm - e
      BY <1>1, <2>1, <2>2
    <3>3. calm' - e1 <= s + WPS
      <4>1. calm - e <= s + WPS
        BY <3>1
      <4>2. QED
        BY <1>1, <1>3, <3>2, <4>1
    <3>4. ASSUME NEW o \in 1 .. WPS, o <= b, o + e1 <= calm', Look(device', o + e1) # 0
          PROVE  calm' - e1 < o + WPS \/ s < o + WPS
      <4> DEFINE j == o + e
      <4>1. j \in Nat /\ j < 3 * WPS /\ o + e1 = j + 1 /\ j <= calm
        BY <1>1, <2>1, <2>2, <3>4
      <4> HIDE DEF j
      <4>2. Look(device, j) # 0
        BY <2>3, <3>4, <4>1
      <4>3. calm - e < o + WPS \/ s < o + WPS
        BY <3>1, <3>4, <4>1, <4>2 DEF j
      <4>4. QED
        BY <1>1, <1>3, <3>2, <4>3
    <3>5. b <= s /\ (s = b \/ b >= WPS + 1)
      BY <3>1
    <3> HIDE DEF b, e1
    <3>6. QED
      BY <1>2, <3>3, <3>4, <3>5 DEF Searched, b, e1
  <2>8. SearchShort'
    BY <1>2, <2>7 DEF Relocking, SearchShort
  <2>9. QED
    BY <2>5, <2>6, <2>8 DEF Relocking
<1>7. QED
  BY <1>5, <1>6

\* What a read leaves of the pipe is as clean as it was.
LEMMA CleanEnd ==
  ASSUME CleanWords, Pipe \in Seq(Word), Pipe' \in Seq(Word), IsEnd(Pipe', Pipe),
         device' = device, calm' = calm
  PROVE  CleanWords'
<1> DEFINE q == Pipe
           q1 == Pipe'
<1>1. /\ Len(q) \in Nat /\ Len(q1) \in Nat /\ Len(q1) <= Len(q)
      /\ \A i \in 1 .. Len(q1) : q1[i] = q[Len(q) - Len(q1) + i]
  BY Elements DEF IsEnd
<1>2. \A i \in 1 .. Len(q) :
        Len(q) - i + 1 <= calm => q[i].sync = Look(device, Len(q) - i + 1)
  BY DEF CleanWords, Clean
<1> HIDE DEF q, q1
<1>3. ASSUME NEW i \in 1 .. Len(q1), Len(q1) - i + 1 <= calm
      PROVE  q1[i].sync = Look(device, Len(q1) - i + 1)
  <2> DEFINE k == Len(q) - Len(q1) + i
  <2>1. k \in 1 .. Len(q) /\ Len(q) - k + 1 = Len(q1) - i + 1
    BY <1>1
  <2>2. q1[i] = q[k]
    BY <1>1
  <2> HIDE DEF k
  <2>3. QED
    BY <1>2, <1>3, <2>1, <2>2
<1>4. QED
  BY <1>3 DEF CleanWords, Clean, q1

\* Once the wire is read and the device undisturbed for three subframes, the
\* account leaves nothing but a lock on the true phase.
LEMMA CalmRelocks ==
  ASSUME TypeOK, Relocking, wire = <<>>, calm >= RelockBound
  PROVE  /\ sync.state = Locked
         /\ Len(sync.buffer) = device.word_index
         /\ sync.expected = device.subframe_index + 1
<1> DEFINE b == Len(sync.buffer)
           x == device.word_index
<1>1. /\ WPS \in Nat \ {0} /\ b \in Nat /\ Len(wire) = 0 /\ calm = 3 * WPS
      /\ device \in Devices /\ x \in 0 .. WPS - 1 /\ device.subframe_index \in 0 .. 3
      /\ sync.state \in {Searching, Locked} /\ sync.expected \in 1 .. 4
  <2>1. WPS \in Nat \ {0} /\ calm \in 0 .. RelockBound /\ RelockBound = 3 * WPS
    BY WpsAssumption DEF TypeOK, RelockBound
  <2>2. calm = 3 * WPS
    BY <2>1
  <2>3. sync.buffer \in Seq(Word) /\ Len(wire) = 0
    BY DEF TypeOK, Synchronizers
  <2>4. QED
    BY <2>1, <2>2, <2>3, Elements DEF TypeOK, Synchronizers, Devices
<1>2. CASE sync.state = Searching
  <2>1. PICK s \in Nat : Searched(s)
    BY <1>2 DEF Relocking, SearchShort
  <2>2. /\ b <= s /\ (s = b \/ b >= WPS + 1) /\ 3 * WPS - 0 <= s + WPS
        /\ \A o \in 1 .. WPS :
             o <= b /\ o + 0 <= 3 * WPS /\ Look(device, o + 0) # 0 =>
               3 * WPS - 0 < o + WPS \/ s < o + WPS
    BY <1>1, <2>1 DEF Searched
  <2> DEFINE o == IF x = 0 THEN WPS ELSE x
  <2>3. o \in 1 .. WPS /\ (o = x \/ o = x + WPS)
    BY <1>1
  <2>4. Look(device, o) # 0
    <3>1. Number(device.subframe_index, 0) \in 1 .. 4 /\ Number(device.subframe_index, 1) \in 1 .. 4
      BY <1>1, NumberFacts
    <3> HIDE DEF o
    <3>2. x # x + WPS
      BY <1>1
    <3>3. QED
      BY <2>3, <3>1, <3>2 DEF Look
  <2> HIDE DEF o, b
  <2>5. b <= s /\ (s = b \/ b >= WPS + 1) /\ 3 * WPS <= s + WPS
    <3>1. b <= s /\ (s = b \/ b >= WPS + 1) /\ 3 * WPS - 0 <= s + WPS
      BY <2>2
    <3>2. QED
      BY <1>1, <3>1
  <2>6. o <= b /\ o + 0 <= 3 * WPS /\ o + 0 = o
    BY <1>1, <2>3, <2>5
  <2>7. 3 * WPS - 0 < o + WPS \/ s < o + WPS
    BY <2>2, <2>3, <2>4, <2>6
  <2>8. FALSE
    BY <1>1, <2>3, <2>5, <2>7
  <2>9. QED
    BY <2>8
<1>3. CASE sync.state = Locked
  <2>1. b < WPS /\ (b + 0 + WPS <= 3 * WPS => sync.expected = Look(device, b + 0))
    BY <1>1, <1>3 DEF Relocking, LockRight
  <2> HIDE DEF b
  <2>2. b \in 0 .. 3 * WPS /\ b + 0 = b /\ b + 0 + WPS <= 3 * WPS
    BY <1>1, <2>1
  <2>3. sync.expected = Look(device, b)
    BY <2>1, <2>2
  <2>4. Look(device, b) # 0
    BY <1>1, <2>3
  <2>5. b = device.word_index /\ Look(device, b) = device.subframe_index + 1
    BY <1>1, <2>1, <2>2, <2>4, LookFacts
  <2>6. QED
    BY <1>3, <2>3, <2>5 DEF b
<1>4. QED
  BY <1>1, <1>2, <1>3

\* For any number of words to a subframe, any faults before and any reads:
\* three undisturbed subframes after a disturbance the reader is locked, on
\* the phase and the subframe the device is at.
THEOREM LinkRelocks == Spec => []Relocked
<1> DEFINE Inv == TypeOK /\ Relocking
<1>1. Init => Inv
  <2> SUFFICES ASSUME Init PROVE Relocking
    BY InitType
  <2>1. /\ sync.state # Locked /\ Len(sync.buffer) = 0 /\ Len(wire) = 0 /\ calm = 0
        /\ WPS \in Nat \ {0}
    BY WpsAssumption DEF Init, NewSynchronizer, Searching, Locked
  <2>2. Pipe = <<>> \o <<>>
    BY DEF Init, Pipe, NewSynchronizer
  <2>3. Len(Pipe) = 0
    BY <2>2
  <2>4. CleanWords
    BY <2>3 DEF CleanWords, Clean
  <2>5. Searched(0)
    BY <2>1 DEF Searched
  <2>6. QED
    BY <2>1, <2>4, <2>5 DEF Relocking, LockRight, SearchShort
<1>2. Inv /\ [Next]_vars => Inv'
  <2> SUFFICES ASSUME Inv, [Next]_vars PROVE Relocking'
    BY NextType
  <2>1. ASSUME NEW drop \in BOOLEAN, NEW swap \in BOOLEAN, NEW lose \in BOOLEAN,
               NEW bad \in BOOLEAN, EmitNextWord(drop, swap, lose, bad)
        PROVE  Relocking'
    <3>1. PICK d, w : Emits(d, w, lose, bad)
      BY <2>1, EmitFacts
    <3>2. QED
      BY <3>1, EmitKeepsRelocking
  <2>2. ASSUME NEW n \in 1 .. Len(wire), ProcessWords(n) PROVE Relocking'
    <3>1. CleanWords'
      <4>1. Pipe \in Seq(Word) /\ Pipe' \in Seq(Word) /\ IsEnd(Pipe', Pipe)
        BY <2>2, PipeAfterRead
      <4>2. device' = device /\ calm' = calm
        BY <2>2, ProcessFacts
      <4>3. QED
        BY <4>1, <4>2, CleanEnd DEF Relocking
    <3>2. /\ Ending(n) \in Turns(Word) /\ Idle(Ending(n))
          /\ sync'.state = Ending(n).sync.state /\ sync'.expected = Ending(n).sync.expected
          /\ sync'.buffer = IF Ending(n).sync.state = Searching
                            THEN Trimmed(Ending(n).sync.buffer) ELSE Ending(n).sync.buffer
          /\ device' = device /\ calm' = calm /\ Len(wire') = Len(wire) - n
      BY <2>2, ProcessFacts
    <3>3. LockRight'
      <4> SUFFICES ASSUME sync'.state = Locked
                   PROVE  /\ Len(sync'.buffer) < WPS
                          /\ Len(sync'.buffer) + Len(wire') + WPS <= calm =>
                               sync'.expected = Look(device, Len(sync'.buffer) + Len(wire'))
        BY <3>2 DEF LockRight
      <4>1. Ending(n).sync.state = Locked /\ Searching # Locked
        BY <3>2 DEF Searching, Locked
      <4>2. sync'.buffer = Ending(n).sync.buffer
        BY <3>2, <4>1
      <4>3. Len(Ending(n).sync.buffer) < WPS
        BY <3>2, <4>1 DEF Idle
      <4>4. Held(Ending(n), Len(wire) - n)
        BY <2>2, EndingHeld DEF Relocking
      <4>5. QED
        BY <3>2, <4>1, <4>2, <4>3, <4>4 DEF Held
    <3>4. SearchShort'
      <4>1. sync'.state = Searching => \E s \in Nat : Searched(s)'
        BY <2>2, <3>2, ReadSearches DEF Relocking
      <4>2. QED
        BY <4>1 DEF SearchShort
    <3>5. QED
      BY <3>1, <3>3, <3>4 DEF Relocking
  <2>3. ASSUME NEW n \in 0 .. Len(wire), Restart(n) PROVE Relocking'
    <3>1. Pipe' \in Seq(Word) /\ Len(Pipe') \in Nat /\ Len(wire') \in Nat
      BY <2>3, PipeAfterRestart, RestartFacts, Elements
    <3>2. /\ sync'.state # Locked /\ Len(sync'.buffer) = 0 /\ calm' = 0 /\ WPS \in Nat \ {0}
      BY <2>3, RestartFacts, WpsAssumption DEF NewSynchronizer, Searching, Locked
    <3>3. CleanWords'
      BY <3>1, <3>2 DEF CleanWords, Clean
    <3>4. Searched(0)'
      <4> DEFINE e1 == Len(wire')
      <4>1. 0 - e1 <= 0 + WPS /\ \A o \in 1 .. WPS : ~(o <= 0)
        BY <3>1, <3>2
      <4> HIDE DEF e1
      <4>2. QED
        BY <3>2, <4>1 DEF Searched, e1
    <3>5. SearchShort'
      BY <3>4 DEF SearchShort
    <3>6. QED
      BY <3>2, <3>3, <3>5 DEF Relocking, LockRight
  <2>4. CASE UNCHANGED vars
    <3>1. sync' = sync /\ wire' = wire /\ device' = device /\ calm' = calm
      BY <2>4 DEF vars
    <3>2. QED
      BY <3>1 DEF Relocking, CleanWords, Clean, LockRight, SearchShort, Searched, Pipe
  <2>5. QED
    BY <2>1, <2>2, <2>3, <2>4 DEF Next
<1>3. Inv => Relocked
  BY CalmRelocks DEF Relocked
<1>4. QED
  BY <1>1, <1>2, <1>3, PTL DEF Spec

-----------------------------------------------------------------------------
(* The reference *)

\* The synchronizer of SyncCheck is that of the continuous stream.
LEMMA SameFeed ==
  \A s, words : R!Feed(s, words) = Feed(s, words)
BY DEF R!Feed, R!Settled, R!NewTurn, R!Turn, R!TryLock, R!TakeLocked, R!PairsAt, R!PairAt,
       R!From, R!Least, R!RawSubframe, R!Successor, R!Searching, R!Locked, R!Trimmed, R!Limit,
       R!DetectedWps,
       Feed, Settled, NewTurn, Turn, TryLock, TakeLocked, PairsAt, PairAt, From, Least,
       RawSubframe, Successor, Searching, Locked, Trimmed, Limit, DetectedWps

\* What the reference delivers of the last n words of h, from what it
\* delivers of one word less (x) and of a subframe less (y).
Delivers(h, n, x, y) ==
  [sf \in 0 .. 4 |->
     LET pos   == Len(h) - n + 1
         words == SubSeq(h, pos, pos + WPS - 1)
     IN  IF n < WPS THEN <<>>
         ELSE IF sf # 0
         THEN IF h[pos].sync = sf
              THEN <<RawSubframe(sf, words, TRUE)>> \o y[Successor(sf)]
              ELSE <<RawSubframe(sf, words, FALSE)>> \o x[0]
         ELSE IF n = WPS THEN <<>>
         ELSE IF PairAt(h, pos, WPS)
         THEN <<RawSubframe(h[pos].sync, words, TRUE)>> \o y[Successor(h[pos].sync)]
         ELSE x[0]]

\* The recursion of the reference has a solution.
LEMMA ReadsSteps ==
  ASSUME NEW h, Len(h) \in Nat
  PROVE  \A n \in 0 .. Len(h) :
           Reads(h)[n] = Delivers(h, n, Reads(h)[n - 1], Reads(h)[n - WPS])
<1> DEFINE Is(g, m) == g = [n \in 0 .. m |-> Delivers(h, n, g[n - 1], g[n - WPS])]
           T == {m \in Nat : \E g : Is(g, m)}
           f == CHOOSE g : Is(g, Len(h))
<1>0. WPS \in Nat \ {0}
  BY WpsAssumption
<1>1. Reads(h) = f
  BY DEF Reads, Delivers
<1>2. \A n \in Nat : n < WPS => \A x, y, x1, y1 : Delivers(h, n, x, y) = Delivers(h, n, x1, y1)
  BY DEF Delivers
<1>3. 0 \in T
  <2> DEFINE g == [n \in 0 .. 0 |-> Delivers(h, 0, <<>>, <<>>)]
  <2>1. g[0] = Delivers(h, 0, <<>>, <<>>) /\ g = [n \in 0 .. 0 |-> g[n]]
    OBVIOUS
  <2> HIDE DEF g
  <2>2. g[0] = Delivers(h, 0, g[0 - 1], g[0 - WPS])
    <3>1. 0 \in Nat /\ 0 < WPS
      BY <1>0
    <3>2. Delivers(h, 0, <<>>, <<>>) = Delivers(h, 0, g[0 - 1], g[0 - WPS])
      BY <1>2, <3>1
    <3>3. QED
      BY <2>1, <3>2
  <2>3. \A n \in 0 .. 0 : n = 0
    OBVIOUS
  <2>4. \A n \in 0 .. 0 : g[n] = Delivers(h, n, g[n - 1], g[n - WPS])
    BY <2>2, <2>3
  <2>5. Is(g, 0)
    BY <2>1, <2>4
  <2> HIDE DEF Is
  <2>6. QED
    BY <2>5
<1>4. ASSUME NEW m \in Nat, m \in T PROVE m + 1 \in T
  <2>1. PICK g : Is(g, m)
    BY <1>4
  <2> DEFINE new == Delivers(h, m + 1, g[m], g[m + 1 - WPS])
             k == [n \in 0 .. m + 1 |-> IF n = m + 1 THEN new ELSE g[n]]
  <2>2. /\ k = [n \in 0 .. m + 1 |-> k[n]] /\ k[m + 1] = new
        /\ \A n \in 0 .. m : k[n] = g[n]
    <3> HIDE DEF new
    <3>1. \A n \in 0 .. m : n \in 0 .. m + 1 /\ n # m + 1
      OBVIOUS
    <3>2. QED
      BY <3>1
  <2> HIDE DEF k
  <2>3. ASSUME NEW n \in 0 .. m + 1 PROVE k[n] = Delivers(h, n, k[n - 1], k[n - WPS])
    <3>1. CASE n < WPS
      <4>1. CASE n = m + 1
        <5>1. n \in Nat
          OBVIOUS
        <5>2. new = Delivers(h, n, g[m], g[m + 1 - WPS])
          BY <4>1
        <5>3. k[n] = new
          BY <2>2, <4>1
        <5>4. \A x, y, x1, y1 : Delivers(h, n, x, y) = Delivers(h, n, x1, y1)
          BY <1>2, <3>1, <5>1
        <5>5. Delivers(h, n, g[m], g[m + 1 - WPS]) = Delivers(h, n, k[n - 1], k[n - WPS])
          BY <5>4, Zenon
        <5>6. QED
          BY <5>2, <5>3, <5>5
      <4>2. CASE n # m + 1
        <5>1. n \in 0 .. m /\ n \in Nat
          BY <4>2
        <5>2. g[n] = Delivers(h, n, g[n - 1], g[n - WPS])
          BY <2>1, <5>1
        <5>3. k[n] = g[n]
          BY <2>2, <5>1
        <5>4. \A x, y, x1, y1 : Delivers(h, n, x, y) = Delivers(h, n, x1, y1)
          BY <1>2, <3>1, <5>1
        <5>5. Delivers(h, n, g[n - 1], g[n - WPS]) = Delivers(h, n, k[n - 1], k[n - WPS])
          BY <5>4, Zenon
        <5>6. QED
          BY <5>2, <5>3, <5>5
      <4>3. QED
        BY <4>1, <4>2
    <3>2. CASE ~(n < WPS)
      <4>1. n - 1 \in 0 .. m /\ n - WPS \in 0 .. m
        BY <1>0, <3>2
      <4>2. k[n - 1] = g[n - 1] /\ k[n - WPS] = g[n - WPS]
        BY <2>2, <4>1
      <4>3. CASE n = m + 1
        <5>1. n - 1 = m
          BY <4>3
        <5>2. QED
          BY <2>2, <4>2, <4>3, <5>1
      <4>4. CASE n # m + 1
        <5>1. n \in 0 .. m
          BY <4>4
        <5>2. g[n] = Delivers(h, n, g[n - 1], g[n - WPS])
          BY <2>1, <5>1
        <5>3. QED
          BY <2>2, <4>2, <5>1, <5>2
      <4>5. QED
        BY <4>3, <4>4
    <3>3. QED
      BY <3>1, <3>2
  <2>4. Is(k, m + 1)
    BY <2>2, <2>3
  <2> HIDE DEF Is
  <2>5. QED
    BY <2>4
<1> HIDE DEF T
<1>5. Nat \subseteq T
  BY <1>3, <1>4, SetInduction
<1>6. \E g : Is(g, Len(h))
  BY <1>5 DEF T
<1>7. Is(f, Len(h))
  BY <1>6
<1> HIDE DEF f
<1>8. \A n \in 0 .. Len(h) : f[n] = Delivers(h, n, f[n - 1], f[n - WPS])
  BY <1>7
<1>9. QED
  BY <1>1, <1>8

\* The same, case by case.
LEMMA ReadsCases ==
  ASSUME NEW h, Len(h) \in Nat, NEW n \in 0 .. Len(h)
  PROVE  LET rd    == Reads(h)
             pos   == Len(h) - n + 1
             words == SubSeq(h, pos, pos + WPS - 1)
         IN  /\ n < WPS => \A sf \in 0 .. 4 : rd[n][sf] = <<>>
             /\ n = WPS => rd[n][0] = <<>>
             /\ n >= WPS => \A sf \in 1 .. 4 :
                  rd[n][sf] = IF h[pos].sync = sf
                              THEN <<RawSubframe(sf, words, TRUE)>> \o rd[n - WPS][Successor(sf)]
                              ELSE <<RawSubframe(sf, words, FALSE)>> \o rd[n - 1][0]
             /\ n > WPS /\ PairAt(h, pos, WPS) =>
                  rd[n][0] = <<RawSubframe(h[pos].sync, words, TRUE)>>
                               \o rd[n - WPS][Successor(h[pos].sync)]
             /\ n > WPS /\ ~PairAt(h, pos, WPS) => rd[n][0] = rd[n - 1][0]
<1> DEFINE rd == Reads(h)
           x == rd[n - 1]
           y == rd[n - WPS]
           pos == Len(h) - n + 1
           words == SubSeq(h, pos, pos + WPS - 1)
<1>0. WPS \in Nat \ {0} /\ n \in Nat
  BY WpsAssumption
<1>1. rd[n] = Delivers(h, n, x, y)
  BY ReadsSteps
<1> HIDE DEF rd, x, y
<1>2. \A sf \in 0 .. 4 :
        rd[n][sf] =
          IF n < WPS THEN <<>>
          ELSE IF sf # 0
          THEN IF h[pos].sync = sf
               THEN <<RawSubframe(sf, words, TRUE)>> \o y[Successor(sf)]
               ELSE <<RawSubframe(sf, words, FALSE)>> \o x[0]
          ELSE IF n = WPS THEN <<>>
          ELSE IF PairAt(h, pos, WPS)
          THEN <<RawSubframe(h[pos].sync, words, TRUE)>> \o y[Successor(h[pos].sync)]
          ELSE x[0]
  BY <1>1 DEF Delivers
<1> HIDE DEF pos, words
<1>3. 0 \in 0 .. 4 /\ \A sf \in 1 .. 4 : sf \in 0 .. 4 /\ sf # 0
  OBVIOUS
<1>4. /\ n < WPS => \A sf \in 0 .. 4 : rd[n][sf] = <<>>
      /\ n = WPS => rd[n][0] = <<>>
  BY <1>0, <1>2, <1>3
<1>5. ~(n >= WPS /\ n < WPS) /\ (n > WPS => ~(n < WPS) /\ n # WPS)
  BY <1>0
<1>6. n >= WPS => \A sf \in 1 .. 4 :
        rd[n][sf] = IF h[pos].sync = sf
                    THEN <<RawSubframe(sf, words, TRUE)>> \o y[Successor(sf)]
                    ELSE <<RawSubframe(sf, words, FALSE)>> \o x[0]
  BY <1>2, <1>3, <1>5, Zenon
<1>7. /\ n > WPS /\ PairAt(h, pos, WPS) =>
           rd[n][0] = <<RawSubframe(h[pos].sync, words, TRUE)>> \o y[Successor(h[pos].sync)]
      /\ n > WPS /\ ~PairAt(h, pos, WPS) => rd[n][0] = x[0]
  BY <1>2, <1>3, <1>5, Zenon
<1>8. QED
  BY <1>4, <1>6, <1>7 DEF rd, x, y, pos, words

\* The same, with a name for the position.
LEMMA ReadsAt ==
  ASSUME NEW h, Len(h) \in Nat, NEW n \in 0 .. Len(h), NEW pos, Len(h) - n + 1 = pos
  PROVE  LET rd    == Reads(h)
             words == SubSeq(h, pos, pos + WPS - 1)
         IN  /\ n >= WPS => \A sf \in 1 .. 4 :
                  rd[n][sf] = IF h[pos].sync = sf
                              THEN <<RawSubframe(sf, words, TRUE)>> \o rd[n - WPS][Successor(sf)]
                              ELSE <<RawSubframe(sf, words, FALSE)>> \o rd[n - 1][0]
             /\ n > WPS /\ PairAt(h, pos, WPS) =>
                  rd[n][0] = <<RawSubframe(h[pos].sync, words, TRUE)>>
                               \o rd[n - WPS][Successor(h[pos].sync)]
BY ReadsCases

\* At a pair a reader who searches reads on as one who expects its first word.
LEMMA ReadsPair ==
  ASSUME NEW h, Len(h) \in Nat, NEW n \in 0 .. Len(h), n > WPS,
         NEW pos, Len(h) - n + 1 = pos, PairAt(h, pos, WPS), h[pos].sync \in 1 .. 4
  PROVE  Reads(h)[n][0] = Reads(h)[n][h[pos].sync]
<1> DEFINE words == SubSeq(h, pos, pos + WPS - 1)
           sf == h[pos].sync
           taken == <<RawSubframe(sf, words, TRUE)>> \o Reads(h)[n - WPS][Successor(sf)]
<1>1. Reads(h)[n][0] = taken
  BY ReadsAt
<1>2. Reads(h)[n][sf] =
        IF h[pos].sync = sf THEN taken
        ELSE <<RawSubframe(sf, words, FALSE)>> \o Reads(h)[n - 1][0]
  <2>1. WPS \in Nat /\ n >= WPS
    BY WpsAssumption
  <2>2. QED
    BY <2>1, ReadsAt
<1> HIDE DEF taken
<1>3. QED
  BY <1>1, <1>2

\* Fewer words than a subframe deliver nothing.
LEMMA ReadsShort ==
  ASSUME NEW h, Len(h) \in Nat
  PROVE  \A n \in 0 .. Len(h), sf \in 0 .. 4 : n < WPS => Reads(h)[n][sf] = <<>>
<1> SUFFICES ASSUME NEW n \in 0 .. Len(h), NEW sf \in 0 .. 4, n < WPS
             PROVE  Reads(h)[n][sf] = <<>>
  OBVIOUS
<1> DEFINE x == Reads(h)[n - 1]
           y == Reads(h)[n - WPS]
<1>1. Reads(h)[n] = Delivers(h, n, x, y)
  BY ReadsSteps
<1> HIDE DEF x, y
<1>2. Delivers(h, n, x, y)[sf] = <<>>
  BY DEF Delivers
<1>3. QED
  BY <1>1, <1>2

\* The subframe at a position, whether a turn cuts it or the reference does.
LEMMA RawFacts ==
  ASSUME NEW W, NEW h \in Seq(W), NEW n \in 0 .. Len(h), n >= WPS, NEW sf \in 1 .. 4,
         NEW valid \in BOOLEAN
  PROVE  LET pos == Len(h) - n + 1
         IN  /\ pos \in 1 .. Len(h)
             /\ SubSeq(h, pos, pos + WPS - 1) \in Seq(W)
             /\ RawSubframe(sf, SubSeq(h, pos, pos + WPS - 1), valid) \in Raws(W)
<1> DEFINE pos == Len(h) - n + 1
           q == pos + WPS - 1
<1>1. WPS \in Nat \ {0} /\ Len(h) \in Nat
  BY WpsAssumption, Elements
<1>2. pos \in 1 .. Len(h) /\ pos \in 1 .. Len(h) + 1 /\ q \in pos - 1 .. Len(h)
  BY <1>1
<1> HIDE DEF pos, q
<1>3. SubSeq(h, pos, q) \in Seq(W)
  BY <1>2, PieceFacts
<1>4. RawSubframe(sf, SubSeq(h, pos, q), valid) \in Raws(W)
  BY <1>3 DEF RawSubframe, Raws
<1>5. QED
  BY <1>2, <1>3, <1>4 DEF pos, q

\* The reference delivers subframes.
LEMMA ReadsType ==
  ASSUME NEW W, Readable(W), NEW h \in Seq(W)
  PROVE  \A n \in 0 .. Len(h), sf \in 0 .. 4 : Reads(h)[n][sf] \in Seq(Raws(W))
<1> DEFINE rd == Reads(h)
           U == {k \in Nat : \A n \in 0 .. Len(h) :
                   n <= k => \A sf \in 0 .. 4 : rd[n][sf] \in Seq(Raws(W))}
<1>1. WPS \in Nat \ {0} /\ Len(h) \in Nat /\ \A i \in 1 .. Len(h) : h[i] \in W
  BY WpsAssumption, Elements
<1>2. <<>> \in Seq(Raws(W))
  BY EmptySeq
<1>3. \A n \in 0 .. Len(h), sf \in 0 .. 4 : n < WPS => rd[n][sf] = <<>>
  BY <1>1, ReadsShort
<1>4. 0 \in U
  <2>1. \A n \in 0 .. Len(h) : n <= 0 => n < WPS
    BY <1>1
  <2> HIDE DEF rd
  <2>2. QED
    BY <1>2, <1>3, <2>1
\* A subframe more.
<1>5. ASSUME NEW raw \in Raws(W), NEW x \in Seq(Raws(W)) PROVE <<raw>> \o x \in Seq(Raws(W))
  <2>1. <<raw>> \in Seq(Raws(W))
    OBVIOUS
  <2>2. QED
    BY <2>1, JoinFacts
<1>6. ASSUME NEW k \in Nat, k \in U PROVE k + 1 \in U
  <2>1. ASSUME NEW n \in 0 .. Len(h), n <= k + 1, NEW sf \in 0 .. 4
        PROVE  rd[n][sf] \in Seq(Raws(W))
    <3> DEFINE pos == Len(h) - n + 1
               words == SubSeq(h, pos, pos + WPS - 1)
    <3>1. CASE n < WPS
      BY <1>2, <1>3, <3>1
    <3>2. CASE n >= WPS
      <4>1. /\ n - 1 \in 0 .. Len(h) /\ n - 1 <= k /\ n - WPS \in 0 .. Len(h) /\ n - WPS <= k
        BY <1>1, <2>1, <3>2
      <4>2. /\ \A s \in 1 .. 4 : rd[n - WPS][Successor(s)] \in Seq(Raws(W))
            /\ rd[n - 1][0] \in Seq(Raws(W))
        <5>1. \A s \in 1 .. 4 : Successor(s) \in 0 .. 4
          BY SuccessorType
        <5> HIDE DEF rd
        <5>2. \A i \in 0 .. Len(h) : i <= k => \A s \in 0 .. 4 : rd[i][s] \in Seq(Raws(W))
          BY <1>6
        <5> HIDE DEF U
        <5>3. \A s \in 0 .. 4 : rd[n - WPS][s] \in Seq(Raws(W)) /\ rd[n - 1][s] \in Seq(Raws(W))
          BY <4>1, <5>2, Zenon
        <5>4. 0 \in 0 .. 4
          OBVIOUS
        <5>5. QED
          BY <5>1, <5>3, <5>4
      <4>3. \A s \in 1 .. 4, v \in BOOLEAN : RawSubframe(s, words, v) \in Raws(W)
        BY <3>2, RawFacts
      <4>4. pos \in 1 .. Len(h)
        BY <1>1, <3>2
      <4>5. h[pos].sync \in 0 .. 4
        BY <1>1, <4>4 DEF Readable
      <4>6. CASE sf # 0
        <5>1. sf \in 1 .. 4
          BY <4>6
        <5>2. rd[n][sf] = IF h[pos].sync = sf
                          THEN <<RawSubframe(sf, words, TRUE)>> \o rd[n - WPS][Successor(sf)]
                          ELSE <<RawSubframe(sf, words, FALSE)>> \o rd[n - 1][0]
          BY <1>1, <3>2, <5>1, ReadsCases
        <5> HIDE DEF rd, words, pos
        <5>3. /\ <<RawSubframe(sf, words, TRUE)>> \o rd[n - WPS][Successor(sf)] \in Seq(Raws(W))
              /\ <<RawSubframe(sf, words, FALSE)>> \o rd[n - 1][0] \in Seq(Raws(W))
          BY <1>5, <4>2, <4>3, <5>1
        <5>4. QED
          BY <5>2, <5>3
      <4>7. CASE sf = 0 /\ n = WPS
        <5>1. rd[n][0] = <<>>
          BY <1>1, <4>7, ReadsCases
        <5> HIDE DEF rd
        <5>2. QED
          BY <1>2, <4>7, <5>1
      <4>8. CASE sf = 0 /\ n # WPS /\ PairAt(h, pos, WPS)
        <5>1. h[pos].sync \in 1 .. 4 /\ n > WPS
          BY <1>1, <3>2, <4>5, <4>8 DEF PairAt
        <5>2. rd[n][0] = <<RawSubframe(h[pos].sync, words, TRUE)>>
                           \o rd[n - WPS][Successor(h[pos].sync)]
          BY <1>1, <4>8, <5>1, ReadsCases
        <5> HIDE DEF rd, words, pos
        <5>3. <<RawSubframe(h[pos].sync, words, TRUE)>>
                \o rd[n - WPS][Successor(h[pos].sync)] \in Seq(Raws(W))
          BY <1>5, <4>2, <4>3, <5>1
        <5>4. QED
          BY <4>8, <5>2, <5>3
      <4>9. CASE sf = 0 /\ n # WPS /\ ~PairAt(h, pos, WPS)
        <5>1. n > WPS
          BY <1>1, <3>2, <4>9
        <5>2. rd[n][0] = rd[n - 1][0]
          BY <1>1, <4>9, <5>1, ReadsCases
        <5>3. QED
          BY <4>2, <4>9, <5>2
      <4>10. QED
        BY <4>6, <4>7, <4>8, <4>9
    <3>3. QED
      BY <1>1, <3>1, <3>2
  <2>2. QED
    BY <2>1
<1> HIDE DEF U
<1>7. Nat \subseteq U
  BY <1>4, <1>6, SetInduction
<1>8. ASSUME NEW n \in 0 .. Len(h) PROVE n \in U /\ n <= n
  BY <1>1, <1>7
<1>9. QED
  BY <1>8 DEF U

\* Where there is no pair, a search that begins further on delivers the same.
LEMMA SearchSkips ==
  ASSUME NEW h, Len(h) \in Nat, NEW n \in 0 .. Len(h), NEW k \in 0 .. n,
         \A j \in k + 1 .. n : j > WPS => ~PairAt(h, Len(h) - j + 1, WPS)
  PROVE  Reads(h)[n][0] = Reads(h)[k][0]
<1> DEFINE rd == Reads(h)
           U == {i \in Nat : k + i <= n => rd[k + i][0] = rd[k][0]}
<1>1. WPS \in Nat \ {0} /\ k \in Nat /\ n \in Nat /\ n <= Len(h) /\ k <= n
  BY WpsAssumption
<1>2. 0 \in U
  BY <1>1
<1>3. ASSUME NEW i \in Nat, i \in U PROVE i + 1 \in U
  <2> SUFFICES ASSUME k + (i + 1) <= n PROVE rd[k + (i + 1)][0] = rd[k][0]
    OBVIOUS
  <2> DEFINE j == k + (i + 1)
  <2>1. /\ j \in 0 .. Len(h) /\ j \in k + 1 .. n /\ j - 1 = k + i /\ k + i <= n
        /\ k + i \in 0 .. Len(h) /\ j \in Nat
    BY <1>1
  <2>2. rd[k + i][0] = rd[k][0]
    BY <1>3, <2>1
  <2>3. rd[j][0] = rd[j - 1][0]
    <3> HIDE DEF j
    <3>1. CASE j > WPS
      <4>1. ~PairAt(h, Len(h) - j + 1, WPS)
        BY <2>1, <3>1
      <4>2. QED
        BY <2>1, <3>1, <4>1, ReadsCases
    <3>2. CASE j <= WPS
      <4>1. rd[j][0] = <<>>
        <5>1. j = WPS \/ j < WPS
          BY <1>1, <2>1, <3>2
        <5>2. 0 \in 0 .. 4
          OBVIOUS
        <5>3. QED
          BY <2>1, <5>1, <5>2, ReadsCases
      <4>2. rd[j - 1][0] = <<>>
        <5>1. j - 1 < WPS /\ j - 1 \in 0 .. Len(h)
          BY <1>1, <2>1, <3>2
        <5>2. 0 \in 0 .. 4
          OBVIOUS
        <5>3. QED
          BY <5>1, <5>2, ReadsCases
      <4>3. QED
        BY <4>1, <4>2
    <3>3. QED
      BY <1>1, <2>1, <3>1, <3>2
  <2> HIDE DEF rd
  <2>4. QED
    BY <2>1, <2>2, <2>3
<1> HIDE DEF U
<1>4. Nat \subseteq U
  BY <1>2, <1>3, SetInduction
<1>5. n - k \in U /\ k + (n - k) = n
  BY <1>1, <1>4
<1>6. QED
  BY <1>1, <1>5 DEF U

\* Concatenation; the provers do better with a name than with a chain of \o.
Joined(a, b) == a \o b

\* Concatenation is associative.
LEMMA JoinedFacts ==
  ASSUME NEW V, NEW a \in Seq(V), NEW b \in Seq(V)
  PROVE  /\ Joined(a, b) \in Seq(V)
         /\ \A c \in Seq(V) : Joined(Joined(a, b), c) = Joined(a, Joined(b, c))
BY ConcatAssociative, ConcatProperties, SMT DEF Joined

\* The first m words of the stream.
Sofar(m) == SubSeq(stream, 1, m)

\* What the reference expects of the first word of the buffer.
Key(s) == IF s.state = Searching THEN 0 ELSE s.expected

\* The buffer holds the last words of the first f.
HoldsLast(buf, f) ==
  /\ Len(buf) <= f
  /\ \A i \in 1 .. Len(buf) : buf[i] = stream[f - Len(buf) + i]

\* What was delivered, raws, and what the reference delivers of the words that
\* s holds and of those to come, up to the mth, is what it delivers of m words.
OnTrack(raws, s, f, m) ==
  Reads(Sofar(m))[m][0] = Joined(raws, Reads(Sofar(m))[m - f + Len(s.buffer)][Key(s)])

\* The beginning of the stream.
LEMMA SofarFacts ==
  ASSUME NEW W, stream \in Seq(W), NEW m \in 0 .. Len(stream)
  PROVE  /\ Len(stream) \in Nat /\ m \in Nat
         /\ Sofar(m) \in Seq(W) /\ Len(Sofar(m)) = m
         /\ \A i \in 1 .. m : Sofar(m)[i] = stream[i]
<1>1. Len(stream) \in Nat /\ m \in Nat
  BY Elements
<1>2. /\ SubSeq(stream, 1, m) \in Seq(W) /\ Len(SubSeq(stream, 1, m)) = m
      /\ \A i \in 1 .. m : SubSeq(stream, 1, m)[i] = stream[i]
  BY ReadFacts
<1>3. QED
  BY <1>1, <1>2 DEF Sofar

\* What is left of the buffer still holds the last words.
LEMMA HoldsFrom ==
  ASSUME NEW W, NEW buf \in Seq(W), NEW f \in Nat, HoldsLast(buf, f), NEW p \in 1 .. Len(buf) + 1
  PROVE  HoldsLast(From(buf, p), f)
<1> DEFINE v == From(buf, p)
<1>1. /\ Len(buf) \in Nat /\ Len(v) = Len(buf) - p + 1 /\ Len(buf) <= f
      /\ \A i \in 1 .. Len(buf) - p + 1 : v[i] = buf[p + i - 1]
  BY Elements, FromFacts DEF HoldsLast
<1> HIDE DEF v
<1>2. ASSUME NEW i \in 1 .. Len(v) PROVE v[i] = stream[f - Len(v) + i]
  <2> DEFINE k == p + i - 1
  <2>1. k \in 1 .. Len(buf) /\ f - Len(buf) + k = f - Len(v) + i
    BY <1>1
  <2>2. v[i] = buf[k]
    BY <1>1
  <2> HIDE DEF k
  <2>3. buf[k] = stream[f - Len(buf) + k]
    BY <2>1 DEF HoldsLast
  <2>4. QED
    BY <2>1, <2>2, <2>3
<1>3. Len(v) <= f
  BY <1>1
<1>4. QED
  BY <1>2, <1>3 DEF HoldsLast, v

\* A word of the buffer is a word of the stream.
LEMMA HeldWord ==
  ASSUME NEW W, stream \in Seq(W), NEW f \in 0 .. Len(stream), NEW m \in f .. Len(stream),
         NEW buf \in Seq(W), HoldsLast(buf, f), NEW i \in 1 .. Len(buf)
  PROVE  f - Len(buf) + i \in 1 .. m /\ Sofar(m)[f - Len(buf) + i] = buf[i]
<1> DEFINE k == f - Len(buf) + i
<1>1. /\ Len(buf) \in Nat /\ Len(buf) <= f /\ Len(stream) \in Nat /\ m \in 0 .. Len(stream)
      /\ buf[i] = stream[k]
  BY Elements DEF HoldsLast
<1>2. k \in 1 .. m
  BY <1>1
<1> HIDE DEF k
<1>3. Sofar(m)[k] = stream[k]
  BY <1>1, <1>2, SofarFacts
<1>4. QED
  BY <1>1, <1>2, <1>3 DEF k

\* A pair of the buffer is a pair of the stream, and the other way round.
LEMMA HeldPair ==
  ASSUME NEW W, stream \in Seq(W), NEW f \in 0 .. Len(stream), NEW m \in f .. Len(stream),
         NEW buf \in Seq(W), HoldsLast(buf, f), NEW p \in 1 .. Len(buf), NEW d \in Nat,
         p + d <= Len(buf)
  PROVE  PairAt(Sofar(m), f - Len(buf) + p, d) <=> PairAt(buf, p, d)
<1> DEFINE h == Sofar(m)
           k == f - Len(buf) + p
           q == p + d
           l == f - Len(buf) + q
<1>1. Len(buf) \in Nat /\ q \in 1 .. Len(buf) /\ l = k + d
  BY Elements
<1> HIDE DEF q
<1>2. h[k] = buf[p] /\ h[l] = buf[q]
  BY <1>1, HeldWord
<1> HIDE DEF h, k, l
<1>3. PairAt(h, k, d) <=> PairAt(buf, p, d)
  BY <1>1, <1>2 DEF PairAt, q
<1>4. QED
  BY <1>3 DEF h, k

\* So is the first subframe of the buffer.
LEMMA HeldPiece ==
  ASSUME NEW W, stream \in Seq(W), NEW f \in 0 .. Len(stream), NEW m \in f .. Len(stream),
         NEW buf \in Seq(W), HoldsLast(buf, f), Len(buf) >= WPS
  PROVE  LET pos == f - Len(buf) + 1
         IN  SubSeq(Sofar(m), pos, pos + WPS - 1) = SubSeq(buf, 1, WPS)
<1> DEFINE pos == f - Len(buf) + 1
           q == pos + WPS - 1
           h == Sofar(m)
           x == SubSeq(h, pos, q)
           y == SubSeq(buf, 1, WPS)
<1>1. /\ WPS \in Nat \ {0} /\ Len(buf) \in Nat /\ Len(buf) <= f /\ Len(stream) \in Nat
      /\ m \in 0 .. Len(stream)
  BY WpsAssumption, Elements DEF HoldsLast
<1>2. h \in Seq(W) /\ Len(h) = m
  BY <1>1, SofarFacts
<1>3. pos \in 1 .. Len(h) + 1 /\ q \in pos - 1 .. Len(h) /\ q - pos + 1 = WPS
  BY <1>1, <1>2
<1>4. \A i \in 1 .. WPS : h[pos + i - 1] = buf[i]
  <2> SUFFICES ASSUME NEW i \in 1 .. WPS PROVE h[pos + i - 1] = buf[i]
    OBVIOUS
  <2>1. i \in 1 .. Len(buf) /\ pos + i - 1 = f - Len(buf) + i
    BY <1>1
  <2>2. h[f - Len(buf) + i] = buf[i]
    BY <2>1, HeldWord
  <2>3. QED
    BY <2>1, <2>2
<1> HIDE DEF pos, q, h
<1>5. /\ x \in Seq(W) /\ Len(x) = WPS /\ \A i \in 1 .. WPS : x[i] = h[pos + i - 1]
  BY <1>2, <1>3, PieceFacts
<1>6. y \in Seq(W) /\ Len(y) = WPS /\ \A i \in 1 .. WPS : y[i] = buf[i]
  <2>1. WPS \in 0 .. Len(buf)
    BY <1>1
  <2>2. QED
    BY <2>1, ReadFacts
<1> HIDE DEF x, y
<1>7. \A i \in 1 .. WPS : x[i] = y[i]
  BY <1>4, <1>5, <1>6
<1>8. x = y
  BY <1>5, <1>6, <1>7, SeqEqual
<1>9. QED
  BY <1>8 DEF x, y, h, q, pos

\* One element moves from the second sequence to the first.
LEMMA JoinMore ==
  ASSUME NEW V, NEW d \in Seq(V), NEW s \in Seq(V), NEW r \in V, NEW x \in Seq(V)
  PROVE  Joined(Joined(d, s), Joined(<<r>>, x)) = Joined(Joined(d, Append(s, r)), x)
<1> DEFINE e == <<r>>
<1>1. e \in Seq(V) /\ Append(s, r) = Joined(s, e)
  BY AppendIsConcat DEF Joined
<1> HIDE DEF e
<1>2. Joined(d, s) \in Seq(V)
  BY JoinedFacts
<1>3. Joined(Joined(d, s), Joined(e, x)) = Joined(Joined(Joined(d, s), e), x)
  BY <1>1, <1>2, JoinedFacts
<1>4. Joined(Joined(d, s), e) = Joined(d, Joined(s, e))
  BY <1>1, JoinedFacts
<1>5. QED
  BY <1>1, <1>3, <1>4 DEF e

\* A turn delivers what the reference does.
LEMMA TurnOnTrack ==
  ASSUME NEW W, Readable(W), stream \in Seq(W), NEW f \in 0 .. Len(stream),
         NEW m \in f .. Len(stream), NEW d \in Seq(Raws(W)), NEW u \in Turns(W),
         HoldsLast(u.sync.buffer, f), OnTrack(Joined(d, u.subframes), u.sync, f, m)
  PROVE  /\ HoldsLast(Turn(u).sync.buffer, f)
         /\ OnTrack(Joined(d, Turn(u).subframes), Turn(u).sync, f, m)
<1> DEFINE buf == u.sync.buffer
           b   == Len(buf)
           sf  == u.sync.expected
           h   == Sofar(m)
           rd  == Reads(h)
           n   == m - f + b
           words == SubSeq(buf, 1, WPS)
<1>1. /\ WPS \in Nat \ {0} /\ b \in Nat /\ buf \in Seq(W) /\ sf \in 1 .. 4 /\ f \in Nat
      /\ m \in Nat /\ m \in 0 .. Len(stream) /\ f <= m /\ u.subframes \in Seq(Raws(W))
      /\ Searching # Locked /\ b <= f
  BY WpsAssumption, TurnFields, Elements DEF Searching, Locked, HoldsLast
<1>2. h \in Seq(W) /\ Len(h) = m
  BY <1>1, SofarFacts
<1>3. n \in 0 .. m /\ n >= b /\ m - n + 1 = f - b + 1
  BY <1>1
<1>4. rd[m][0] = Joined(Joined(d, u.subframes), rd[n][Key(u.sync)])
  BY DEF OnTrack
<1>5. \A k \in 0 .. m, s \in 0 .. 4 : rd[k][s] \in Seq(Raws(W))
  BY <1>2, ReadsType
<1>6. HoldsLast(buf, f)
  OBVIOUS
<1>7. CASE Idle(u) /\ Turn(u) = u
  BY <1>7
<1>8. CASE \E pos \in PairsAt(buf, WPS) : LocksAt(u, pos)
  <2>1. PICK pos \in PairsAt(buf, WPS) : LocksAt(u, pos)
    BY <1>8
  <2>2. pos \in 1 .. b /\ pos \in 1 .. b + 1 /\ pos + WPS <= b /\ buf[pos].sync \in 1 .. 4
    BY <1>1, <2>1, PairFacts
  <2>3. /\ Turn(u).sync.buffer = From(buf, pos) /\ Turn(u).sync.state = Locked
        /\ Turn(u).sync.expected = buf[pos].sync /\ Turn(u).subframes = u.subframes
        /\ u.sync.state = Searching
        /\ \A q \in PairsAt(buf, WPS) : pos <= q
    BY <2>1 DEF LocksAt, TurnOf
  <2>4. PairAt(buf, pos, WPS)
    BY <2>1 DEF PairsAt
  <2> HIDE DEF buf, b, h, rd, n
  <2> DEFINE k == n - pos + 1
             at == f - b + pos
  <2>5. /\ HoldsLast(From(buf, pos), f) /\ Len(From(buf, pos)) = b - pos + 1
    BY <1>1, <1>6, <2>2, HoldsFrom, FromFacts DEF b
  <2>6. m - f + (b - pos + 1) = k /\ k \in 0 .. n /\ k > WPS /\ m - k + 1 = at /\ k \in 0 .. m
    BY <1>1, <1>3, <2>2 DEF n
  <2>7. rd[n][0] = rd[k][0]
    <3>1. ASSUME NEW j \in k + 1 .. n, j > WPS PROVE ~PairAt(h, m - j + 1, WPS)
      <4> DEFINE q == n - j + 1
      <4>1. q \in 1 .. b /\ q < pos /\ q + WPS <= b /\ f - b + q = m - j + 1
        BY <1>1, <1>3, <2>2, <3>1 DEF n
      <4> HIDE DEF q, k
      <4>2. ~PairAt(buf, q, WPS)
        <5>1. q \notin PairsAt(buf, WPS)
          BY <2>2, <2>3, <4>1
        <5>2. q \in 1 .. b - WPS
          BY <1>1, <4>1
        <5>3. QED
          BY <5>1, <5>2 DEF PairsAt, b
      <4>3. ~PairAt(h, f - b + q, WPS)
        BY <1>1, <1>6, <4>1, <4>2, HeldPair DEF b, h
      <4>4. QED
        BY <4>1, <4>3
    <3>2. n \in 0 .. Len(h) /\ k \in 0 .. n /\ Len(h) \in Nat
      BY <1>1, <1>2, <1>3, <2>6
    <3> HIDE DEF k
    <3>3. \A j \in k + 1 .. n : j > WPS => ~PairAt(h, Len(h) - j + 1, WPS)
      BY <1>2, <3>1
    <3>4. QED
      BY <3>2, <3>3, SearchSkips DEF rd
  <2>8. rd[k][0] = rd[k][buf[pos].sync]
    <3>1. PairAt(h, at, WPS) /\ h[at] = buf[pos]
      <4>1. PairAt(h, f - b + pos, WPS)
        BY <1>1, <1>6, <2>2, <2>4, HeldPair DEF b, h
      <4>2. h[f - b + pos] = buf[pos]
        <5>1. pos \in 1 .. Len(buf) /\ buf \in Seq(W)
          BY <1>1, <2>2 DEF b
        <5>2. QED
          BY <1>6, <5>1, HeldWord DEF b, h
      <4>3. QED
        BY <4>1, <4>2
    <3> HIDE DEF at, k
    <3>2. k \in 0 .. Len(h) /\ Len(h) \in Nat /\ Len(h) - k + 1 = at /\ k >= WPS
      BY <1>1, <1>2, <2>6
    <3>3. k > WPS /\ h[at].sync \in 1 .. 4
      BY <2>2, <2>6, <3>1
    <3>4. rd[k][0] = rd[k][h[at].sync]
      BY <3>1, <3>2, <3>3, ReadsPair DEF rd
    <3>5. QED
      BY <3>1, <3>4
  <2>9. Key(u.sync) = 0 /\ Key(Turn(u).sync) = buf[pos].sync
    BY <1>1, <2>3 DEF Key
  <2>10. rd[m][0] = Joined(Joined(d, Turn(u).subframes), rd[k][Key(Turn(u).sync)])
    BY <1>4, <2>3, <2>7, <2>8, <2>9
  <2>11. m - f + Len(Turn(u).sync.buffer) = k
    BY <2>3, <2>5, <2>6
  <2>12. OnTrack(Joined(d, Turn(u).subframes), Turn(u).sync, f, m)
    <3> HIDE DEF k
    <3>1. QED
      BY <2>10, <2>11 DEF OnTrack, rd, h
  <2>13. QED
    BY <2>3, <2>5, <2>12
<1>9. ASSUME b >= WPS, u.sync.state = Locked
      PROVE  /\ n \in 0 .. Len(h) /\ n >= WPS /\ Key(u.sync) = sf
             /\ rd[n][sf] = IF buf[1].sync = sf
                            THEN <<RawSubframe(sf, words, TRUE)>> \o rd[n - WPS][Successor(sf)]
                            ELSE <<RawSubframe(sf, words, FALSE)>> \o rd[n - 1][0]
             /\ \A v \in BOOLEAN : RawSubframe(sf, words, v) \in Raws(W)
  <2> DEFINE pos == m - n + 1
  <2> HIDE DEF buf, b, h, rd, n, words, sf
  <2>1. n \in 0 .. Len(h) /\ n >= WPS /\ Len(h) \in Nat /\ pos = f - b + 1 /\ Len(h) - n + 1 = pos
    BY <1>1, <1>2, <1>3, <1>9
  <2>2. h[pos] = buf[1]
    <3>1. 1 \in 1 .. b
      BY <1>1, <1>9
    <3>2. h[f - b + 1] = buf[1]
      BY <1>1, <1>6, <3>1, HeldWord DEF b, h
    <3>3. QED
      BY <2>1, <3>2
  <2>3. SubSeq(h, pos, pos + WPS - 1) = words
    <3>1. SubSeq(h, f - b + 1, f - b + 1 + WPS - 1) = words
      BY <1>1, <1>6, <1>9, HeldPiece DEF b, h, words
    <3>2. QED
      BY <2>1, <3>1
  <2> HIDE DEF pos
  <2>4. rd[n][sf] = IF h[pos].sync = sf
                    THEN <<RawSubframe(sf, SubSeq(h, pos, pos + WPS - 1), TRUE)>>
                           \o rd[n - WPS][Successor(sf)]
                    ELSE <<RawSubframe(sf, SubSeq(h, pos, pos + WPS - 1), FALSE)>>
                           \o rd[n - 1][0]
    <3>1. sf \in 1 .. 4
      BY <1>1
    <3>2. QED
      BY <2>1, <3>1, ReadsAt DEF rd
  <2>5. Key(u.sync) = sf
    BY <1>1, <1>9 DEF Key, sf
  <2>6. \A v \in BOOLEAN : RawSubframe(sf, words, v) \in Raws(W)
    <3>1. \A v \in BOOLEAN : RawSubframe(sf, SubSeq(h, pos, pos + WPS - 1), v) \in Raws(W)
      BY <1>1, <1>2, <2>1, RawFacts
    <3>2. QED
      BY <2>3, <3>1
  <2>7. QED
    BY <2>1, <2>2, <2>3, <2>4, <2>5, <2>6
\* A subframe more was delivered, and k words are left.
<1>10. ASSUME NEW v \in BOOLEAN, NEW k \in 0 .. m, NEW s \in 0 .. 4,
              RawSubframe(sf, words, v) \in Raws(W),
              rd[n][Key(u.sync)] = <<RawSubframe(sf, words, v)>> \o rd[k][s],
              Turn(u).subframes = Append(u.subframes, RawSubframe(sf, words, v)),
              m - f + Len(Turn(u).sync.buffer) = k, Key(Turn(u).sync) = s
       PROVE  OnTrack(Joined(d, Turn(u).subframes), Turn(u).sync, f, m)
  <2> DEFINE raw == RawSubframe(sf, words, v)
             x == rd[k][s]
             done == u.subframes
  <2>1. /\ raw \in Raws(W) /\ x \in Seq(Raws(W)) /\ done \in Seq(Raws(W))
        /\ d \in Seq(Raws(W))
    BY <1>1, <1>5, <1>10
  <2>2. /\ rd[m][0] = Joined(Joined(d, done), Joined(<<raw>>, x))
        /\ Turn(u).subframes = Append(done, raw)
    BY <1>4, <1>10 DEF Joined
  <2> HIDE DEF raw, x, done, n, buf, b, words, sf, rd
  <2>3. rd[m][0] = Joined(Joined(d, Append(done, raw)), x)
    <3>1. d \in Seq(Raws(W))
      BY <2>1
    <3>2. done \in Seq(Raws(W))
      BY <2>1
    <3>3. raw \in Raws(W)
      BY <2>1
    <3>4. x \in Seq(Raws(W))
      BY <2>1
    <3>5. Joined(Joined(d, done), Joined(<<raw>>, x)) = Joined(Joined(d, Append(done, raw)), x)
      BY <3>1, <3>2, <3>3, <3>4, JoinMore
    <3>6. QED
      BY <2>2, <3>5
  <2>4. rd[m][0] = Joined(Joined(d, Turn(u).subframes), rd[k][s])
    BY <2>2, <2>3 DEF x
  <2> HIDE DEF h
  <2>5. QED
    BY <1>10, <2>4 DEF OnTrack, rd, h
<1>11. CASE Loses(u)
  <2>1. /\ u.sync.state = Locked /\ b >= WPS /\ buf[1].sync # sf
        /\ Turn(u).sync.buffer = From(buf, 2) /\ Turn(u).sync.state = Searching
        /\ Turn(u).subframes = Append(u.subframes, RawSubframe(sf, words, FALSE))
    <3> DEFINE raws == Append(u.subframes, RawSubframe(sf, words, FALSE))
    <3>1. /\ u.sync.state = Locked /\ b >= WPS /\ buf[1].sync # sf
          /\ Turn(u) = TurnOf(Searching, From(buf, 2), sf, raws, u.locked, TRUE)
      BY <1>11 DEF Loses
    <3> HIDE DEF raws, buf, sf, b
    <3>2. /\ Turn(u).sync.buffer = From(buf, 2) /\ Turn(u).subframes = raws
          /\ Turn(u).sync.state = Searching
      BY <3>1 DEF TurnOf
    <3>3. QED
      BY <3>1, <3>2 DEF raws
  <2>2. 2 \in 1 .. b + 1
    BY <1>1, <2>1
  <2> HIDE DEF buf, sf, words, rd, h
  <2>3. HoldsLast(From(buf, 2), f) /\ Len(From(buf, 2)) = b - 2 + 1
    BY <1>1, <1>6, <2>2, HoldsFrom, FromFacts
  <2>4. /\ rd[n][Key(u.sync)] = <<RawSubframe(sf, words, FALSE)>> \o rd[n - 1][0]
        /\ RawSubframe(sf, words, FALSE) \in Raws(W)
    BY <1>9, <2>1
  <2>5. Key(Turn(u).sync) = 0
    BY <2>1 DEF Key
  <2> HIDE DEF b
  <2>6. n - 1 \in 0 .. m /\ 0 \in 0 .. 4 /\ m - f + Len(Turn(u).sync.buffer) = n - 1
    BY <1>1, <1>3, <2>1, <2>3
  <2> HIDE DEF n
  <2>7. OnTrack(Joined(d, Turn(u).subframes), Turn(u).sync, f, m)
    BY <1>10, <2>1, <2>4, <2>5, <2>6
  <2>8. QED
    BY <2>1, <2>3, <2>7
<1>12. CASE Takes(u)
  <2>1. /\ u.sync.state = Locked /\ b >= WPS /\ buf[1].sync = sf
        /\ Turn(u).sync.buffer = From(buf, WPS + 1) /\ Turn(u).sync.state = Locked
        /\ Turn(u).sync.expected = Successor(sf)
        /\ Turn(u).subframes = Append(u.subframes, RawSubframe(sf, words, TRUE))
    <3> DEFINE raws == Append(u.subframes, RawSubframe(sf, words, TRUE))
    <3>1. /\ u.sync.state = Locked /\ b >= WPS /\ buf[1].sync = sf
          /\ Turn(u) = TurnOf(Locked, From(buf, WPS + 1), Successor(sf), raws, u.locked, u.lost)
      BY <1>12 DEF Takes
    <3> HIDE DEF raws, buf, sf, b
    <3>2. /\ Turn(u).sync.buffer = From(buf, WPS + 1) /\ Turn(u).subframes = raws
          /\ Turn(u).sync.state = Locked /\ Turn(u).sync.expected = Successor(sf)
      BY <3>1 DEF TurnOf
    <3>3. QED
      BY <3>1, <3>2 DEF raws
  <2>2. WPS + 1 \in 1 .. b + 1
    BY <1>1, <2>1
  <2> HIDE DEF buf, sf, words, rd, h
  <2>3. HoldsLast(From(buf, WPS + 1), f) /\ Len(From(buf, WPS + 1)) = b - (WPS + 1) + 1
    BY <1>1, <1>6, <2>2, HoldsFrom, FromFacts
  <2>4. /\ rd[n][Key(u.sync)] = <<RawSubframe(sf, words, TRUE)>> \o rd[n - WPS][Successor(sf)]
        /\ RawSubframe(sf, words, TRUE) \in Raws(W)
    BY <1>9, <2>1
  <2>5. Key(Turn(u).sync) = Successor(sf) /\ Successor(sf) \in 0 .. 4
    BY <1>1, <2>1, SuccessorType DEF Key
  <2> HIDE DEF b
  <2>6. n - WPS \in 0 .. m /\ m - f + Len(Turn(u).sync.buffer) = n - WPS
    <3> DEFINE left == Len(Turn(u).sync.buffer)
    <3>1. left = b - (WPS + 1) + 1 /\ b >= WPS
      BY <2>1, <2>3
    <3> HIDE DEF left
    <3>2. n - WPS \in 0 .. m /\ m - f + left = n - WPS
      BY <1>1, <1>3, <3>1
    <3>3. QED
      BY <3>2 DEF left
  <2> HIDE DEF n
  <2>7. OnTrack(Joined(d, Turn(u).subframes), Turn(u).sync, f, m)
    BY <1>10, <2>1, <2>4, <2>5, <2>6
  <2>8. QED
    BY <2>1, <2>3, <2>7
<1>13. QED
  BY <1>7, <1>8, <1>11, <1>12, TurnCases

\* The words of a read, added to the buffer.
LEMMA OpeningOnTrack ==
  ASSUME NEW W, stream \in Seq(W), NEW f \in 0 .. Len(stream),
         NEW n \in 1 .. Len(stream) - f, NEW s \in Synchronizers(W), HoldsLast(s.buffer, f)
  PROVE  LET words == SubSeq(stream, f + 1, f + n)
             t     == Opening(s, words)
         IN  /\ words \in Seq(W) /\ HoldsLast(t.sync.buffer, f + n)
             /\ Len(t.sync.buffer) = Len(s.buffer) + n
             /\ \A d : \A m \in f + n .. Len(stream) :
                  OnTrack(d, s, f, m) => OnTrack(d, t.sync, f + n, m)
<1> DEFINE words == SubSeq(stream, f + 1, f + n)
           t     == Opening(s, words)
           buf   == s.buffer
           b     == Len(buf)
           all   == buf \o words
           g     == f + n
<1>1. /\ Len(stream) \in Nat /\ buf \in Seq(W) /\ b \in Nat /\ f \in Nat /\ n \in Nat
      /\ b <= f /\ g \in 0 .. Len(stream)
  BY Elements DEF Synchronizers, HoldsLast
<1>2. words \in Seq(W) /\ Len(words) = n /\ \A i \in 1 .. n : words[i] = stream[f + i]
  <2> DEFINE p == f + 1
  <2>1. /\ p \in 1 .. Len(stream) + 1 /\ g \in p - 1 .. Len(stream) /\ g - p + 1 = n
        /\ \A i \in 1 .. n : p + i - 1 = f + i
    BY <1>1
  <2> HIDE DEF p, g
  <2>2. /\ SubSeq(stream, p, g) \in Seq(W) /\ Len(SubSeq(stream, p, g)) = n
        /\ \A i \in 1 .. n : SubSeq(stream, p, g)[i] = stream[p + i - 1]
    BY <2>1, PieceFacts
  <2>3. QED
    BY <2>1, <2>2 DEF p, g
<1> HIDE DEF words
<1>3. /\ t.sync.state = s.state /\ t.sync.expected = s.expected /\ t.sync.buffer = all
  BY <1>2, OpeningFacts
<1> HIDE DEF t
<1>4. /\ all \in Seq(W) /\ Len(all) = b + n
      /\ \A i \in 1 .. b : all[i] = buf[i]
      /\ \A i \in 1 .. n : all[b + i] = words[i]
  <2>1. buf \in Seq(W)
    BY <1>1
  <2>2. words \in Seq(W)
    BY <1>2
  <2> HIDE DEF buf
  <2>3. /\ all \in Seq(W) /\ Len(all) = Len(buf) + Len(words)
        /\ \A i \in 1 .. Len(buf) : all[i] = buf[i]
        /\ \A i \in 1 .. Len(words) : all[Len(buf) + i] = words[i]
    BY <2>1, <2>2, JoinFacts
  <2> HIDE DEF all
  <2>4. Len(words) = n
    BY <1>2
  <2>5. QED
    BY <2>3, <2>4
<1>5. HoldsLast(all, g)
  <2> HIDE DEF all
  <2>1. Len(all) <= g
    BY <1>1, <1>4
  <2>2. ASSUME NEW i \in 1 .. Len(all) PROVE all[i] = stream[g - Len(all) + i]
    <3>1. g - Len(all) + i = f - b + i
      BY <1>1, <1>4
    <3>2. CASE i <= b
      <4>1. i \in 1 .. b
        BY <1>1, <3>2
      <4>2. buf[i] = stream[f - b + i]
        BY <4>1 DEF HoldsLast
      <4>3. QED
        BY <1>4, <3>1, <4>1, <4>2
    <3>3. CASE ~(i <= b)
      <4> DEFINE j == i - b
      <4>1. j \in 1 .. n /\ b + j = i /\ f + j = f - b + i
        BY <1>1, <1>4, <3>3
      <4> HIDE DEF j, b
      <4>2. all[b + j] = words[j] /\ words[j] = stream[f + j]
        BY <1>2, <1>4, <4>1
      <4>3. QED
        BY <3>1, <4>1, <4>2
    <3>4. QED
      BY <3>2, <3>3
  <2> HIDE DEF g
  <2>3. QED
    BY <2>1, <2>2 DEF HoldsLast
<1>6. ASSUME NEW d, NEW m \in g .. Len(stream), OnTrack(d, s, f, m)
      PROVE  OnTrack(d, t.sync, g, m)
  <2> DEFINE left == Len(t.sync.buffer)
  <2>1. left = b + n
    BY <1>3, <1>4
  <2> HIDE DEF left
  <2>2. m - g + left = m - f + b
    BY <1>1, <2>1
  <2>3. Key(t.sync) = Key(s)
    BY <1>3 DEF Key
  <2> HIDE DEF g
  <2>4. QED
    BY <1>6, <2>2, <2>3 DEF OnTrack, left
<1>7. QED
  BY <1>2, <1>3, <1>4, <1>5, <1>6 DEF words, t

\* What the loop has done: nothing yet, a lock, or a subframe at least.
Progress(t0, u) ==
  \/ u = t0
  \/ u.subframes # <<>>
  \/ u.sync.state = Locked /\ Len(u.sync.buffer) >= WPS

\* A turn goes on from there.
LEMMA TurnProgress ==
  ASSUME NEW W, Readable(W), NEW t0 \in Turns(W), NEW u \in Turns(W), Progress(t0, u)
  PROVE  Progress(t0, Turn(u))
<1> DEFINE buf == u.sync.buffer
<1>1. /\ WPS \in Nat \ {0} /\ Len(buf) \in Nat /\ buf \in Seq(W) /\ Searching # Locked
      /\ u.subframes \in Seq(Raws(W))
  BY WpsAssumption, TurnFields, Elements DEF Searching, Locked
<1>2. \A raw : Append(u.subframes, raw) # <<>>
  <2>1. \A raw : Len(Append(u.subframes, raw)) = Len(u.subframes) + 1
    BY <1>1
  <2>2. Len(u.subframes) \in Nat /\ Len(<<>>) = 0
    BY <1>1, Elements
  <2>3. \A raw : Len(Append(u.subframes, raw)) # 0
    BY <2>1, <2>2
  <2>4. QED
    BY <2>2, <2>3
<1>3. CASE Idle(u) /\ Turn(u) = u
  BY <1>3
<1>4. CASE \E pos \in PairsAt(buf, WPS) : LocksAt(u, pos)
  <2>1. PICK pos \in PairsAt(buf, WPS) : LocksAt(u, pos)
    BY <1>4
  <2>2. pos \in 1 .. Len(buf) /\ pos \in 1 .. Len(buf) + 1 /\ pos + WPS <= Len(buf)
    BY <1>1, <2>1, PairFacts
  <2>3. /\ Turn(u).sync.state = Locked /\ Turn(u).sync.buffer = From(buf, pos)
    BY <2>1 DEF LocksAt, TurnOf
  <2>4. Len(From(buf, pos)) >= WPS
    BY <1>1, <2>2, FromFacts
  <2>5. QED
    BY <2>3, <2>4 DEF Progress
<1>5. CASE Loses(u)
  <2> DEFINE raw == RawSubframe(u.sync.expected, SubSeq(buf, 1, WPS), FALSE)
             raws == Append(u.subframes, raw)
  <2>1. Turn(u) = TurnOf(Searching, From(buf, 2), u.sync.expected, raws, u.locked, TRUE)
    BY <1>5 DEF Loses
  <2> HIDE DEF raws
  <2>2. Turn(u).subframes = raws
    BY <2>1 DEF TurnOf
  <2>3. raws # <<>>
    BY <1>2 DEF raws
  <2>4. QED
    BY <2>2, <2>3 DEF Progress
<1>6. CASE Takes(u)
  <2> DEFINE raw == RawSubframe(u.sync.expected, SubSeq(buf, 1, WPS), TRUE)
             raws == Append(u.subframes, raw)
  <2>1. Turn(u) = TurnOf(Locked, From(buf, WPS + 1), Successor(u.sync.expected), raws,
                       u.locked, u.lost)
    BY <1>6 DEF Takes
  <2> HIDE DEF raws
  <2>2. Turn(u).subframes = raws
    BY <2>1 DEF TurnOf
  <2>3. raws # <<>>
    BY <1>2 DEF raws
  <2>4. QED
    BY <2>2, <2>3 DEF Progress
<1>7. QED
  BY <1>3, <1>4, <1>5, <1>6, TurnCases

\* So does the whole loop.
LEMMA SettledOnTrack ==
  ASSUME NEW W, Readable(W), stream \in Seq(W), NEW f \in 0 .. Len(stream),
         NEW d \in Seq(Raws(W)), NEW t0 \in Turns(W), HoldsLast(t0.sync.buffer, f),
         t0.subframes = <<>>, \A m \in f .. Len(stream) : OnTrack(d, t0.sync, f, m)
  PROVE  LET u == Settled(t0)
         IN  /\ HoldsLast(u.sync.buffer, f) /\ Progress(t0, u)
             /\ \A m \in f .. Len(stream) : OnTrack(Joined(d, u.subframes), u.sync, f, m)
<1> DEFINE Holding(u) == /\ HoldsLast(u.sync.buffer, f) /\ Progress(t0, u)
                         /\ \A m \in f .. Len(stream) :
                              OnTrack(Joined(d, u.subframes), u.sync, f, m)
           T == {u \in Turns(W) : Holding(u)}
<1>1. Len(t0.sync.buffer) \in Nat
  BY TurnFields, Elements
<1>2. Joined(d, t0.subframes) = d
  BY ConcatEmptySeq DEF Joined
<1>3. Holding(t0)
  BY <1>2 DEF Progress
<1>4. ASSUME NEW u \in Turns(W), Holding(u) PROVE Holding(Turn(u)) /\ Turn(u) \in Turns(W)
  <2>1. Turn(u) \in Turns(W)
    BY TurnCases
  <2>2. Progress(t0, Turn(u))
    BY <1>4, TurnProgress
  <2>3. ASSUME NEW m \in f .. Len(stream)
        PROVE  /\ HoldsLast(Turn(u).sync.buffer, f)
               /\ OnTrack(Joined(d, Turn(u).subframes), Turn(u).sync, f, m)
    <3>1. HoldsLast(u.sync.buffer, f) /\ OnTrack(Joined(d, u.subframes), u.sync, f, m)
      BY <1>4
    <3>2. QED
      BY <3>1, TurnOnTrack
  <2>4. HoldsLast(Turn(u).sync.buffer, f)
    <3>1. Len(stream) \in f .. Len(stream)
      BY Elements
    <3>2. QED
      BY <2>3, <3>1
  <2>5. QED
    BY <2>1, <2>2, <2>3, <2>4
<1> HIDE DEF Holding
<1>5. t0 \in T /\ \A u \in T : Turn(u) \in T
  BY <1>3, <1>4
<1>6. Settled(t0) \in T
  <2> HIDE DEF T
  <2>1. QED
    BY <1>1, <1>5, SettledIn
<1>7. QED
  BY <1>6 DEF Holding

\* A search that found no pair in its buffer: its first words are of no use to
\* it, all but a subframe of them, or all of them when no word is to come.
LEMMA SearchOver ==
  ASSUME NEW W, stream \in Seq(W), NEW f \in 0 .. Len(stream), NEW m \in f .. Len(stream),
         NEW buf \in Seq(W), HoldsLast(buf, f), PairsAt(buf, WPS) = {},
         NEW n, n = m - f + Len(buf), NEW k \in 0 .. n, m = f \/ k >= m - f + WPS
  PROVE  Reads(Sofar(m))[n][0] = Reads(Sofar(m))[k][0]
<1> DEFINE h == Sofar(m)
           b == Len(buf)
<1>1. /\ WPS \in Nat \ {0} /\ b \in Nat /\ f \in Nat /\ m \in Nat /\ Len(stream) \in Nat
      /\ b <= f /\ m \in 0 .. Len(stream) /\ m >= f
  BY WpsAssumption, Elements DEF HoldsLast
<1>2. Len(h) = m
  BY <1>1, SofarFacts
<1> HIDE DEF h
<1>3. ASSUME NEW j \in k + 1 .. n, j > WPS PROVE ~PairAt(h, Len(h) - j + 1, WPS)
  <2> DEFINE q == n - j + 1
  <2>1. q \in 1 .. b /\ q + WPS <= b /\ q \in 1 .. b - WPS /\ f - b + q = m - j + 1
    BY <1>1, <1>3
  <2> HIDE DEF q
  <2>2. ~PairAt(buf, q, WPS)
    BY <2>1 DEF PairsAt
  <2>3. ~PairAt(h, f - b + q, WPS)
    BY <1>1, <2>1, <2>2, HeldPair DEF h
  <2>4. QED
    BY <1>2, <2>1, <2>3
<1>4. Len(h) \in Nat /\ n \in 0 .. Len(h)
  BY <1>1, <1>2
<1>5. Reads(h)[n][0] = Reads(h)[k][0]
  BY <1>3, <1>4, SearchSkips
<1>6. QED
  BY <1>5 DEF h

\* What the buffer still holds once the search has trimmed it.
LEMMA HoldsTrimmed ==
  ASSUME NEW W, NEW buf \in Seq(W), NEW f \in Nat, HoldsLast(buf, f)
  PROVE  HoldsLast(Trimmed(buf), f)
<1>1. Len(buf) \in Nat /\ Limit \in Nat /\ Limit >= 1
  BY Elements, LimitFacts, WpsAssumption
<1>2. CASE Len(buf) > Limit
  <2> DEFINE p == Len(buf) - Limit + 1
  <2>1. p \in 1 .. Len(buf) + 1
    BY <1>1, <1>2
  <2> HIDE DEF p
  <2>2. HoldsLast(From(buf, p), f)
    BY <2>1, HoldsFrom
  <2>3. QED
    BY <1>2, <2>2 DEF Trimmed, p
<1>3. CASE ~(Len(buf) > Limit)
  BY <1>3 DEF Trimmed
<1>4. QED
  BY <1>2, <1>3

\* What feed() leaves is on track too: it trims no word that it needs, and
\* what it delivered so far is all that can be delivered of the words so far.
LEMMA FedOnTrack ==
  ASSUME NEW W, Readable(W), stream \in Seq(W), NEW f \in 0 .. Len(stream),
         NEW d \in Seq(Raws(W)), NEW u \in Turns(W), Idle(u), HoldsLast(u.sync.buffer, f),
         \A m \in f .. Len(stream) : OnTrack(d, u.sync, f, m),
         NEW s \in Synchronizers(W), s.state = u.sync.state, s.expected = u.sync.expected,
         s.buffer = IF u.sync.state = Searching THEN Trimmed(u.sync.buffer) ELSE u.sync.buffer
  PROVE  /\ HoldsLast(s.buffer, f)
         /\ \A m \in f .. Len(stream) : OnTrack(d, s, f, m)
         /\ d = Reference(Sofar(f))
<1> DEFINE buf == u.sync.buffer
           b   == Len(buf)
<1>1. /\ WPS \in Nat \ {0} /\ b \in Nat /\ buf \in Seq(W) /\ f \in Nat /\ Searching # Locked
      /\ u.sync.state \in {Searching, Locked} /\ u.sync.expected \in 1 .. 4
      /\ Len(stream) \in Nat /\ b <= f
  BY WpsAssumption, TurnFields, Elements DEF Searching, Locked, HoldsLast
<1>2. HoldsLast(s.buffer, f)
  BY <1>1, HoldsTrimmed
<1>3. Key(s) = Key(u.sync)
  BY DEF Key
<1>4. ASSUME NEW m \in f .. Len(stream) PROVE OnTrack(d, s, f, m)
  <2>1. OnTrack(d, u.sync, f, m)
    OBVIOUS
  <2>2. CASE s.buffer = buf
    BY <1>3, <2>1, <2>2 DEF OnTrack
  <2>3. CASE u.sync.state = Searching /\ b > Limit
    <3> DEFINE n == m - f + b
               k == m - f + Len(s.buffer)
    <3>1. Len(s.buffer) = Limit
      BY <1>1, <2>3, TrimmedFacts
    <3>2. Limit \in Nat /\ Limit >= WPS + 1
      BY LimitFacts
    <3>3. n = m - f + b /\ k \in 0 .. n /\ k >= m - f + WPS
      BY <1>1, <2>3, <3>1, <3>2
    <3>4. PairsAt(buf, WPS) = {}
      BY <2>3 DEF Idle
    <3> HIDE DEF n, k
    <3>5. Reads(Sofar(m))[n][0] = Reads(Sofar(m))[k][0]
      <4>1. k \in 0 .. n /\ k >= m - f + WPS
        BY <3>3
      <4>2. n = m - f + Len(buf)
        BY <3>3
      <4>3. buf \in Seq(W) /\ HoldsLast(buf, f) /\ PairsAt(buf, WPS) = {}
        BY <1>1, <3>4
      <4> HIDE DEF buf
      <4>4. QED
        BY <4>1, <4>2, <4>3, SearchOver
    <3>6. Key(u.sync) = 0
      BY <2>3 DEF Key
    <3>7. Reads(Sofar(m))[m][0] = Joined(d, Reads(Sofar(m))[n][0])
      BY <2>1, <3>6 DEF OnTrack, n
    <3>8. Reads(Sofar(m))[m][0] = Joined(d, Reads(Sofar(m))[k][0])
      BY <3>5, <3>7
    <3>9. QED
      BY <1>3, <3>6, <3>8 DEF OnTrack, k
  <2>4. CASE u.sync.state = Searching /\ ~(b > Limit)
    BY <2>2, <2>4 DEF Trimmed
  <2>5. CASE u.sync.state # Searching
    BY <2>2, <2>5
  <2>6. QED
    BY <2>3, <2>4, <2>5
<1>5. d = Reference(Sofar(f))
  <2> DEFINE rd == Reads(Sofar(f))
  <2>1. Len(Sofar(f)) = f /\ f \in f .. Len(stream)
    BY <1>1, SofarFacts
  <2>2. OnTrack(d, u.sync, f, f) /\ f - f + b = b
    BY <1>1, <2>1
  <2>3. rd[f][0] = Joined(d, rd[b][Key(u.sync)])
    BY <2>2 DEF OnTrack
  <2>4. rd[b][Key(u.sync)] = <<>>
    <3>1. b \in 0 .. Len(Sofar(f)) /\ 0 \in 0 .. Len(Sofar(f)) /\ 0 < WPS /\ 0 \in 0 .. 4
      BY <1>1, <2>1
    <3>2. Len(Sofar(f)) \in Nat
      BY <1>1, <2>1
    <3>3. CASE u.sync.state = Searching
      <4>1. Key(u.sync) = 0 /\ PairsAt(buf, WPS) = {}
        BY <3>3 DEF Key, Idle
      <4>2. b = f - f + b /\ 0 \in 0 .. b
        BY <1>1
      <4>3. rd[b][0] = rd[0][0]
        BY <1>1, <2>1, <4>1, <4>2, SearchOver
      <4>4. rd[0][0] = <<>>
        BY <3>1, <3>2, ReadsShort
      <4>5. QED
        BY <4>1, <4>3, <4>4
    <3>4. CASE u.sync.state # Searching
      <4>1. Key(u.sync) = u.sync.expected /\ b < WPS
        BY <3>4 DEF Key, Idle
      <4>2. Key(u.sync) \in 0 .. 4
        BY <1>1, <4>1
      <4>3. QED
        BY <3>1, <3>2, <4>1, <4>2, ReadsShort
    <3>5. QED
      BY <3>3, <3>4
  <2>5. Joined(d, <<>>) = d
    BY ConcatEmptySeq DEF Joined
  <2>6. rd[f][0] = d
    BY <2>3, <2>4, <2>5
  <2>7. QED
    BY <2>1, <2>6 DEF Reference
<1>6. QED
  BY <1>2, <1>4, <1>5

\* A pair at another rate that is complete only now is in the buffer whole,
\* for the search keeps the words that any rate needs: it is reported.
LEMMA PairReported ==
  ASSUME NEW W, Readable(W), stream \in Seq(W), NEW f \in 0 .. Len(stream),
         NEW n \in 1 .. Len(stream) - f, NEW g, g = f + n, NEW buf \in Seq(W), HoldsLast(buf, g),
         NEW b \in Nat, Len(buf) = b + n, b <= f, b = f \/ b >= Limit,
         NEW d \in StandardWps \ {WPS}, PairsAt(Sofar(g), d) # {}, PairsAt(Sofar(f), d) = {}
  PROVE  DetectedWps(buf) # 0 /\ DetectedWps(buf) <= d
<1> DEFINE found == {e \in StandardWps \ {WPS} : PairsAt(buf, e) # {}}
<1>1. /\ Len(stream) \in Nat /\ f \in Nat /\ n \in Nat /\ d \in Nat \ {0} /\ g \in Nat
      /\ g \in 0 .. Len(stream) /\ f <= g
      /\ StandardWps \subseteq Nat \ {0}
  BY WpsAssumption, Elements
<1>2. /\ Sofar(g) \in Seq(W) /\ Sofar(f) \in Seq(W) /\ Len(Sofar(g)) = g /\ Len(Sofar(f)) = f
      /\ \A i \in 1 .. f : Sofar(g)[i] = Sofar(f)[i]
  <2>1. \A i \in 1 .. f : i \in 1 .. g
    BY <1>1
  <2>2. QED
    BY <1>1, <2>1, SofarFacts
<1>3. PICK p \in PairsAt(Sofar(g), d) : TRUE
  OBVIOUS
<1>4. p \in 1 .. g - d /\ PairAt(Sofar(g), p, d)
  BY <1>2 DEF PairsAt
<1>5. p + d > f
  <2> SUFFICES ASSUME p + d <= f PROVE FALSE
    BY <1>1, <1>4
  <2> DEFINE q == p + d
  <2>1. p \in 1 .. f /\ q \in 1 .. f /\ p \in 1 .. f - d
    BY <1>1, <1>4
  <2> HIDE DEF q
  <2>2. Sofar(g)[p] = Sofar(f)[p] /\ Sofar(g)[q] = Sofar(f)[q]
    BY <1>2, <2>1
  <2>3. PairAt(Sofar(f), p, d)
    BY <1>4, <2>2 DEF PairAt, q
  <2>4. QED
    BY <1>2, <2>1, <2>3 DEF PairsAt
<1> DEFINE q == p - (f - b)
<1>6. /\ q \in 1 .. Len(buf) /\ q + d <= Len(buf) /\ q \in 1 .. Len(buf) - d
      /\ g - Len(buf) + q = p
  <2>1. Limit \in Nat /\ (b >= Limit => b >= d + 1)
    BY <1>1, LimitFacts
  <2>2. QED
    BY <1>1, <1>4, <1>5, <2>1
<1> HIDE DEF q
<1>7. PairAt(buf, q, d)
  <2>1. g \in g .. Len(stream) /\ d \in Nat
    BY <1>1
  <2>2. PairAt(Sofar(g), g - Len(buf) + q, d)
    BY <1>4, <1>6
  <2>3. QED
    BY <1>1, <1>6, <2>1, <2>2, HeldPair
<1>8. d \in found
  BY <1>6, <1>7 DEF PairsAt
<1>9. DetectedWps(buf) = Least(found)
  BY <1>8 DEF DetectedWps
<1>10. found \subseteq Nat /\ 0 \notin found
  BY <1>1
<1> HIDE DEF found
<1>11. Least(found) \in found /\ Least(found) <= d
  BY <1>8, <1>10, LeastOf
<1>12. QED
  BY <1>9, <1>10, <1>11

-----------------------------------------------------------------------------
(* The synchronizer delivers the reference *)

\* The words of SyncCheck.
Heard == [sync : 0 .. 4, at : Nat]

\* Why the synchronizer delivers what the reference does, inductively: its
\* buffer holds the last words fed, and with what was delivered the words that
\* it holds and those to come amount, for the reference, to the whole stream;
\* a search that has not delivered anything holds all the words or enough.
Follows ==
  /\ stream \in Seq(Heard) /\ fed \in 0 .. Len(stream)
  /\ synchronizer \in Synchronizers(Heard) /\ delivered \in Seq(Raws(Heard))
  /\ HoldsLast(synchronizer.buffer, fed)
  /\ \A m \in fed .. Len(stream) : OnTrack(delivered, synchronizer, fed, m)
  /\ synchronizer.state = Searching /\ delivered = <<>> =>
       Len(synchronizer.buffer) = fed \/ Len(synchronizer.buffer) >= Limit

\* The words of SyncCheck look like something.
LEMMA HeardReadable == Readable(Heard)
BY DEF Readable, Heard

\* What a read does.
LEMMA FeedFollows ==
  ASSUME Follows, NEW n \in 1 .. Len(stream) - fed
  PROVE  LET r == Feed(synchronizer, SubSeq(stream, fed + 1, fed + n))
             g == fed + n
             d == Joined(delivered, r.subframes)
         IN  /\ g \in 0 .. Len(stream)
             /\ r.sync \in Synchronizers(Heard) /\ d \in Seq(Raws(Heard))
             /\ HoldsLast(r.sync.buffer, g)
             /\ \A m \in g .. Len(stream) : OnTrack(d, r.sync, g, m)
             /\ d = Reference(Sofar(g))
             /\ Len(r.sync.buffer) <= IF r.sync.state = Searching THEN Limit ELSE WPS - 1
             /\ r.sync.state = Searching /\ d = <<>> =>
                  /\ Len(r.sync.buffer) = g \/ Len(r.sync.buffer) >= Limit
                  /\ synchronizer.state = Searching /\ delivered = <<>>
                  /\ \A e \in StandardWps \ {WPS} : PairsAt(Sofar(g), e) # {} =>
                       PairsAt(Sofar(fed), e) # {} \/ (r.detected # 0 /\ r.detected <= e)
<1> DEFINE words == SubSeq(stream, fed + 1, fed + n)
           r  == Feed(synchronizer, words)
           g  == fed + n
           d  == Joined(delivered, r.subframes)
           t0 == Opening(synchronizer, words)
           u  == Settled(t0)
           b  == Len(synchronizer.buffer)
<1>1. /\ stream \in Seq(Heard) /\ fed \in 0 .. Len(stream)
      /\ synchronizer \in Synchronizers(Heard) /\ delivered \in Seq(Raws(Heard))
      /\ HoldsLast(synchronizer.buffer, fed)
      /\ \A m \in fed .. Len(stream) : OnTrack(delivered, synchronizer, fed, m)
      /\ synchronizer.state = Searching /\ delivered = <<>> => b = fed \/ b >= Limit
  BY DEF Follows
<1>2. /\ Len(stream) \in Nat /\ fed \in Nat /\ n \in Nat /\ b \in Nat /\ b <= fed
      /\ g \in 0 .. Len(stream) /\ synchronizer.buffer \in Seq(Heard)
      /\ \A m \in g .. Len(stream) : m \in fed .. Len(stream)
  <2>1. synchronizer.buffer \in Seq(Heard)
    BY <1>1 DEF Synchronizers
  <2>2. Len(stream) \in Nat /\ b \in Nat /\ b <= fed
    BY <1>1, <2>1, Elements DEF HoldsLast
  <2> HIDE DEF b
  <2>3. QED
    BY <1>1, <2>1, <2>2
<1>3. /\ words \in Seq(Heard) /\ HoldsLast(t0.sync.buffer, g) /\ Len(t0.sync.buffer) = b + n
      /\ \A m \in g .. Len(stream) : OnTrack(delivered, synchronizer, fed, m) =>
                                       OnTrack(delivered, t0.sync, g, m)
  BY <1>1, OpeningOnTrack
<1>4. /\ t0 \in Turns(Heard) /\ t0.sync.state = synchronizer.state /\ t0.subframes = <<>>
      /\ t0.sync.buffer \in Seq(Heard)
  BY <1>1, <1>3, OpeningFacts, TurnFields
<1>5. \A m \in g .. Len(stream) : OnTrack(delivered, t0.sync, g, m)
  BY <1>1, <1>2, <1>3
<1>6. /\ u \in Turns(Heard) /\ Idle(u)
      /\ r.sync \in Synchronizers(Heard)
      /\ r.sync.state = u.sync.state /\ r.sync.expected = u.sync.expected
      /\ r.sync.buffer = IF u.sync.state = Searching THEN Trimmed(u.sync.buffer)
                         ELSE u.sync.buffer
      /\ r.subframes = u.subframes
      /\ r.detected = IF u.sync.state = Searching THEN DetectedWps(u.sync.buffer) ELSE 0
  <2>1. words \in Seq(Heard)
    BY <1>3
  <2> HIDE DEF words
  <2>2. QED
    BY <1>1, <2>1, FeedFacts, HeardReadable
<1> HIDE DEF words, r, t0, g
<1>7. /\ HoldsLast(u.sync.buffer, g) /\ Progress(t0, u)
      /\ \A m \in g .. Len(stream) : OnTrack(Joined(delivered, u.subframes), u.sync, g, m)
  BY <1>1, <1>2, <1>3, <1>4, <1>5, SettledOnTrack, HeardReadable
<1> HIDE DEF u
<1>8. /\ u.subframes \in Seq(Raws(Heard)) /\ u.sync.buffer \in Seq(Heard)
      /\ u.sync.state \in {Searching, Locked} /\ Len(u.sync.buffer) \in Nat
  BY <1>6, TurnFields, Elements
<1>9. d \in Seq(Raws(Heard)) /\ d = Joined(delivered, u.subframes)
  BY <1>1, <1>6, <1>8, JoinedFacts
<1> HIDE DEF d
<1>10. \A m \in g .. Len(stream) : OnTrack(d, u.sync, g, m)
  BY <1>7, <1>9
<1>11. /\ HoldsLast(r.sync.buffer, g)
       /\ \A m \in g .. Len(stream) : OnTrack(d, r.sync, g, m)
       /\ d = Reference(Sofar(g))
  BY <1>1, <1>2, <1>6, <1>7, <1>9, <1>10, FedOnTrack, HeardReadable
<1>12. Len(r.sync.buffer) <= IF r.sync.state = Searching THEN Limit ELSE WPS - 1
  <2>1. CASE u.sync.state = Searching
    <3>1. Len(r.sync.buffer) <= Limit
      <4>1. Limit \in Nat
        BY LimitFacts
      <4>2. QED
        BY <1>6, <1>8, <2>1, <4>1, TrimmedFacts
    <3>2. QED
      BY <1>6, <2>1, <3>1
  <2>2. CASE u.sync.state # Searching
    <3>1. Len(u.sync.buffer) < WPS /\ WPS \in Nat
      BY <1>6, <2>2, WpsAssumption DEF Idle
    <3>2. Len(u.sync.buffer) <= WPS - 1
      BY <1>8, <3>1
    <3>3. QED
      BY <1>6, <2>2, <3>2
  <2>3. QED
    BY <2>1, <2>2
<1>13. ASSUME r.sync.state = Searching, d = <<>>
       PROVE  /\ Len(r.sync.buffer) = g \/ Len(r.sync.buffer) >= Limit
              /\ synchronizer.state = Searching /\ delivered = <<>>
              /\ \A e \in StandardWps \ {WPS} : PairsAt(Sofar(g), e) # {} =>
                   PairsAt(Sofar(fed), e) # {} \/ (r.detected # 0 /\ r.detected <= e)
  <2>1. delivered = <<>> /\ u.subframes = <<>>
    <3> DEFINE x == Len(delivered)
               y == Len(u.subframes)
    <3>1. Len(d) = x + y
      BY <1>1, <1>8, <1>9, JoinFacts DEF Joined
    <3>2. Len(d) = 0 /\ x \in Nat /\ y \in Nat
      BY <1>1, <1>8, <1>13, Elements
    <3> HIDE DEF x, y
    <3>3. 0 = x + y
      BY <3>1, <3>2
    <3>4. x = 0 /\ y = 0
      BY <3>2, <3>3
    <3>5. QED
      BY <1>1, <1>8, <3>4, EmptySeq DEF x, y
  <2>2. u = t0
    <3>1. u.sync.state # Locked
      BY <1>6, <1>13 DEF Searching, Locked
    <3>2. QED
      BY <1>7, <2>1, <3>1 DEF Progress
  <2>3. synchronizer.state = Searching /\ u.sync.state = Searching
    BY <1>4, <1>6, <1>13, <2>2
  <2>4. b = fed \/ b >= Limit
    BY <1>1, <2>1, <2>3
  <2>5. Len(u.sync.buffer) = b + n
    BY <1>3, <2>2
  <2> HIDE DEF b
  <2>6. Len(r.sync.buffer) = g \/ Len(r.sync.buffer) >= Limit
    <3>1. Len(r.sync.buffer) = IF Len(u.sync.buffer) > Limit THEN Limit ELSE Len(u.sync.buffer)
      BY <1>6, <1>8, <2>3, TrimmedFacts
    <3>2. Limit \in Nat
      BY LimitFacts
    <3>3. g = fed + n
      BY DEF g
    <3>4. QED
      BY <1>2, <2>4, <2>5, <3>1, <3>2, <3>3
  <2>7. ASSUME NEW e \in StandardWps \ {WPS}, PairsAt(Sofar(g), e) # {},
               PairsAt(Sofar(fed), e) = {}
        PROVE  r.detected # 0 /\ r.detected <= e
    <3>1. g = fed + n
      BY DEF g
    <3>2. HoldsLast(u.sync.buffer, g) /\ u.sync.buffer \in Seq(Heard)
      BY <1>7, <1>8
    <3>3. stream \in Seq(Heard) /\ fed \in 0 .. Len(stream)
      BY <1>1
    <3>4. DetectedWps(u.sync.buffer) # 0 /\ DetectedWps(u.sync.buffer) <= e
      BY <1>2, <2>4, <2>5, <2>7, <3>1, <3>2, <3>3, PairReported, HeardReadable
    <3>5. QED
      BY <1>6, <2>3, <3>4
  <2>8. QED
    BY <2>1, <2>3, <2>6, <2>7
<1>14. QED
  BY <1>2, <1>6, <1>9, <1>11, <1>12, <1>13 DEF r, g, d, words

\* The words of a stream.
LEMMA SpeltFacts ==
  ASSUME Streams, NEW looks \in [1 .. StreamLen -> Looks]
  PROVE  R!Words(looks) \in Seq(Heard)
<1>1. looks \in Seq(Looks) /\ Looks \subseteq 0 .. 4
  BY DEF Streams
<1>2. Len(looks) \in Nat /\ \A i \in 1 .. Len(looks) : looks[i] \in 0 .. 4
  BY <1>1, Elements
<1>3. \A i \in 1 .. Len(looks) : [sync |-> looks[i], at |-> i] \in Heard
  BY <1>2 DEF Heard
<1>4. QED
  BY <1>2, <1>3 DEF R!Words

\* Two of the promises, in the terms of the lemmas.
LEMMA SameChecks ==
  /\ BufferBounded <=>
       Len(synchronizer.buffer) <= IF synchronizer.state = Searching THEN Limit ELSE WPS - 1
  /\ OtherRateReported <=>
       (synchronizer.state = Searching /\ delivered = <<>> =>
          \A d \in StandardWps \ {WPS} :
            PairsAt(Sofar(fed), d) # {} => \E e \in detected : e <= d)
BY DEF BufferBounded, OtherRateReported, Sofar

\* What SyncCheck promises, in the terms of the lemmas.
Keeps ==
  /\ Follows
  /\ delivered = Reference(Sofar(fed))
  /\ BufferBounded
  /\ OtherRateReported

\* Nothing was read yet.
LEMMA StartFollows ==
  ASSUME Streams, R!Init
  PROVE  Keeps
<1>1. PICK looks \in [1 .. StreamLen -> Looks] : stream = R!Words(looks)
  BY DEF R!Init
<1>2. stream \in Seq(Heard)
  BY <1>1, SpeltFacts
<1>3. fed = 0 /\ delivered = <<>> /\ detected = {} /\ Len(stream) \in Nat
  BY <1>2, Elements DEF R!Init
<1>4. /\ synchronizer = [state |-> Searching, buffer |-> <<>>, expected |-> 1]
  BY DEF R!Init, R!NewSynchronizer, R!Searching, Searching
<1>5. /\ synchronizer.state = Searching /\ synchronizer.buffer = <<>>
      /\ synchronizer \in Synchronizers(Heard)
  <2>1. <<>> \in Seq(Heard)
    BY EmptySeq
  <2>2. QED
    BY <1>4, <2>1 DEF Synchronizers
<1>6. Len(synchronizer.buffer) = 0 /\ delivered \in Seq(Raws(Heard)) /\ Limit \in Nat
  BY <1>3, <1>5, EmptySeq, LimitFacts
<1>7. HoldsLast(synchronizer.buffer, fed)
  BY <1>3, <1>6 DEF HoldsLast
<1>8. ASSUME NEW m \in fed .. Len(stream) PROVE OnTrack(delivered, synchronizer, fed, m)
  <2> DEFINE x == Reads(Sofar(m))[m][0]
  <2>1. m \in 0 .. Len(stream) /\ m \in Nat
    BY <1>3
  <2>2. Sofar(m) \in Seq(Heard) /\ Len(Sofar(m)) = m
    BY <1>2, <2>1, SofarFacts
  <2>3. x \in Seq(Raws(Heard))
    <3>1. m \in 0 .. Len(Sofar(m)) /\ 0 \in 0 .. 4
      BY <2>1, <2>2
    <3>2. QED
      BY <2>2, <3>1, ReadsType, HeardReadable
  <2>4. m - fed + Len(synchronizer.buffer) = m
    BY <1>3, <1>6, <2>1
  <2>5. Key(synchronizer) = 0
    BY <1>5 DEF Key
  <2> HIDE DEF x
  <2>6. Joined(<<>>, x) = x
    BY <2>3, ConcatEmptySeq DEF Joined
  <2>7. QED
    BY <1>3, <2>4, <2>5, <2>6 DEF OnTrack, x
<1>9. delivered = Reference(Sofar(fed))
  <2> DEFINE h == Sofar(0)
  <2>1. Len(h) = 0
    BY <1>2, <1>3, SofarFacts
  <2>2. 0 < WPS /\ 0 \in 0 .. 4 /\ 0 \in 0 .. Len(h) /\ Len(h) \in Nat
    BY <2>1, WpsAssumption
  <2> HIDE DEF h
  <2>3. Reads(h)[0][0] = <<>>
    BY <2>2, ReadsShort
  <2>4. Reference(h) = <<>>
    BY <2>1, <2>3 DEF Reference
  <2>5. QED
    BY <1>3, <2>4 DEF h
<1>10. BufferBounded
  BY <1>5, <1>6, SameChecks
<1>11. OtherRateReported
  <2> SUFFICES ASSUME NEW d \in StandardWps \ {WPS} PROVE PairsAt(Sofar(fed), d) = {}
    BY SameChecks
  <2>1. Len(Sofar(fed)) = 0 /\ d \in Nat \ {0}
    BY <1>2, <1>3, SofarFacts, WpsAssumption
  <2>2. 1 .. 0 - d = {}
    BY <2>1
  <2>3. QED
    BY <2>1, <2>2 DEF PairsAt
<1>12. Follows
  <2>1. fed \in 0 .. Len(stream)
    BY <1>3
  <2>2. Len(synchronizer.buffer) = fed
    BY <1>3, <1>6
  <2>3. QED
    BY <1>2, <1>5, <1>6, <1>7, <1>8, <2>1, <2>2 DEF Follows
<1>13. QED
  BY <1>9, <1>10, <1>11, <1>12 DEF Keeps

\* A read keeps it so.
LEMMA StepFollows ==
  ASSUME Keeps, [R!Next]_R!vars
  PROVE  Keeps'
<1>1. CASE UNCHANGED R!vars
  <2>1. /\ stream' = stream /\ fed' = fed /\ synchronizer' = synchronizer /\ delivered' = delivered
        /\ detected' = detected
    BY <1>1 DEF R!vars
  <2>2. Follows'
    <3>1. Follows
      BY DEF Keeps
    <3>2. QED
      BY <2>1, <3>1 DEF Follows, HoldsLast, OnTrack, Sofar, Key
  <2>3. (delivered = Reference(Sofar(fed)))'
    BY <2>1 DEF Keeps, Sofar
  <2>4. BufferBounded' /\ OtherRateReported'
    BY <2>1 DEF Keeps, BufferBounded, OtherRateReported
  <2>5. QED
    BY <2>2, <2>3, <2>4 DEF Keeps
<1>2. ASSUME NEW n \in 1 .. Len(stream) - fed, R!ProcessWords(n) PROVE Keeps'
  <2> DEFINE words == SubSeq(stream, fed + 1, fed + n)
             r == Feed(synchronizer, words)
             d == Joined(delivered, r.subframes)
             g == fed + n
  <2>1. R!Feed(synchronizer, words) = r
    BY SameFeed
  <2>2. /\ fed' = g /\ synchronizer' = r.sync /\ delivered' = d /\ stream' = stream
        /\ detected' = detected \cup ({r.detected} \ {0})
    <3>1. /\ fed' = fed + n /\ synchronizer' = R!Feed(synchronizer, words).sync
          /\ delivered' = delivered \o R!Feed(synchronizer, words).subframes /\ stream' = stream
          /\ detected' = detected \cup ({R!Feed(synchronizer, words).detected} \ {0})
      BY <1>2 DEF R!ProcessWords
    <3> HIDE DEF words, r
    <3>2. QED
      BY <2>1, <3>1 DEF Joined
  <2>3. Follows /\ OtherRateReported
    BY DEF Keeps
  <2>4. /\ g \in 0 .. Len(stream)
        /\ r.sync \in Synchronizers(Heard) /\ d \in Seq(Raws(Heard))
        /\ HoldsLast(r.sync.buffer, g)
        /\ \A m \in g .. Len(stream) : OnTrack(d, r.sync, g, m)
        /\ d = Reference(Sofar(g))
        /\ Len(r.sync.buffer) <= IF r.sync.state = Searching THEN Limit ELSE WPS - 1
        /\ r.sync.state = Searching /\ d = <<>> =>
             /\ Len(r.sync.buffer) = g \/ Len(r.sync.buffer) >= Limit
             /\ synchronizer.state = Searching /\ delivered = <<>>
             /\ \A e \in StandardWps \ {WPS} : PairsAt(Sofar(g), e) # {} =>
                  PairsAt(Sofar(fed), e) # {} \/ (r.detected # 0 /\ r.detected <= e)
    BY <2>3, FeedFollows
  <2> HIDE DEF words, r, d, g
  <2>5. Follows'
    <3>1. stream' \in Seq(Heard) /\ fed' \in 0 .. Len(stream')
      BY <2>2, <2>3, <2>4 DEF Follows
    <3>2. synchronizer' \in Synchronizers(Heard) /\ delivered' \in Seq(Raws(Heard))
      BY <2>2, <2>4
    <3>3. HoldsLast(synchronizer.buffer, fed)'
      BY <2>2, <2>4 DEF HoldsLast
    <3>4. ASSUME NEW m \in fed' .. Len(stream') PROVE OnTrack(delivered, synchronizer, fed, m)'
      <4>1. OnTrack(d, r.sync, g, m)
        BY <2>2, <2>4
      <4>2. QED
        BY <2>2, <4>1 DEF OnTrack, Sofar, Key
    <3>5. (synchronizer.state = Searching /\ delivered = <<>> =>
             Len(synchronizer.buffer) = fed \/ Len(synchronizer.buffer) >= Limit)'
      BY <2>2, <2>4
    <3>6. QED
      BY <3>1, <3>2, <3>3, <3>4, <3>5 DEF Follows
  <2>6. (delivered = Reference(Sofar(fed)))'
    BY <2>2, <2>4 DEF Sofar
  <2>7. BufferBounded'
    <3>1. BufferBounded' <=>
            (Len(synchronizer.buffer) <= IF synchronizer.state = Searching THEN Limit ELSE WPS - 1)'
      BY DEF BufferBounded
    <3>2. QED
      BY <2>2, <2>4, <3>1
  <2>8. OtherRateReported'
    <3>1. OtherRateReported' <=>
            (synchronizer.state = Searching /\ delivered = <<>> =>
               \A e \in StandardWps \ {WPS} :
                 PairsAt(SubSeq(stream, 1, fed), e) # {} => \E x \in detected : x <= e)'
      BY DEF OtherRateReported
    <3>2. ASSUME r.sync.state = Searching, d = <<>>, NEW e \in StandardWps \ {WPS},
                 PairsAt(Sofar(g), e) # {}
          PROVE  \E x \in detected' : x <= e
      <4>1. synchronizer.state = Searching /\ delivered = <<>>
        BY <2>4, <3>2
      <4>2. CASE PairsAt(Sofar(fed), e) # {}
        <5>1. \E x \in detected : x <= e
          BY <2>3, <4>1, <4>2, SameChecks
        <5>2. QED
          BY <2>2, <5>1
      <4>3. CASE r.detected # 0 /\ r.detected <= e
        BY <2>2, <4>3
      <4>4. QED
        BY <2>4, <3>2, <4>2, <4>3
    <3>3. QED
      BY <2>2, <3>1, <3>2 DEF Sofar
  <2>9. QED
    BY <2>5, <2>6, <2>7, <2>8 DEF Keeps
<1>3. QED
  BY <1>1, <1>2 DEF R!Next

\* However a stream is cut into reads, the synchronizer delivers exactly the
\* subframes of the reference; its buffer is bounded, and every rate that the
\* words allow to detect was reported.
THEOREM SynchronizerDelivers ==
  ASSUME Streams
  PROVE  R!Spec => []DeliversTheReference
<1>1. R!Init => Keeps
  BY StartFollows
<1>2. Keeps /\ [R!Next]_R!vars => Keeps'
  BY StepFollows
<1>3. Keeps => DeliversTheReference
  BY DEF Keeps, DeliversTheReference, Sofar
<1>4. QED
  BY <1>1, <1>2, <1>3, PTL DEF R!Spec
=============================================================================
