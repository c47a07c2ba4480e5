---------------------- MODULE SubframeAssembler_proofs ----------------------
(***************************************************************************)
(* Proofs about the two that feed a subframe assembler.  StreamSource, for *)
(* every payload set, every set of frame ids and every number of           *)
(* subframes: the books kept about slots balance.  RecordReplay, in the    *)
(* second part: a replayed session is the session recorded.                *)
(***************************************************************************)
EXTENDS StreamSource, ReplayPromises, SequenceTheorems, TLAPS

-----------------------------------------------------------------------------
(* The shape of the frame under construction, and the books kept about it, *)
(* as predicates and functions of the assembler.                           *)

Contiguous(a) ==
  /\ \A s \in Slots : s >= a.expected => a.states[s] = "PENDING"
  /\ \A s, t \in Slots : s < t /\ t < a.expected /\ a.states[s] # "PENDING"
                           => a.states[t] # "PENDING"
  /\ a.expected > 1 => a.states[a.expected - 1] # "PENDING"

Pending(a) == Count(a.states, "PENDING")
Missing(a) == Count(a.states, "MISSING")

\* Slots counted so far minus slots published or filled so far.
Books(a) ==
  a.stats.subframes + a.stats.missing_subframes
    - 4 * a.stats.frames - (4 - Pending(a))

\* Between two steps of take() the expected subframe may be the fifth.
OpenType ==
  [frame_index : Nat,
   words       : [Slots -> Payload \cup {Blank}],
   states      : [Slots -> SubframeStates],
   invalid     : SUBSET Slots,
   expected    : 1 .. 5,
   stats       : StatsType]

ArrivalType ==
  [frame_index     : Nat,
   subframe        : 0 .. 4,
   state           : SubframeStates,
   words           : [Slots -> Payload \cup {Blank}],
   subframe_states : [Slots -> SubframeStates],
   invalid_words   : SUBSET Slots,
   frame_completed : BOOLEAN]

\* The slots of a frame, listed.
LEMMA FourSlots == Slots = {1, 2, 3, 4}
  BY DEF Slots

\* A count of slots is a number between zero and four.
LEMMA CountType ==
  ASSUME NEW states, NEW st
  PROVE  Count(states, st) \in 0 .. 4
  BY DEF Count

\* A fresh frame has four pending slots, none missing, and no gap.
LEMMA FreshFrame ==
  ASSUME NEW a, a.states = AllPending, a.expected = 1
  PROVE  Pending(a) = 4 /\ Missing(a) = 0 /\ GapSize(a) = 0 /\ Contiguous(a)
  BY FourSlots DEF AllPending, Pending, Missing, GapSize, Contiguous, Count

-----------------------------------------------------------------------------
(* Closing a frame early. *)

\* _close_incomplete: every pending slot moves to the missing column, four
\* slots are published and none is left pending.
LEMMA CloseFacts ==
  ASSUME NEW a \in AssemblerType
  PROVE  /\ CloseIncomplete(a) =
              FreshAssembler(a.frame_index + 1, a.words, CloseIncomplete(a).stats)
         /\ CloseIncomplete(a).stats =
              Stats(a.stats.subframes, a.stats.frames + 1,
                    a.stats.missing_subframes + Pending(a),
                    a.stats.invalid_subframes, a.stats.out_of_order,
                    a.stats.incomplete_frames + 1)
         /\ CloseIncomplete(a) \in AssemblerType
         /\ ClosedArrival(a) \in ArrivalType
         /\ ClosedArrival(a).subframe = 0
         /\ ClosedArrival(a).state = "MISSING"
         /\ ClosedArrival(a).frame_completed = TRUE
         /\ Count(ClosedArrival(a).subframe_states, "PENDING") = 0
         /\ Count(ClosedArrival(a).subframe_states, "MISSING") = Pending(a) + Missing(a)
<1> DEFINE f == Forfeited(a)
<1>1. f.states = [s \in Slots |-> IF a.states[s] = "PENDING" THEN "MISSING" ELSE a.states[s]]
  BY DEF Forfeited, Assembler
<1>2. /\ Count(f.states, "PENDING") = 0
      /\ Count(f.states, "MISSING") = Pending(a) + Missing(a)
  BY <1>1, FourSlots DEF Count, Pending, Missing
<1>3. f.stats = Stats(a.stats.subframes, a.stats.frames + 1,
                    a.stats.missing_subframes + Pending(a),
                    a.stats.invalid_subframes, a.stats.out_of_order,
                    a.stats.incomplete_frames + 1)
  BY DEF Forfeited, Assembler, Pending
<1>4. Pending(a) \in Nat
  BY CountType DEF Pending
<1>5. f.stats \in StatsType
  BY <1>3, <1>4 DEF AssemblerType, StatsType, Stats
<1>6. f.states \in [Slots -> SubframeStates]
  BY <1>1 DEF AssemblerType, SubframeStates
<1>7. CloseIncomplete(a).stats = f.stats
  BY DEF CloseIncomplete, FreshAssembler, Assembler
<1>8. CloseIncomplete(a) \in AssemblerType
  BY <1>5, 1 \in Slots DEF CloseIncomplete, FreshAssembler, Assembler, AllPending, AssemblerType, SubframeStates, Slots
<1>9. f.frame_index = a.frame_index /\ f.words = a.words /\ f.invalid = a.invalid
  BY DEF Forfeited, Assembler
<1>10. ClosedArrival(a) \in ArrivalType
  BY <1>6, <1>9 DEF ClosedArrival, Arrival, ArrivalType, AssemblerType, SubframeStates
<1>11. /\ ClosedArrival(a).subframe = 0
       /\ ClosedArrival(a).state = "MISSING"
       /\ ClosedArrival(a).frame_completed = TRUE
       /\ ClosedArrival(a).subframe_states = f.states
  BY DEF ClosedArrival, Arrival
<1>12. QED
  BY <1>2, <1>3, <1>7, <1>8, <1>10, <1>11 DEF CloseIncomplete, FreshAssembler, Assembler

-----------------------------------------------------------------------------
(* Storing a subframe: the three ways take() prepares the slot. *)

\* What storing one subframe does to the books, the snapshot taken before
\* the frame is completed.
Stored(a, b, state) ==
  /\ b \in OpenType
  /\ Contiguous(b)
  /\ b.expected > 1
  /\ Books(b) = Books(a)
  /\ b.stats.missing_subframes - Missing(b) = a.stats.missing_subframes - Missing(a)
  /\ b.stats.subframes = a.stats.subframes + 1
  /\ b.stats.frames = a.stats.frames
  /\ b.stats.incomplete_frames = a.stats.incomplete_frames
  /\ b.stats.invalid_subframes = a.stats.invalid_subframes + (IF state = "INVALID" THEN 1 ELSE 0)

FilledState == {"RECEIVED", "INVALID", "LATE"}

\* A subframe at or above the expected one; the slots skipped are missing.
LEMMA FillNext ==
  ASSUME NEW a \in AssemblerType, Contiguous(a),
         NEW in \in Input(Slots, FrameIds), in.sf >= a.expected,
         NEW state \in {"RECEIVED", "INVALID"}
  PROVE  /\ Stored(a, Filled(SkippedTo(a, in.sf), in, state), state)
         /\ Filled(SkippedTo(a, in.sf), in, state).stats.out_of_order = a.stats.out_of_order
         /\ GapSize(Filled(SkippedTo(a, in.sf), in, state)) = GapSize(a)
<1> DEFINE k == SkippedTo(a, in.sf)
           b == Filled(k, in, state)
<1>0. in.sf \in Slots /\ in.payload \in Payload /\ a.expected \in Slots
  BY DEF Input, AssemblerType
<1>1. /\ k.states = [s \in Slots |-> IF a.expected <= s /\ s < in.sf THEN "MISSING" ELSE a.states[s]]
      /\ k.words = a.words /\ k.invalid = a.invalid /\ k.expected = a.expected
      /\ k.frame_index = a.frame_index
      /\ k.stats = Stats(a.stats.subframes, a.stats.frames,
                       a.stats.missing_subframes + (in.sf - a.expected),
                       a.stats.invalid_subframes, a.stats.out_of_order,
                       a.stats.incomplete_frames)
  <2>1. CASE in.sf > a.expected
    BY <2>1 DEF SkippedTo, Assembler
  <2>2. CASE ~(in.sf > a.expected)
    <3>1. in.sf = a.expected
      BY <2>2, <1>0 DEF Slots
    <3>2. a.states = [s \in Slots |-> IF a.expected <= s /\ s < in.sf THEN "MISSING" ELSE a.states[s]]
      BY <3>1, <1>0 DEF AssemblerType, Slots
    <3>3. a.stats = Stats(a.stats.subframes, a.stats.frames,
                       a.stats.missing_subframes + (in.sf - a.expected),
                       a.stats.invalid_subframes, a.stats.out_of_order,
                       a.stats.incomplete_frames)
      BY <3>1, <1>0 DEF AssemblerType, StatsType, Stats, Slots
    <3>4. k = a
      BY <2>2 DEF SkippedTo
    <3>5. QED
      BY <3>2, <3>3, <3>4
  <2>3. QED
    BY <2>1, <2>2
<1>2. /\ b.states = [s \in Slots |-> IF s = in.sf THEN state
                                     ELSE IF a.expected <= s /\ s < in.sf THEN "MISSING"
                                     ELSE a.states[s]]
      /\ b.expected = in.sf + 1
      /\ b.stats = Stats(a.stats.subframes + 1, a.stats.frames,
                       a.stats.missing_subframes + (in.sf - a.expected),
                       a.stats.invalid_subframes + (IF state = "INVALID" THEN 1 ELSE 0),
                       a.stats.out_of_order, a.stats.incomplete_frames)
      /\ b.words = [a.words EXCEPT ![in.sf] = in.payload]
      /\ b.invalid \in SUBSET Slots
      /\ b.frame_index = a.frame_index
  BY <1>0, <1>1 DEF Filled, Assembler, Stats, AssemblerType
<1>3. b.stats \in StatsType
  BY <1>0, <1>2 DEF AssemblerType, StatsType, Stats, Slots
<1>4. b \in OpenType
  <2>1. b.states \in [Slots -> SubframeStates] /\ b.words \in [Slots -> Payload \cup {Blank}]
    BY <1>0, <1>2 DEF AssemblerType, SubframeStates
  <2>2. b.expected \in 1 .. 5 /\ b.frame_index \in Nat
    BY <1>0, <1>2 DEF AssemblerType, Slots
  <2>3. QED
    BY <1>2, <1>3, <2>1, <2>2 DEF OpenType, Filled, Assembler
<1>5. Contiguous(b)
  BY <1>0, <1>2 DEF Contiguous, Slots, AssemblerType
<1>6. /\ Pending(b) = Pending(a) - (in.sf - a.expected) - 1
      /\ Missing(b) = Missing(a) + (in.sf - a.expected)
      /\ GapSize(b) = GapSize(a)
  <2>1. \A s \in Slots : b.states[s] = IF s = in.sf THEN state
                                       ELSE IF a.expected <= s /\ s < in.sf THEN "MISSING"
                                       ELSE a.states[s]
    BY <1>2
  <2>2. \A s \in Slots : s >= a.expected => a.states[s] = "PENDING"
    BY DEF Contiguous
  <2>3. state # "PENDING" /\ state # "MISSING"
    OBVIOUS
  <2>4. /\ a.expected = 1 \/ a.expected = 2 \/ a.expected = 3 \/ a.expected = 4
        /\ in.sf = 1 \/ in.sf = 2 \/ in.sf = 3 \/ in.sf = 4
    BY <1>0 DEF Slots
  <2>5. Pending(b) = Pending(a) - (in.sf - a.expected) - 1
    BY <2>1, <2>2, <2>3, <2>4, FourSlots DEF Pending, Count
  <2>6. Missing(b) = Missing(a) + (in.sf - a.expected)
    BY <2>1, <2>2, <2>3, <2>4, FourSlots DEF Missing, Count
  <2>7. GapSize(b) = GapSize(a)
    BY <1>2, <2>1, <2>2, <2>3, <2>4, FourSlots DEF GapSize
  <2>8. QED
    BY <2>5, <2>6, <2>7
<1>7. Books(b) = Books(a)
  BY <1>0, <1>2, <1>6, CountType DEF Books, Stats, AssemblerType, StatsType, Slots, Pending
<1>8. b.stats.missing_subframes - Missing(b) = a.stats.missing_subframes - Missing(a)
  BY <1>0, <1>2, <1>6, CountType DEF Stats, AssemblerType, StatsType, Slots, Missing
<1>9. QED
  BY <1>0, <1>2, <1>4, <1>5, <1>6, <1>7, <1>8 DEF Stored, Stats, Slots

\* A subframe that opens a frame somewhere: the slots before it stay pending.
LEMMA FillFresh ==
  ASSUME NEW a \in AssemblerType, a.states = AllPending, a.expected = 1,
         NEW in \in Input(Slots, FrameIds),
         NEW state \in {"RECEIVED", "INVALID"}
  PROVE  /\ Stored(a, Filled(a, in, state), state)
         /\ Filled(a, in, state).stats.out_of_order = a.stats.out_of_order
         /\ GapSize(Filled(a, in, state)) <= 3
<1> DEFINE b == Filled(a, in, state)
<1>0. in.sf \in Slots /\ in.payload \in Payload
  BY DEF Input
<1>1. /\ b.states = [s \in Slots |-> IF s = in.sf THEN state ELSE "PENDING"]
      /\ b.expected = in.sf + 1
      /\ b.stats = Stats(a.stats.subframes + 1, a.stats.frames, a.stats.missing_subframes,
                       a.stats.invalid_subframes + (IF state = "INVALID" THEN 1 ELSE 0),
                       a.stats.out_of_order, a.stats.incomplete_frames)
      /\ b.words = [a.words EXCEPT ![in.sf] = in.payload]
      /\ b.invalid \in SUBSET Slots
      /\ b.frame_index = a.frame_index
  BY <1>0 DEF Filled, Assembler, Stats, AssemblerType, AllPending, Slots
<1>2. b \in OpenType
  <2>1. b.stats \in StatsType
    BY <1>1 DEF AssemblerType, StatsType, Stats
  <2>2. b.states \in [Slots -> SubframeStates] /\ b.words \in [Slots -> Payload \cup {Blank}]
    BY <1>0, <1>1 DEF AssemblerType, SubframeStates
  <2>3. b.expected \in 1 .. 5 /\ b.frame_index \in Nat
    BY <1>0, <1>1 DEF AssemblerType, Slots
  <2>4. QED
    BY <1>1, <2>1, <2>2, <2>3 DEF OpenType, Filled, Assembler
<1>3. Contiguous(b)
  BY <1>0, <1>1 DEF Contiguous, Slots
<1>4. /\ Pending(a) = 4 /\ Missing(a) = 0
      /\ Pending(b) = 3 /\ Missing(b) = 0 /\ GapSize(b) <= 3
  <2>1. \A s \in Slots : b.states[s] = IF s = in.sf THEN state ELSE "PENDING"
    BY <1>1
  <2>2. state # "PENDING" /\ state # "MISSING"
    OBVIOUS
  <2>3. in.sf = 1 \/ in.sf = 2 \/ in.sf = 3 \/ in.sf = 4
    BY <1>0 DEF Slots
  <2>4. Pending(b) = 3 /\ Missing(b) = 0
    BY <2>1, <2>2, <2>3, FourSlots DEF Pending, Missing, Count
  <2>5. GapSize(b) <= 3
    BY <2>1, <2>2, <2>3, FourSlots DEF GapSize
  <2>6. QED
    BY <2>4, <2>5, FreshFrame
<1>5. QED
  BY <1>0, <1>1, <1>2, <1>3, <1>4 DEF Stored, Stats, Slots, Books, AssemblerType, StatsType

\* A late subframe: the slot it fills stops being missing.
LEMMA FillLate ==
  ASSUME NEW a \in AssemblerType, Contiguous(a),
         a.stats.missing_subframes >= Missing(a),
         NEW in \in Input(Slots, FrameIds), IsLate(a, in.sf),
         NEW state \in {"LATE", "INVALID"}
  PROVE  /\ Stored(a, Filled(Recovered(a), in, state), state)
         /\ Filled(Recovered(a), in, state).stats.out_of_order = a.stats.out_of_order + 1
         /\ GapSize(Filled(Recovered(a), in, state)) = GapSize(a)
<1> DEFINE b == Filled(Recovered(a), in, state)
<1>0. /\ in.sf \in Slots /\ in.payload \in Payload /\ a.expected \in Slots
      /\ in.sf < a.expected /\ a.states[in.sf] = "MISSING"
  BY DEF Input, AssemblerType, IsLate
<1>1. /\ b.states = [a.states EXCEPT ![in.sf] = state]
      /\ b.expected = a.expected
      /\ b.stats = Stats(a.stats.subframes + 1, a.stats.frames,
                       a.stats.missing_subframes - 1,
                       a.stats.invalid_subframes + (IF state = "INVALID" THEN 1 ELSE 0),
                       a.stats.out_of_order + 1, a.stats.incomplete_frames)
      /\ b.words = [a.words EXCEPT ![in.sf] = in.payload]
      /\ b.invalid \in SUBSET Slots
      /\ b.frame_index = a.frame_index
  BY <1>0 DEF Filled, Recovered, Assembler, Stats, AssemblerType, Slots
<1>2. \A s \in Slots : b.states[s] = IF s = in.sf THEN state ELSE a.states[s]
  BY <1>0, <1>1 DEF AssemblerType
<1>3. state # "PENDING" /\ state # "MISSING"
  OBVIOUS
<1>4. in.sf = 1 \/ in.sf = 2 \/ in.sf = 3 \/ in.sf = 4
  BY <1>0 DEF Slots
<1>5. /\ Pending(b) = Pending(a)
      /\ Missing(b) = Missing(a) - 1
      /\ GapSize(b) = GapSize(a)
  <2>1. Pending(b) = Pending(a)
    BY <1>0, <1>2, <1>3, <1>4, FourSlots DEF Pending, Count
  <2>2. Missing(b) = Missing(a) - 1
    BY <1>0, <1>2, <1>3, <1>4, FourSlots DEF Missing, Count
  <2>3. GapSize(b) = GapSize(a)
    BY <1>0, <1>1, <1>2, <1>3, <1>4, FourSlots DEF GapSize
  <2>4. QED
    BY <2>1, <2>2, <2>3
<1>6. b.stats \in StatsType
  <2>1. Missing(a) - 1 \in Nat
    BY <1>5, CountType DEF Missing
  <2>2. a.stats.missing_subframes - 1 \in Nat
    BY <2>1, CountType DEF Missing, AssemblerType, StatsType
  <2>3. QED
    BY <1>1, <2>2 DEF AssemblerType, StatsType, Stats
<1>7. b \in OpenType
  <2>1. b.states \in [Slots -> SubframeStates] /\ b.words \in [Slots -> Payload \cup {Blank}]
    BY <1>0, <1>1 DEF AssemblerType, SubframeStates
  <2>2. b.expected \in 1 .. 5 /\ b.frame_index \in Nat
    BY <1>0, <1>1 DEF AssemblerType, Slots
  <2>3. QED
    BY <1>1, <1>6, <2>1, <2>2 DEF OpenType, Filled, Recovered, Assembler
<1>8. Contiguous(b)
  BY <1>0, <1>1, <1>2, <1>3 DEF Contiguous, Slots
<1>9. QED
  BY <1>0, <1>1, <1>5, <1>7, <1>8, CountType
  DEF Stored, Stats, Slots, Books, Pending, Missing, AssemblerType, StatsType

\* Completing the frame, when the subframe stored was the fourth.
LEMMA CompleteFacts ==
  ASSUME NEW b \in OpenType, Contiguous(b), b.expected > 1,
         NEW sf \in Slots, NEW state \in FilledState,
         NEW arr, arr = Arrival(b, sf, state, FrameDone(b))
  PROVE  /\ Completed(b) \in AssemblerType
         /\ Contiguous(Completed(b))
         /\ arr \in ArrivalType
         /\ arr.subframe = sf /\ arr.state = state
         /\ Books(Completed(b)) + UnmarkedIn(arr) = Books(b)
         /\ GapSize(Completed(b)) + UnmarkedIn(arr) = GapSize(b)
         /\ Completed(b).stats.missing_subframes - Missing(Completed(b))
              = b.stats.missing_subframes - Missing(b)
                + (IF arr.frame_completed THEN Count(arr.subframe_states, "MISSING") ELSE 0)
         /\ Completed(b).stats.frames = b.stats.frames + (IF arr.frame_completed THEN 1 ELSE 0)
         /\ Completed(b).stats.missing_subframes = b.stats.missing_subframes
         /\ Completed(b).stats.subframes = b.stats.subframes
         /\ Completed(b).stats.invalid_subframes = b.stats.invalid_subframes
         /\ Completed(b).stats.out_of_order = b.stats.out_of_order
         /\ Completed(b).stats.incomplete_frames = b.stats.incomplete_frames
<1> DEFINE c == Completed(b)
<1>1. /\ arr \in ArrivalType
      /\ arr.subframe = sf /\ arr.state = state
      /\ arr.subframe_states = b.states
      /\ arr.frame_completed <=> b.expected > 4
  <2> DEFINE done == FrameDone(b)
  <2>1. arr = [frame_index |-> b.frame_index, subframe |-> sf, state |-> state,
               words |-> b.words, subframe_states |-> b.states,
               invalid_words |-> b.invalid, frame_completed |-> done]
    BY DEF Arrival
  <2>2. done \in BOOLEAN /\ (done <=> b.expected > 4)
    BY DEF FrameDone
  <2> HIDE DEF done
  <2>3. arr \in ArrivalType
    BY <2>1, <2>2 DEF ArrivalType, OpenType, FilledState, SubframeStates, Slots
  <2>4. /\ arr.subframe = sf /\ arr.state = state /\ arr.subframe_states = b.states
        /\ arr.frame_completed = done
    BY <2>1
  <2>5. QED
    BY <2>2, <2>3, <2>4
<1>2. CASE b.expected > 4
  <2>1. /\ c = FreshAssembler(b.frame_index + 1, b.words, c.stats)
        /\ c.stats = Stats(b.stats.subframes, b.stats.frames + 1,
                            b.stats.missing_subframes, b.stats.invalid_subframes,
                            b.stats.out_of_order, b.stats.incomplete_frames)
    BY <1>2 DEF Completed, FrameDone, FreshAssembler, Assembler
  <2>2. c.stats \in StatsType
    BY <2>1 DEF OpenType, StatsType, Stats
  <2>3. c \in AssemblerType
    BY <2>1, <2>2 DEF FreshAssembler, Assembler, AllPending, AssemblerType, OpenType, SubframeStates, Slots
  <2>4. Pending(c) = 4 /\ Missing(c) = 0 /\ GapSize(c) = 0 /\ Contiguous(c)
    BY <2>1, FreshFrame DEF FreshAssembler, Assembler
  <2>5. UnmarkedIn(arr) = Pending(b)
    BY <1>1, <1>2 DEF UnmarkedIn, Pending
  <2>6. GapSize(b) = Pending(b)
    BY <1>2, FourSlots DEF GapSize, Pending, Count, OpenType
  <2>7. Pending(b) \in Nat /\ Missing(b) \in Nat
    BY CountType DEF Pending, Missing
  <2>8. Books(c) + Pending(b) = Books(b)
    BY <2>1, <2>4, <2>7 DEF Books, Stats, OpenType, StatsType
  <2>9. c.stats.missing_subframes - Missing(c) = b.stats.missing_subframes - Missing(b) + Missing(b)
    BY <2>1, <2>4, <2>7 DEF Stats, OpenType, StatsType
  <2>10. QED
    <3>1. arr.frame_completed /\ Count(arr.subframe_states, "MISSING") = Missing(b)
      BY <1>1, <1>2 DEF Missing
    <3>2. /\ c.stats.frames = b.stats.frames + 1
          /\ c.stats.missing_subframes = b.stats.missing_subframes
          /\ c.stats.subframes = b.stats.subframes
          /\ c.stats.invalid_subframes = b.stats.invalid_subframes
          /\ c.stats.out_of_order = b.stats.out_of_order
          /\ c.stats.incomplete_frames = b.stats.incomplete_frames
      BY <2>1 DEF Stats
    <3>3. QED
      BY <1>1, <2>3, <2>4, <2>5, <2>6, <2>7, <2>8, <2>9, <3>1, <3>2
<1>3. CASE ~(b.expected > 4)
  <2>1. c = b
    BY <1>3 DEF Completed, FrameDone
  <2>2. b \in AssemblerType
    BY <1>3 DEF OpenType, AssemblerType, Slots
  <2>3. UnmarkedIn(arr) = 0 /\ ~arr.frame_completed
    BY <1>1, <1>3 DEF UnmarkedIn
  <2>4. GapSize(b) \in Nat /\ Books(b) \in Int /\ Missing(b) \in Nat /\ b.stats \in StatsType
    BY CountType DEF GapSize, Books, Missing, Pending, OpenType, StatsType
  <2>5. QED
    BY <1>1, <2>1, <2>2, <2>3, <2>4 DEF StatsType
<1>4. QED
  BY <1>2, <1>3

-----------------------------------------------------------------------------
(* The inductive invariant, as a predicate of an assembler, diagnostics    *)
(* and a ledger, so that it can be carried through the stages of take().   *)

Agree(a, d, l) ==
  /\ d.subframes_received = a.stats.subframes - l.base.subframes
  /\ d.frames_received = a.stats.frames - l.base.frames
  /\ d.invalid_subframes = a.stats.invalid_subframes - l.base.invalid_subframes
  /\ d.out_of_order <= a.stats.out_of_order - l.base.out_of_order
  /\ d.dropped_subframes + Missing(a) + l.lost
       = a.stats.missing_subframes - l.base.missing_subframes

Accounts(a, d, l) ==
  /\ a \in AssemblerType
  /\ d \in DiagType
  /\ l \in LedgerType
  /\ Contiguous(a)
  /\ Books(a) + l.unmarked = l.abandoned
  /\ l.unmarked + GapSize(a) <= 3 * a.stats.incomplete_frames
  /\ Agree(a, d, l)

Charge(l, n) == [l EXCEPT !.unmarked = @ + n]

\* A gap holds at most four slots.
LEMMA GapType == ASSUME NEW a PROVE GapSize(a) \in 0 .. 4
  BY DEF GapSize

\* Adding unmarked slots to the ledger keeps its type and its other entries.
LEMMA ChargeType ==
  ASSUME NEW l \in LedgerType, NEW n \in Nat
  PROVE  /\ Charge(l, n) \in LedgerType
         /\ Charge(l, n).unmarked = l.unmarked + n
         /\ Charge(l, n).abandoned = l.abandoned
         /\ Charge(l, n).lost = l.lost
         /\ Charge(l, n).base = l.base
  BY DEF Charge, LedgerType

\* The counting loop of deliver_subframe keeps the type of the diagnostics.
LEMMA CountedType ==
  ASSUME NEW d \in DiagType, NEW arr \in ArrivalType
  PROVE  Counted(d, arr) \in DiagType
<1>1. Count(arr.subframe_states, "MISSING") \in Nat
  BY CountType
<1>2. QED
  BY <1>1 DEF Counted, DiagType

\* A published frame has at most four unmarked slots.
LEMMA UnmarkedType == ASSUME NEW arr PROVE UnmarkedIn(arr) \in 0 .. 4
  BY CountType DEF UnmarkedIn

\* A frame closed early keeps the books and leaves room for three slots.
LEMMA CloseAccounts ==
  ASSUME NEW a, NEW d, NEW l, Accounts(a, d, l)
  PROVE  /\ Accounts(CloseIncomplete(a), Counted(d, ClosedArrival(a)), l)
         /\ l.unmarked + 3 <= 3 * CloseIncomplete(a).stats.incomplete_frames
         /\ CloseIncomplete(a).states = AllPending
         /\ CloseIncomplete(a).expected = 1
         /\ UnmarkedIn(ClosedArrival(a)) = 0
<1> DEFINE c == CloseIncomplete(a)
           k == ClosedArrival(a)
           e == Counted(d, k)
<1>1. a \in AssemblerType /\ d \in DiagType /\ l \in LedgerType
  BY DEF Accounts
<1>2. /\ c.stats = Stats(a.stats.subframes, a.stats.frames + 1,
                    a.stats.missing_subframes + Pending(a),
                    a.stats.invalid_subframes, a.stats.out_of_order,
                    a.stats.incomplete_frames + 1)
      /\ c \in AssemblerType
      /\ k \in ArrivalType
      /\ k.subframe = 0 /\ k.state = "MISSING" /\ k.frame_completed = TRUE
      /\ Count(k.subframe_states, "PENDING") = 0
      /\ Count(k.subframe_states, "MISSING") = Pending(a) + Missing(a)
  BY <1>1, CloseFacts
<1>3. c.states = AllPending /\ c.expected = 1
  BY DEF CloseIncomplete, FreshAssembler, Assembler
<1>4. Pending(c) = 4 /\ Missing(c) = 0 /\ GapSize(c) = 0 /\ Contiguous(c)
  BY <1>3, FreshFrame
<1>5. UnmarkedIn(k) = 0
  BY <1>2 DEF UnmarkedIn
<1>6. Pending(a) \in Nat /\ Missing(a) \in Nat /\ GapSize(a) \in Nat
  BY CountType, GapType DEF Pending, Missing
<1>7. e \in DiagType
  BY <1>1, <1>2, CountedType
<1>8. /\ e.subframes_received = d.subframes_received
      /\ e.frames_received = d.frames_received + 1
      /\ e.invalid_subframes = d.invalid_subframes
      /\ e.out_of_order = d.out_of_order
      /\ e.dropped_subframes = d.dropped_subframes + Pending(a) + Missing(a)
  BY <1>1, <1>2, <1>6 DEF Counted, DiagType
<1>9. a.stats \in StatsType /\ l.base \in StatsType /\ l.unmarked \in Nat /\ l.lost \in Nat
  BY <1>1 DEF AssemblerType, LedgerType
<1>10. Agree(c, e, l)
  BY <1>1, <1>2, <1>4, <1>6, <1>8, <1>9 DEF Agree, Accounts, Stats, StatsType, DiagType
<1>11. Books(c) = Books(a)
  BY <1>2, <1>4, <1>6, <1>9 DEF Books, Stats, StatsType
<1>12. l.unmarked + 3 <= 3 * c.stats.incomplete_frames
  BY <1>2, <1>6, <1>9 DEF Accounts, Stats, StatsType
<1>13. l.unmarked + GapSize(c) <= 3 * c.stats.incomplete_frames
  BY <1>2, <1>4, <1>9, <1>12 DEF Stats, StatsType
<1>14. QED
  BY <1>1, <1>2, <1>3, <1>4, <1>5, <1>7, <1>10, <1>11, <1>12, <1>13 DEF Accounts

\* Adopting a frame id touches nothing the books depend on.
LEMMA IndexAccounts ==
  ASSUME NEW a, NEW d, NEW l, Accounts(a, d, l), NEW id \in Nat
  PROVE  /\ Accounts(WithIndex(a, id), d, l)
         /\ WithIndex(a, id).states = a.states
         /\ WithIndex(a, id).expected = a.expected
         /\ WithIndex(a, id).stats = a.stats
<1> DEFINE b == WithIndex(a, id)
<1>1. b.states = a.states /\ b.expected = a.expected /\ b.stats = a.stats
  BY DEF WithIndex, Assembler
<1>2. b \in AssemblerType
  BY DEF WithIndex, Assembler, Accounts, AssemblerType
<1>3. QED
  BY <1>1, <1>2 DEF Accounts, Agree, Contiguous, Books, Pending, Missing, GapSize

\* Storing a subframe and completing the frame keeps the books, when the gap
\* it leaves is paid for.
LEMMA StoreAccounts ==
  ASSUME NEW a, NEW d, NEW l, Accounts(a, d, l),
         NEW in \in Input(Slots, FrameIds), NEW state \in FilledState,
         NEW k, Stored(a, Filled(k, in, state), state),
         Filled(k, in, state).stats.out_of_order
           >= a.stats.out_of_order + (IF state = "LATE" THEN 1 ELSE 0),
         l.unmarked + GapSize(Filled(k, in, state)) <= 3 * a.stats.incomplete_frames,
         NEW closed, NEW arr,
         arr = Arrival(Filled(k, in, state), in.sf, state, FrameDone(Filled(k, in, state)))
  PROVE  /\ Accounts(StoreResult(k, in, state, closed).asm, Counted(d, arr),
                     Charge(l, UnmarkedIn(arr)))
         /\ StoreResult(k, in, state, closed).arrivals = Append(closed, arr)
<1> DEFINE b == Filled(k, in, state)
           c == Completed(b)
           e == Counted(d, arr)
           m == Charge(l, UnmarkedIn(arr))
<1>1. StoreResult(k, in, state, closed).asm = c /\ StoreResult(k, in, state, closed).arrivals = Append(closed, arr)
  BY DEF StoreResult
<1>2. a \in AssemblerType /\ d \in DiagType /\ l \in LedgerType /\ in.sf \in Slots
  BY DEF Accounts, Input
<1>3. b \in OpenType /\ Contiguous(b) /\ b.expected > 1
  BY DEF Stored
<1>4. /\ c \in AssemblerType
      /\ Contiguous(c)
      /\ arr \in ArrivalType
      /\ arr.subframe = in.sf /\ arr.state = state
      /\ Books(c) + UnmarkedIn(arr) = Books(b)
      /\ GapSize(c) + UnmarkedIn(arr) = GapSize(b)
      /\ c.stats.missing_subframes - Missing(c)
              = b.stats.missing_subframes - Missing(b)
                + (IF arr.frame_completed THEN Count(arr.subframe_states, "MISSING") ELSE 0)
      /\ c.stats.frames = b.stats.frames + (IF arr.frame_completed THEN 1 ELSE 0)
      /\ c.stats.missing_subframes = b.stats.missing_subframes
      /\ c.stats.subframes = b.stats.subframes
      /\ c.stats.invalid_subframes = b.stats.invalid_subframes
      /\ c.stats.out_of_order = b.stats.out_of_order
      /\ c.stats.incomplete_frames = b.stats.incomplete_frames
  BY <1>2, <1>3, CompleteFacts
<1>5. e \in DiagType
  BY <1>2, <1>4, CountedType
<1>6. /\ m \in LedgerType
      /\ m.unmarked = l.unmarked + UnmarkedIn(arr)
      /\ m.abandoned = l.abandoned /\ m.lost = l.lost /\ m.base = l.base
  <2>1. UnmarkedIn(arr) \in Nat
    BY UnmarkedType
  <2>2. QED
    BY <1>2, <2>1, ChargeType
<1>7. /\ UnmarkedIn(arr) \in Nat /\ Missing(a) \in Nat /\ Missing(b) \in Nat /\ Missing(c) \in Nat
      /\ GapSize(b) \in Nat /\ GapSize(c) \in Nat
  BY CountType, GapType, UnmarkedType DEF Missing
<1>8. a.stats \in StatsType /\ b.stats \in StatsType /\ c.stats \in StatsType
      /\ l.base \in StatsType /\ l.unmarked \in Nat /\ l.lost \in Nat /\ l.abandoned \in Nat
  BY <1>2, <1>3, <1>4 DEF AssemblerType, OpenType, LedgerType
<1>9. Books(a) \in Int /\ Books(b) \in Int /\ Books(c) \in Int
  BY <1>8, CountType DEF Books, Pending, StatsType
<1>10. /\ b.stats.subframes = a.stats.subframes + 1
       /\ b.stats.frames = a.stats.frames
       /\ b.stats.incomplete_frames = a.stats.incomplete_frames
       /\ b.stats.invalid_subframes = a.stats.invalid_subframes + (IF state = "INVALID" THEN 1 ELSE 0)
       /\ Books(b) = Books(a)
       /\ b.stats.missing_subframes - Missing(b) = a.stats.missing_subframes - Missing(a)
  BY DEF Stored
<1>16. /\ b.stats.out_of_order >= a.stats.out_of_order + (IF state = "LATE" THEN 1 ELSE 0)
       /\ l.unmarked + GapSize(b) <= 3 * a.stats.incomplete_frames
  OBVIOUS
<1>11. /\ e.subframes_received = d.subframes_received + 1
       /\ e.frames_received = d.frames_received + (IF arr.frame_completed THEN 1 ELSE 0)
       /\ e.invalid_subframes = d.invalid_subframes + (IF state = "INVALID" THEN 1 ELSE 0)
       /\ e.out_of_order = d.out_of_order + (IF state = "LATE" THEN 1 ELSE 0)
       /\ e.dropped_subframes = d.dropped_subframes
            + (IF arr.frame_completed THEN Count(arr.subframe_states, "MISSING") ELSE 0)
  BY <1>2, <1>4 DEF Counted, Slots
<1> HIDE DEF b, c, e, m
<1>12. Agree(c, e, m)
  <2> DEFINE done == IF arr.frame_completed THEN 1 ELSE 0
             dropped == IF arr.frame_completed THEN Count(arr.subframe_states, "MISSING") ELSE 0
             bad == IF state = "INVALID" THEN 1 ELSE 0
             late == IF state = "LATE" THEN 1 ELSE 0
  <2>1. done \in Nat /\ dropped \in Nat /\ bad \in Nat /\ late \in Nat
    BY CountType
  <2>2. Agree(a, d, l)
    BY DEF Accounts
  <2>3. b.stats.out_of_order >= a.stats.out_of_order + late
    BY <1>16
  <2>4. /\ c.stats.missing_subframes - Missing(c) = b.stats.missing_subframes - Missing(b) + dropped
        /\ c.stats.frames = b.stats.frames + done
        /\ e.frames_received = d.frames_received + done
        /\ e.invalid_subframes = d.invalid_subframes + bad
        /\ b.stats.invalid_subframes = a.stats.invalid_subframes + bad
        /\ e.out_of_order = d.out_of_order + late
        /\ e.dropped_subframes = d.dropped_subframes + dropped
    BY <1>4, <1>10, <1>11
  <2> HIDE DEF done, dropped, bad, late
  <2>5. /\ e.subframes_received = c.stats.subframes - m.base.subframes
        /\ e.frames_received = c.stats.frames - m.base.frames
        /\ e.invalid_subframes = c.stats.invalid_subframes - m.base.invalid_subframes
    BY <1>2, <1>4, <1>6, <1>8, <1>10, <1>11, <2>1, <2>2, <2>4 DEF Agree, StatsType, DiagType
  <2>6. e.out_of_order <= c.stats.out_of_order - m.base.out_of_order
    BY <1>2, <1>4, <1>6, <1>8, <2>1, <2>2, <2>3, <2>4 DEF Agree, StatsType, DiagType
  <2>7. e.dropped_subframes + Missing(c) + m.lost
          = c.stats.missing_subframes - m.base.missing_subframes
    <3>1. /\ a.stats.missing_subframes \in Int /\ b.stats.missing_subframes \in Int
          /\ c.stats.missing_subframes \in Int /\ l.base.missing_subframes \in Int
          /\ d.dropped_subframes \in Int /\ e.dropped_subframes = d.dropped_subframes + dropped
      BY <1>2, <1>8, <2>4 DEF StatsType, DiagType
    <3>2. d.dropped_subframes + Missing(a) + l.lost = a.stats.missing_subframes - l.base.missing_subframes
      BY <2>2 DEF Agree
    <3>3. /\ c.stats.missing_subframes - Missing(c) = b.stats.missing_subframes - Missing(b) + dropped
          /\ b.stats.missing_subframes - Missing(b) = a.stats.missing_subframes - Missing(a)
          /\ m.lost = l.lost /\ m.base = l.base
      BY <1>6, <1>10, <2>4
    <3>4. e.dropped_subframes + Missing(c) + l.lost
            = c.stats.missing_subframes - l.base.missing_subframes
      <4>1. \A da, de, ma, mb, mc, xa, xb, xc, lo, ba, dr \in Int :
              /\ da + ma + lo = xa - ba /\ de = da + dr
              /\ xc - mc = xb - mb + dr /\ xb - mb = xa - ma
              => de + mc + lo = xc - ba
        OBVIOUS
      <4>2. l.lost \in Int /\ e.dropped_subframes \in Int /\ dropped \in Int
        BY <1>8, <2>1, <3>1
      <4>3. QED
        BY <1>7, <3>1, <3>2, <3>3, <4>1, <4>2
    <3>5. QED
      BY <3>3, <3>4
  <2>8. QED
    BY <2>5, <2>6, <2>7 DEF Agree
<1>13. Books(c) + m.unmarked = m.abandoned
  BY <1>4, <1>6, <1>7, <1>8, <1>9, <1>10 DEF Accounts
<1>14. m.unmarked + GapSize(c) <= 3 * c.stats.incomplete_frames
  BY <1>4, <1>6, <1>7, <1>8, <1>10, <1>16 DEF StatsType
<1>15. StoreResult(k, in, state, closed).asm = c
       /\ e = Counted(d, arr) /\ m = Charge(l, UnmarkedIn(arr))
  BY <1>1 DEF e, m
<1>17. QED
  BY <1>1, <1>15, <1>4, <1>5, <1>6, <1>12, <1>13, <1>14 DEF Accounts

\* The three ways a stored subframe reaches StoreAccounts.
LEMMA NextAccounts ==
  ASSUME NEW a, NEW d, NEW l, Accounts(a, d, l),
         NEW in \in Input(Slots, FrameIds), in.sf >= a.expected, NEW closed
  PROVE  LET r == StoreResult(SkippedTo(a, in.sf), in, ReceivedState(in), closed)
         IN  \E arr : /\ r.arrivals = Append(closed, arr)
                      /\ Accounts(r.asm, Counted(d, arr), Charge(l, UnmarkedIn(arr)))
<1> DEFINE state == ReceivedState(in)
           k == SkippedTo(a, in.sf)
           b == Filled(k, in, state)
           arr == Arrival(b, in.sf, state, FrameDone(b))
<1>1. state \in {"RECEIVED", "INVALID"} /\ state \in FilledState /\ state # "LATE"
  BY DEF ReceivedState, FilledState
<1>2. Stored(a, b, state) /\ b.stats.out_of_order = a.stats.out_of_order /\ GapSize(b) = GapSize(a)
  BY <1>1, FillNext DEF Accounts
<1>3. l.unmarked + GapSize(b) <= 3 * a.stats.incomplete_frames
  BY <1>2 DEF Accounts
<1>4. b.stats.out_of_order >= a.stats.out_of_order + (IF state = "LATE" THEN 1 ELSE 0)
  BY <1>1, <1>2 DEF Accounts, AssemblerType, StatsType
<1> HIDE DEF state, k
<1>5. /\ Accounts(StoreResult(k, in, state, closed).asm, Counted(d, arr), Charge(l, UnmarkedIn(arr)))
      /\ StoreResult(k, in, state, closed).arrivals = Append(closed, arr)
  BY <1>1, <1>2, <1>3, <1>4, StoreAccounts
<1>6. QED
  BY <1>5 DEF state, k

\* A late subframe keeps the books: one slot less is missing, one more is
\* received.
LEMMA LateAccounts ==
  ASSUME NEW a, NEW d, NEW l, Accounts(a, d, l),
         NEW in \in Input(Slots, FrameIds), IsLate(a, in.sf), NEW closed,
         NEW state, state = IF ReceivedState(in) = "RECEIVED" THEN "LATE" ELSE ReceivedState(in)
  PROVE  LET r == StoreResult(Recovered(a), in, state, closed)
         IN  \E arr : /\ r.arrivals = Append(closed, arr)
                      /\ Accounts(r.asm, Counted(d, arr), Charge(l, UnmarkedIn(arr)))
<1> DEFINE k == Recovered(a)
           b == Filled(k, in, state)
           arr == Arrival(b, in.sf, state, FrameDone(b))
<1>1. state \in {"LATE", "INVALID"} /\ state \in FilledState
  BY DEF ReceivedState, FilledState
<1>2. a.stats.missing_subframes >= Missing(a)
  <2>1. /\ d.dropped_subframes + Missing(a) + l.lost
             = a.stats.missing_subframes - l.base.missing_subframes
        /\ d.dropped_subframes \in Nat /\ l.lost \in Nat /\ l.base.missing_subframes \in Nat
        /\ a.stats.missing_subframes \in Nat
    BY DEF Accounts, Agree, DiagType, LedgerType, AssemblerType, StatsType
  <2>2. Missing(a) \in Nat
    BY CountType DEF Missing
  <2>3. QED
    BY <2>1, <2>2
<1>3. Stored(a, b, state) /\ b.stats.out_of_order = a.stats.out_of_order + 1 /\ GapSize(b) = GapSize(a)
  BY <1>1, <1>2, FillLate DEF Accounts
<1>4. l.unmarked + GapSize(b) <= 3 * a.stats.incomplete_frames
  BY <1>3 DEF Accounts
<1>5. b.stats.out_of_order >= a.stats.out_of_order + (IF state = "LATE" THEN 1 ELSE 0)
  BY <1>3 DEF Accounts, AssemblerType, StatsType
<1> HIDE DEF k
<1>6. /\ Accounts(StoreResult(k, in, state, closed).asm, Counted(d, arr), Charge(l, UnmarkedIn(arr)))
      /\ StoreResult(k, in, state, closed).arrivals = Append(closed, arr)
  BY <1>1, <1>3, <1>4, <1>5, StoreAccounts
<1>7. QED
  BY <1>6 DEF k

\* A restart keeps the books: the closed frame pays for the slots that stay
\* pending in the new one.
LEMMA RestartAccounts ==
  ASSUME NEW a, NEW d, NEW l, Accounts(a, d, l),
         a.states = AllPending, a.expected = 1,
         l.unmarked + 3 <= 3 * a.stats.incomplete_frames,
         NEW in \in Input(Slots, FrameIds), NEW closed
  PROVE  LET r == StoreResult(a, in, ReceivedState(in), closed)
         IN  \E arr : /\ r.arrivals = Append(closed, arr)
                      /\ Accounts(r.asm, Counted(d, arr), Charge(l, UnmarkedIn(arr)))
<1> DEFINE state == ReceivedState(in)
           b == Filled(a, in, state)
           arr == Arrival(b, in.sf, state, FrameDone(b))
<1>1. state \in {"RECEIVED", "INVALID"} /\ state \in FilledState /\ state # "LATE"
  BY DEF ReceivedState, FilledState
<1>2. Stored(a, b, state) /\ b.stats.out_of_order = a.stats.out_of_order /\ GapSize(b) <= 3
  BY <1>1, FillFresh DEF Accounts
<1>3. l.unmarked + GapSize(b) <= 3 * a.stats.incomplete_frames
  <2>1. GapSize(b) \in Nat /\ l.unmarked \in Nat /\ a.stats.incomplete_frames \in Nat
    BY GapType DEF Accounts, LedgerType, AssemblerType, StatsType
  <2>2. QED
    BY <1>2, <2>1
<1>4. b.stats.out_of_order >= a.stats.out_of_order + (IF state = "LATE" THEN 1 ELSE 0)
  BY <1>1, <1>2 DEF Accounts, AssemblerType, StatsType
<1> HIDE DEF state
<1>5. /\ Accounts(StoreResult(a, in, state, closed).asm, Counted(d, arr), Charge(l, UnmarkedIn(arr)))
      /\ StoreResult(a, in, state, closed).arrivals = Append(closed, arr)
  BY <1>1, <1>2, <1>3, <1>4, StoreAccounts
<1>6. QED
  BY <1>5 DEF state

\* The diagnostics and the unmarked slots of a list of one or two arrivals.
LEMMA OneArrival ==
  ASSUME NEW d, NEW arr
  PROVE  /\ CountedAll(d, Append(<<>>, arr)) = Counted(d, arr)
         /\ UnmarkedInAll(Append(<<>>, arr)) = UnmarkedIn(arr)
<1>1. Append(<<>>, arr) = <<arr>>
  OBVIOUS
<1>2. Len(<<arr>>) = 1 /\ <<arr>>[1] = arr
  OBVIOUS
<1>3. QED
  BY <1>1, <1>2 DEF CountedAll, UnmarkedInAll

\* The same for a frame closed early followed by a stored subframe.
LEMMA TwoArrivals ==
  ASSUME NEW d, NEW k, UnmarkedIn(k) = 0, NEW arr
  PROVE  /\ CountedAll(d, Append(<<k>>, arr)) = Counted(Counted(d, k), arr)
         /\ UnmarkedInAll(Append(<<k>>, arr)) = UnmarkedIn(arr)
<1>1. <<k>> \in Seq({k, arr}) /\ Len(<<k>>) = 1 /\ <<k>>[1] = k
  OBVIOUS
<1>2. Len(Append(<<k>>, arr)) = 2 /\ Append(<<k>>, arr)[1] = k /\ Append(<<k>>, arr)[2] = arr
  BY <1>1, AppendProperties
<1>3. UnmarkedIn(arr) \in Int
  BY UnmarkedType
<1>4. QED
  BY <1>2, <1>3 DEF CountedAll, UnmarkedInAll

\* One call of take() followed by the counting loop keeps the books.
LEMMA TakeAccounts ==
  ASSUME NEW a, NEW d, NEW l, Accounts(a, d, l),
         NEW in \in Input(Slots, FrameIds)
  PROVE  LET r == Take(a, in)
         IN  Accounts(r.asm, CountedAll(d, r.arrivals), Charge(l, UnmarkedInAll(r.arrivals)))
<1> DEFINE r == Take(a, in)
<1> SUFFICES Accounts(r.asm, CountedAll(d, r.arrivals), Charge(l, UnmarkedInAll(r.arrivals)))
  OBVIOUS
<1> HIDE DEF r
<1>0. /\ in.sf \in Slots /\ (in.id # NoId => in.id \in Nat)
      /\ a.expected \in Slots
  BY FrameIdsAssumption DEF Input, Accounts, AssemblerType
<1>1. CASE IdCloses(a, in.id)
  <2> DEFINE c == CloseIncomplete(a)
             b == WithIndex(c, in.id)
             k == ClosedArrival(a)
  <2>1. in.id \in Nat
    BY <1>0, <1>1 DEF IdCloses
  <2>2. Accounts(c, Counted(d, k), l) /\ c.expected = 1 /\ UnmarkedIn(k) = 0
    BY CloseAccounts
  <2>3. Accounts(b, Counted(d, k), l) /\ b.expected = 1
    BY <2>1, <2>2, IndexAccounts
  <2>4. Identified(a, in.id) = b
    BY <1>1 DEF Identified
  <2>5. ~IsLate(b, in.sf) /\ ~Restarts(b, in.sf) /\ in.sf >= b.expected
    BY <1>0, <2>3 DEF IsLate, Restarts, Slots
  <2>6. r = StoreResult(SkippedTo(b, in.sf), in, ReceivedState(in), <<k>>)
    BY <1>1, <2>4, <2>5 DEF Take, r
  <2>7. PICK arr : /\ r.arrivals = Append(<<k>>, arr)
                   /\ Accounts(r.asm, Counted(Counted(d, k), arr), Charge(l, UnmarkedIn(arr)))
    <3> DEFINE q == StoreResult(SkippedTo(b, in.sf), in, ReceivedState(in), <<k>>)
    <3>1. \E arr : /\ q.arrivals = Append(<<k>>, arr)
                   /\ Accounts(q.asm, Counted(Counted(d, k), arr), Charge(l, UnmarkedIn(arr)))
      <4> HIDE DEF b, k
      <4>1. QED
        BY <2>3, <2>5, NextAccounts
    <3>2. r = q
      BY <2>6
    <3> HIDE DEF q, b, k
    <3>3. QED
      BY <3>1, <3>2
  <2>8. QED
    BY <2>2, <2>7, TwoArrivals
<1>2. CASE ~IdCloses(a, in.id)
  <2> DEFINE b == Identified(a, in.id)
  <2>1. Accounts(b, d, l) /\ b.expected = a.expected
    <3>1. CASE in.id # NoId /\ a.expected = 1
      BY <1>0, <1>2, <3>1, IndexAccounts DEF Identified
    <3>2. CASE ~(in.id # NoId /\ a.expected = 1)
      BY <1>2, <3>2 DEF Identified
    <3>3. QED
      BY <3>1, <3>2
  <2> HIDE DEF b
  <2>2. CASE IsLate(b, in.sf)
    <3> DEFINE state == IF ReceivedState(in) = "RECEIVED" THEN "LATE" ELSE ReceivedState(in)
    <3>1. r = StoreResult(Recovered(b), in, state, <<>>)
      BY <1>2, <2>2 DEF Take, b, r
    <3>2. PICK arr : /\ r.arrivals = Append(<<>>, arr)
                     /\ Accounts(r.asm, Counted(d, arr), Charge(l, UnmarkedIn(arr)))
      <4> DEFINE q == StoreResult(Recovered(b), in, state, <<>>)
      <4>1. \E arr : /\ q.arrivals = Append(<<>>, arr)
                     /\ Accounts(q.asm, Counted(d, arr), Charge(l, UnmarkedIn(arr)))
        BY <2>1, <2>2, LateAccounts
      <4>2. r = q
        BY <3>1
      <4> HIDE DEF q
      <4>3. QED
        BY <4>1, <4>2
    <3>3. QED
      BY <3>2, OneArrival
  <2>3. CASE ~IsLate(b, in.sf) /\ Restarts(b, in.sf)
    <3> DEFINE k == ClosedArrival(b)
               c == CloseIncomplete(b)
    <3>1. r = StoreResult(c, in, ReceivedState(in), Append(<<>>, k))
      BY <1>2, <2>3 DEF Take, b, r
    <3>2. /\ Accounts(c, Counted(d, k), l)
          /\ l.unmarked + 3 <= 3 * c.stats.incomplete_frames
          /\ c.states = AllPending /\ c.expected = 1
          /\ UnmarkedIn(k) = 0
      BY <2>1, CloseAccounts
    <3>3. PICK arr : /\ r.arrivals = Append(Append(<<>>, k), arr)
                     /\ Accounts(r.asm, Counted(Counted(d, k), arr), Charge(l, UnmarkedIn(arr)))
      <4> DEFINE q == StoreResult(c, in, ReceivedState(in), Append(<<>>, k))
      <4>1. \E arr : /\ q.arrivals = Append(Append(<<>>, k), arr)
                     /\ Accounts(q.asm, Counted(Counted(d, k), arr), Charge(l, UnmarkedIn(arr)))
        <5> HIDE DEF c, k
        <5>1. QED
          BY <3>2, RestartAccounts
      <4>2. r = q
        BY <3>1
      <4> HIDE DEF q, c, k
      <4>3. QED
        BY <4>1, <4>2
    <3>4. Append(<<>>, k) = <<k>>
      OBVIOUS
    <3>5. QED
      BY <3>2, <3>3, <3>4, TwoArrivals
  <2>4. CASE ~IsLate(b, in.sf) /\ ~Restarts(b, in.sf)
    <3>1. r = StoreResult(SkippedTo(b, in.sf), in, ReceivedState(in), <<>>)
      BY <1>2, <2>4 DEF Take, b, r
    <3>2. in.sf >= b.expected
      BY <1>0, <2>1, <2>4 DEF IsLate, Restarts, Slots
    <3>3. PICK arr : /\ r.arrivals = Append(<<>>, arr)
                     /\ Accounts(r.asm, Counted(d, arr), Charge(l, UnmarkedIn(arr)))
      <4> DEFINE q == StoreResult(SkippedTo(b, in.sf), in, ReceivedState(in), <<>>)
      <4>1. \E arr : /\ q.arrivals = Append(<<>>, arr)
                     /\ Accounts(q.asm, Counted(d, arr), Charge(l, UnmarkedIn(arr)))
        BY <2>1, <3>2, NextAccounts
      <4>2. r = q
        BY <3>1
      <4> HIDE DEF q
      <4>3. QED
        BY <4>1, <4>2
    <3>4. QED
      BY <3>3, OneArrival
  <2>5. QED
    BY <2>2, <2>3, <2>4
<1>3. QED
  BY <1>1, <1>2

-----------------------------------------------------------------------------
(* Invariance *)

IInv == Accounts(asm, diag, ledger)

\* The books balance before anything is delivered.
LEMMA InitBooks == Init => IInv
<1> SUFFICES ASSUME Init PROVE IInv
  OBVIOUS
<1>1. asm = FreshAssembler(0, [s \in Slots |-> Blank], ZeroStats)
  BY DEF Init, NewAssembler
<1>2. /\ asm.states = AllPending /\ asm.expected = 1 /\ asm.stats = ZeroStats
      /\ asm \in AssemblerType
  BY <1>1 DEF FreshAssembler, Assembler, AssemblerType, AllPending, SubframeStates,
              ZeroStats, Stats, StatsType, Slots
<1>3. Pending(asm) = 4 /\ Missing(asm) = 0 /\ GapSize(asm) = 0 /\ Contiguous(asm)
  BY <1>2, FreshFrame
<1>4. diag \in DiagType /\ ledger \in LedgerType
  BY DEF Init, ZeroDiag, DiagType, LedgerType, ZeroStats, Stats, StatsType
<1>5. Agree(asm, diag, ledger)
  BY <1>2, <1>3 DEF Agree, Init, ZeroDiag, ZeroStats, Stats
<1>6. Books(asm) = 0
  BY <1>2, <1>3 DEF Books, ZeroStats, Stats
<1>7. ledger.unmarked = 0 /\ ledger.abandoned = 0 /\ asm.stats.incomplete_frames = 0
  BY <1>2 DEF Init, ZeroStats, Stats
<1>8. QED
  BY <1>2, <1>3, <1>4, <1>5, <1>6, <1>7 DEF IInv, Accounts

\* A new frame begun by a stream start or a device reset.
LEMMA ResetFacts ==
  ASSUME NEW a \in AssemblerType
  PROVE  /\ ResetTo(a, 0) \in AssemblerType
         /\ ResetTo(a, 0).stats = a.stats
         /\ Pending(ResetTo(a, 0)) = 4 /\ Missing(ResetTo(a, 0)) = 0
         /\ GapSize(ResetTo(a, 0)) = 0 /\ Contiguous(ResetTo(a, 0))
         /\ Books(ResetTo(a, 0)) = Books(a) + 4 - Pending(a)
<1> DEFINE b == ResetTo(a, 0)
<1>1. b.states = AllPending /\ b.expected = 1 /\ b.stats = a.stats
  BY DEF ResetTo, FreshAssembler, Assembler
<1>2. b \in AssemblerType
  BY DEF ResetTo, FreshAssembler, Assembler, AssemblerType, AllPending, SubframeStates, Slots
<1>3. Pending(b) = 4 /\ Missing(b) = 0 /\ GapSize(b) = 0 /\ Contiguous(b)
  BY <1>1, FreshFrame
<1>4. Pending(a) \in Nat
  BY CountType DEF Pending
<1>5. Books(b) = Books(a) + 4 - Pending(a)
  BY <1>1, <1>3, <1>4 DEF Books, AssemblerType, StatsType
<1>6. QED
  BY <1>1, <1>2, <1>3, <1>5

\* Every step keeps the books balanced: a delivery by TakeAccounts, a stream
\* start and a device reset by ResetFacts.
LEMMA NextBooks == IInv /\ [Next]_vars => IInv'
<1> SUFFICES ASSUME IInv, [Next]_vars PROVE IInv'
  OBVIOUS
<1>0. asm \in AssemblerType /\ diag \in DiagType /\ ledger \in LedgerType
  BY DEF IInv, Accounts
<1>1. ASSUME NEW in \in Input(Slots, FrameIds), DeliverSubframe(in)
      PROVE  IInv'
  <2> DEFINE r == Take(asm, in)
  <2>1. /\ asm' = r.asm
        /\ diag' = CountedAll(diag, r.arrivals)
        /\ ledger' = Charge(ledger, UnmarkedInAll(r.arrivals))
    BY <1>1 DEF DeliverSubframe, Charge
  <2>2. Accounts(r.asm, CountedAll(diag, r.arrivals), Charge(ledger, UnmarkedInAll(r.arrivals)))
    BY TakeAccounts DEF IInv
  <2>3. QED
    BY <2>1, <2>2 DEF IInv
<1>2. ASSUME StartStream PROVE IInv'
  <2> DEFINE b == ResetTo(asm, 0)
             l == [abandoned |-> ledger.abandoned + 4 - Pending(asm),
                   unmarked  |-> ledger.unmarked,
                   lost      |-> ledger.lost + Missing(asm),
                   base      |-> ledger.base]
  <2>1. asm' = b /\ diag' = diag /\ ledger' = l
    BY <1>2 DEF StartStream, Pending, Missing
  <2>2. /\ b \in AssemblerType /\ b.stats = asm.stats
        /\ Pending(b) = 4 /\ Missing(b) = 0 /\ GapSize(b) = 0 /\ Contiguous(b)
        /\ Books(b) = Books(asm) + 4 - Pending(asm)
    BY <1>0, ResetFacts
  <2>3. Pending(asm) \in 0 .. 4 /\ Missing(asm) \in Nat /\ GapSize(asm) \in Nat
    BY CountType, GapType DEF Pending, Missing
  <2>4. l \in LedgerType
    BY <1>0, <2>3 DEF LedgerType
  <2>5. Agree(b, diag, l)
    BY <1>0, <2>2, <2>3 DEF IInv, Accounts, Agree, DiagType, LedgerType, AssemblerType, StatsType
  <2>6. Books(asm) \in Int
    BY <1>0, <2>3 DEF Books, AssemblerType, StatsType
  <2>7. Books(b) + l.unmarked = l.abandoned
    BY <1>0, <2>2, <2>3, <2>6 DEF IInv, Accounts, LedgerType
  <2>8. l.unmarked + GapSize(b) <= 3 * b.stats.incomplete_frames
    BY <1>0, <2>2, <2>3 DEF IInv, Accounts, LedgerType, AssemblerType, StatsType
  <2> HIDE DEF b, l
  <2>9. QED
    BY <1>0, <2>1, <2>2, <2>4, <2>5, <2>7, <2>8 DEF IInv, Accounts
<1>3. ASSUME ResetDevice PROVE IInv'
  <2> DEFINE b == ResetTo(asm, 0)
             l == [abandoned |-> ledger.abandoned + 4 - Pending(asm),
                   unmarked  |-> ledger.unmarked,
                   lost      |-> 0,
                   base      |-> asm.stats]
  <2>1. asm' = b /\ diag' = ZeroDiag /\ ledger' = l
    BY <1>3 DEF ResetDevice, Pending
  <2>2. /\ b \in AssemblerType /\ b.stats = asm.stats
        /\ Pending(b) = 4 /\ Missing(b) = 0 /\ GapSize(b) = 0 /\ Contiguous(b)
        /\ Books(b) = Books(asm) + 4 - Pending(asm)
    BY <1>0, ResetFacts
  <2>3. Pending(asm) \in 0 .. 4 /\ GapSize(asm) \in Nat
    BY CountType, GapType DEF Pending
  <2>4. l \in LedgerType /\ ZeroDiag \in DiagType
    BY <1>0, <2>3 DEF LedgerType, AssemblerType, ZeroDiag, DiagType
  <2>5. Agree(b, ZeroDiag, l)
    BY <1>0, <2>2 DEF Agree, ZeroDiag, AssemblerType, StatsType
  <2>6. Books(asm) \in Int
    BY <1>0, <2>3 DEF Books, AssemblerType, StatsType
  <2>7. Books(b) + l.unmarked = l.abandoned
    BY <1>0, <2>2, <2>3, <2>6 DEF IInv, Accounts, LedgerType
  <2>8. l.unmarked + GapSize(b) <= 3 * b.stats.incomplete_frames
    BY <1>0, <2>2, <2>3 DEF IInv, Accounts, LedgerType, AssemblerType, StatsType
  <2> HIDE DEF b, l
  <2>9. QED
    BY <2>1, <2>2, <2>4, <2>5, <2>7, <2>8 DEF IInv, Accounts
<1>4. CASE UNCHANGED vars
  BY <1>4 DEF vars, IInv
<1>5. QED
  BY <1>1, <1>2, <1>3, <1>4 DEF Next

\* Inductive invariance of the books.
THEOREM BooksInvariant == Spec => []IInv
  BY InitBooks, NextBooks, PTL DEF Spec

-----------------------------------------------------------------------------
(* What the invariant says of the properties of StreamSource. *)

\* TypeOK: every counter stays a natural number, also the count of missing
\* subframes that a late subframe decrements; `expected' stays in 1..4.
THEOREM TypeCorrect == Spec => []TypeOK
<1>1. IInv => TypeOK
  BY DEF IInv, Accounts, TypeOK
<1>2. QED
  BY <1>1, BooksInvariant, PTL

\* SlotsContiguous: take() leaves no hole between two subframes of a frame.
THEOREM ContiguousSlots == Spec => []SlotsContiguous
<1>1. IInv => SlotsContiguous
  BY DEF IInv, Accounts, Contiguous, SlotsContiguous
<1>2. QED
  BY <1>1, BooksInvariant, PTL

\* SlotsAccounted: every slot of every frame is counted exactly once by
\* take(), as a subframe or as missing, but for the two exceptions named.
THEOREM SlotConservation == Spec => []SlotsAccounted
<1>1. IInv => SlotsAccounted
  <2> SUFFICES ASSUME IInv PROVE SlotsAccounted
    OBVIOUS
  <2>1. Books(asm) + ledger.unmarked = ledger.abandoned /\ asm.stats \in StatsType /\ ledger \in LedgerType
    BY DEF IInv, Accounts, AssemblerType
  <2>2. Count(asm.states, "PENDING") \in Nat
    BY CountType
  <2>3. QED
    BY <2>1, <2>2 DEF Books, Pending, SlotsAccounted, StatsType, LedgerType
<1>2. QED
  BY <1>1, BooksInvariant, PTL

\* UnmarkedOnlyAfterRestart: a frame published with pending slots follows a
\* frame closed as incomplete by take().
THEOREM UnmarkedBounded == Spec => []UnmarkedOnlyAfterRestart
<1>1. IInv => UnmarkedOnlyAfterRestart
  BY DEF IInv, Accounts, UnmarkedOnlyAfterRestart
<1>2. QED
  BY <1>1, BooksInvariant, PTL

\* DiagnosticsAgree: what deliver_subframe adds to the diagnostics agrees
\* with what take() added to its own statistics.
THEOREM DiagnosticsCorrect == Spec => []DiagnosticsAgree
<1>1. IInv => DiagnosticsAgree
  BY DEF IInv, Accounts, Agree, Missing, DiagnosticsAgree
<1>2. QED
  BY <1>1, BooksInvariant, PTL
-----------------------------------------------------------------------------
(***************************************************************************)
(* Recording and replay, RecordReplay, for every payload set, every set of *)
(* frame ids, every kind of damage and every length of a session.          *)
(***************************************************************************)
R == INSTANCE RecordReplay

\* RecordReplay runs the assembler these lemmas speak of.
LEMMA SameAssembler ==
  /\ R!Slots = Slots
  /\ \A sfs, ids : R!Input(sfs, ids) = Input(sfs, ids)
  /\ \A n : R!NewAssembler(n) = NewAssembler(n)
  /\ \A a, n : R!ResetTo(a, n) = ResetTo(a, n)
  /\ \A a, in : R!Take(a, in) = Take(a, in)
<1>1. R!Slots = Slots
  BY DEF R!Slots, Slots
<1>2. \A sfs, ids : R!Input(sfs, ids) = Input(sfs, ids)
  BY DEF R!Input, Input
<1>3. /\ \A states, st : R!Count(states, st) = Count(states, st)
      /\ \A i, j, k, l, m, n : R!Stats(i, j, k, l, m, n) = Stats(i, j, k, l, m, n)
      /\ \A i, w, s, v, e, n : R!Assembler(i, w, s, v, e, n) = Assembler(i, w, s, v, e, n)
      /\ \A a, sf, st, done : R!Arrival(a, sf, st, done) = Arrival(a, sf, st, done)
  BY <1>1 DEF R!Count, Count, R!Stats, Stats, R!Assembler, Assembler, R!Arrival, Arrival
<1>4. /\ \A a, sf : R!IsLate(a, sf) = IsLate(a, sf) /\ R!Restarts(a, sf) = Restarts(a, sf)
      /\ \A a, id : R!IdCloses(a, id) = IdCloses(a, id)
      /\ \A a : R!FrameDone(a) = FrameDone(a)
      /\ \A in : R!ReceivedState(in) = ReceivedState(in)
  BY DEF R!IsLate, IsLate, R!Restarts, Restarts, R!IdCloses, IdCloses, R!FrameDone, FrameDone,
         R!ReceivedState, ReceivedState
<1>5. /\ R!AllPending = AllPending /\ R!ZeroStats = ZeroStats
      /\ \A i, w, n : R!FreshAssembler(i, w, n) = FreshAssembler(i, w, n)
  BY <1>1, <1>3 DEF R!AllPending, AllPending, R!ZeroStats, ZeroStats, R!FreshAssembler, FreshAssembler
<1>6. /\ \A n : R!NewAssembler(n) = NewAssembler(n)
      /\ \A a, n : R!ResetTo(a, n) = ResetTo(a, n)
      /\ \A a, n : R!WithIndex(a, n) = WithIndex(a, n)
  BY <1>1, <1>3, <1>5 DEF R!NewAssembler, NewAssembler, R!ResetTo, ResetTo, R!WithIndex, WithIndex
<1>7. \A a : R!Forfeited(a) = Forfeited(a)
  BY <1>1, <1>3 DEF R!Forfeited, Forfeited
<1>8. \A a : R!ClosedArrival(a) = ClosedArrival(a) /\ R!CloseIncomplete(a) = CloseIncomplete(a)
  BY <1>3, <1>5, <1>7 DEF R!ClosedArrival, ClosedArrival, R!CloseIncomplete, CloseIncomplete
<1>9. \A a, id : R!Identified(a, id) = Identified(a, id)
  BY <1>4, <1>6, <1>8 DEF R!Identified, Identified
<1>10. /\ \A a, sf : R!SkippedTo(a, sf) = SkippedTo(a, sf)
       /\ \A a : R!Recovered(a) = Recovered(a) /\ R!Completed(a) = Completed(a)
  BY <1>1, <1>3, <1>4, <1>5 DEF R!SkippedTo, SkippedTo, R!Recovered, Recovered, R!Completed, Completed
<1>11. \A a, in, st : R!Filled(a, in, st) = Filled(a, in, st)
  BY <1>3 DEF R!Filled, Filled
<1>12. \A a, in, st, c : R!StoreResult(a, in, st, c) = StoreResult(a, in, st, c)
  BY <1>3, <1>4, <1>10, <1>11 DEF R!StoreResult, StoreResult
<1>13. \A a, in : R!Take(a, in) = Take(a, in)
  BY <1>4, <1>8, <1>9, <1>10, <1>12 DEF R!Take, Take
<1>14. QED
  BY <1>1, <1>2, <1>6, <1>13

-----------------------------------------------------------------------------
(* take() as one store into an opened assembler. *)

\* The assembler that _store is called on, and the state it stores.
Opened(a, in) ==
  LET b == Identified(a, in.id)
  IN  IF IsLate(b, in.sf) THEN Recovered(b)
      ELSE IF Restarts(b, in.sf) THEN CloseIncomplete(b)
      ELSE SkippedTo(b, in.sf)

StateOf(a, in) ==
  IF IsLate(Identified(a, in.id), in.sf) /\ ReceivedState(in) = "RECEIVED"
  THEN "LATE" ELSE ReceivedState(in)

Final(a, in) == Filled(Opened(a, in), in, StateOf(a, in))

\* The arrival recorded is the last one take() produced.
LEMMA LastAppended ==
  ASSUME NEW S, NEW closed \in Seq(S), NEW arr
  PROVE  R!Stored(Append(closed, arr)) = arr
<1>1. closed \in Seq(S \cup {arr})
  BY SeqMonotonic
<1>2. QED
  BY <1>1, AppendProperties DEF R!Stored

\* Whatever was closed on the way, take() ends with the subframe it stored.
LEMMA TakeIsStore ==
  ASSUME NEW a, NEW in
  PROVE  /\ Take(a, in).asm = Completed(Final(a, in))
         /\ R!Stored(Take(a, in).arrivals)
              = Arrival(Final(a, in), in.sf, StateOf(a, in), FrameDone(Final(a, in)))
<1> DEFINE b      == Identified(a, in.id)
           closed == IF IdCloses(a, in.id) THEN <<ClosedArrival(a)>> ELSE <<>>
           state  == ReceivedState(in)
           S      == {ClosedArrival(a), ClosedArrival(b)}
<1>1. closed \in Seq(S)
  <2>1. <<>> \in Seq(S)
    BY EmptySeq
  <2>2. <<ClosedArrival(a)>> \in Seq(S)
    OBVIOUS
  <2>3. QED
    BY <2>1, <2>2
<1>2. Append(closed, ClosedArrival(b)) \in Seq(S)
  BY <1>1, AppendProperties
<1>3. ASSUME NEW o, NEW st, NEW c \in Seq(S)
      PROVE  /\ StoreResult(o, in, st, c).asm = Completed(Filled(o, in, st))
             /\ R!Stored(StoreResult(o, in, st, c).arrivals)
                  = Arrival(Filled(o, in, st), in.sf, st, FrameDone(Filled(o, in, st)))
  BY LastAppended DEF StoreResult
<1>4. CASE IsLate(b, in.sf)
  <2>1. Take(a, in) =
          StoreResult(Recovered(b), in, IF state = "RECEIVED" THEN "LATE" ELSE state, closed)
    BY <1>4 DEF Take
  <2>2. Opened(a, in) = Recovered(b)
        /\ StateOf(a, in) = IF state = "RECEIVED" THEN "LATE" ELSE state
    BY <1>4 DEF Opened, StateOf
  <2>3. QED
    BY <1>1, <1>3, <2>1, <2>2 DEF Final
<1>5. CASE ~IsLate(b, in.sf) /\ Restarts(b, in.sf)
  <2>1. Take(a, in) =
          StoreResult(CloseIncomplete(b), in, state, Append(closed, ClosedArrival(b)))
    BY <1>5 DEF Take
  <2>2. Opened(a, in) = CloseIncomplete(b) /\ StateOf(a, in) = state
    BY <1>5 DEF Opened, StateOf
  <2>3. QED
    BY <1>2, <1>3, <2>1, <2>2 DEF Final
<1>6. CASE ~IsLate(b, in.sf) /\ ~Restarts(b, in.sf)
  <2>1. Take(a, in) = StoreResult(SkippedTo(b, in.sf), in, state, closed)
    BY <1>6 DEF Take
  <2>2. Opened(a, in) = SkippedTo(b, in.sf) /\ StateOf(a, in) = state
    BY <1>6 DEF Opened, StateOf
  <2>3. QED
    BY <1>1, <1>3, <2>1, <2>2 DEF Final
<1>7. QED
  BY <1>4, <1>5, <1>6

-----------------------------------------------------------------------------
(* Two assemblers that agree. *)

\* What the argument needs of the type of an assembler.
Shape(a) ==
  /\ a.frame_index \in Nat
  /\ a.expected \in Slots
  /\ a.states \in [Slots -> SubframeStates]
  /\ DOMAIN a.words = Slots
  /\ \A s \in Slots : s >= a.expected => a.states[s] = "PENDING"

\* The replayed assembler b is where the live one a is, but may have given up
\* slots that a restart left pending in a, or that a received before the
\* recording began.
Linked(a, b) ==
  /\ a.frame_index = b.frame_index
  /\ a.expected = b.expected
  /\ \A s \in Slots : b.states[s] # a.states[s] => b.states[s] = "MISSING" /\ s < a.expected

\* A replay that has not begun, of a recording that began without a gap.
Unstarted(a, b) ==
  /\ b.expected = 1
  /\ b.states = AllPending
  /\ \A s \in Slots : a.states[s] # "MISSING"

\* The same for the opened assemblers, about to store slot sf.
Ready(o, p, sf) ==
  /\ o.frame_index = p.frame_index
  /\ o.frame_index \in Nat /\ o.expected \in Slots /\ p.expected \in Slots
  /\ o.expected = p.expected \/ (o.expected <= sf /\ p.expected <= sf)
  /\ o.states \in [Slots -> SubframeStates] /\ p.states \in [Slots -> SubframeStates]
  /\ DOMAIN o.words = Slots /\ DOMAIN p.words = Slots
  /\ \A s \in Slots : s >= o.expected /\ s > sf => o.states[s] = "PENDING"
  /\ \A s \in Slots : s >= p.expected /\ s > sf => p.states[s] = "PENDING"
  /\ \A s \in Slots \ {sf} : p.states[s] # o.states[s] =>
        p.states[s] = "MISSING" /\ (s < o.expected \/ s < sf)

\* What an input of the live source may be.
LEMMA InputType ==
  ASSUME NEW in \in Input(Slots, FrameIds)
  PROVE  /\ in.sf \in Slots
         /\ in.id = NoId \/ in.id \in Nat
         /\ ReceivedState(in) \in {"RECEIVED", "INVALID"}
  BY FrameIdsAssumption DEF Input, ReceivedState

\* The fields of an assembler after _store.
LEMMA FilledFacts ==
  ASSUME NEW o, NEW in, NEW st
  PROVE  /\ Filled(o, in, st).frame_index = o.frame_index
         /\ Filled(o, in, st).states = [o.states EXCEPT ![in.sf] = st]
         /\ Filled(o, in, st).words = [o.words EXCEPT ![in.sf] = in.payload]
         /\ Filled(o, in, st).expected = IF in.sf >= o.expected THEN in.sf + 1 ELSE o.expected
  BY DEF Filled, Assembler

\* The fields of an assembler once the frame it may have completed is begun
\* anew.
LEMMA CompletedFacts ==
  ASSUME NEW f
  PROVE  /\ Completed(f).words = f.words
         /\ FrameDone(f) => /\ Completed(f).frame_index = f.frame_index + 1
                            /\ Completed(f).states = AllPending
                            /\ Completed(f).expected = 1
         /\ ~FrameDone(f) => Completed(f) = f
  BY DEF Completed, FreshAssembler, Assembler

\* Storing the same slot, words and state in two assemblers that are ready
\* for it gives the same arrival and leaves them linked.
LEMMA StoreLinks ==
  ASSUME NEW o, NEW p, NEW in, NEW jn, NEW st \in SubframeStates,
         in.sf \in Slots, jn.sf = in.sf, jn.payload = in.payload,
         Ready(o, p, in.sf)
  PROVE  LET f == Filled(o, in, st)
             g == Filled(p, jn, st)
         IN  /\ SameSubframe(Arrival(f, in.sf, st, FrameDone(f)), Arrival(g, in.sf, st, FrameDone(g)))
             /\ Linked(Completed(f), Completed(g))
             /\ Shape(Completed(f)) /\ Shape(Completed(g))
<1> DEFINE f == Filled(o, in, st)
           g == Filled(p, jn, st)
           x == in.sf
<1>1. /\ f.frame_index = o.frame_index
      /\ f.states = [o.states EXCEPT ![x] = st]
      /\ f.words = [o.words EXCEPT ![x] = in.payload]
      /\ f.expected = IF x >= o.expected THEN x + 1 ELSE o.expected
  BY FilledFacts
<1>2. /\ g.frame_index = p.frame_index
      /\ g.states = [p.states EXCEPT ![x] = st]
      /\ g.words = [p.words EXCEPT ![x] = in.payload]
      /\ g.expected = IF x >= p.expected THEN x + 1 ELSE p.expected
  BY FilledFacts
<1> HIDE DEF f, g
<1>3. x \in Slots /\ Slots \subseteq 1 .. 4
  BY DEF Slots
<1>4. f.expected = g.expected /\ f.expected \in 1 .. 5
  BY <1>1, <1>2, <1>3 DEF Ready, Slots
<1>5. FrameDone(f) = FrameDone(g)
  BY <1>4 DEF FrameDone
<1>6. f.words[x] = in.payload /\ g.words[x] = in.payload
  BY <1>1, <1>2, <1>3 DEF Ready
<1>7. f.states \in [Slots -> SubframeStates] /\ g.states \in [Slots -> SubframeStates]
  BY <1>1, <1>2, <1>3 DEF Ready
<1>8. DOMAIN f.words = Slots /\ DOMAIN g.words = Slots
  BY <1>1, <1>2 DEF Ready
<1>9. f.frame_index = g.frame_index /\ f.frame_index \in Nat
  BY <1>1, <1>2 DEF Ready
<1>10. \A s \in Slots : g.states[s] # f.states[s] => g.states[s] = "MISSING" /\ s < f.expected
  <2> SUFFICES ASSUME NEW s \in Slots, g.states[s] # f.states[s]
               PROVE  g.states[s] = "MISSING" /\ s < f.expected
    OBVIOUS
  <2>1. s # x
    BY <1>1, <1>2 DEF Ready
  <2>2. f.states[s] = o.states[s] /\ g.states[s] = p.states[s]
    BY <2>1, <1>1, <1>2 DEF Ready
  <2>3. g.states[s] = "MISSING" /\ (s < o.expected \/ s < x)
    BY <2>1, <2>2 DEF Ready
  <2>4. QED
    BY <2>3, <1>1, <1>3 DEF Ready, Slots
<1>11. SameSubframe(Arrival(f, x, st, FrameDone(f)), Arrival(g, x, st, FrameDone(g)))
  BY <1>5, <1>6, <1>9 DEF SameSubframe, Arrival
<1>12. AllPending \in [Slots -> SubframeStates] /\ \A s \in Slots : AllPending[s] = "PENDING"
  BY DEF AllPending, SubframeStates
<1>15. ASSUME NEW s \in Slots
       PROVE  /\ s >= f.expected => f.states[s] = "PENDING"
              /\ s >= g.expected => g.states[s] = "PENDING"
  <2>1. s >= f.expected => s # x /\ s > x /\ s >= o.expected
    BY <1>1, <1>3 DEF Ready, Slots
  <2>2. s >= g.expected => s # x /\ s > x /\ s >= p.expected
    BY <1>2, <1>3 DEF Ready, Slots
  <2>3. s # x => f.states[s] = o.states[s] /\ g.states[s] = p.states[s]
    BY <1>1, <1>2 DEF Ready
  <2>4. QED
    BY <2>1, <2>2, <2>3 DEF Ready
<1>13. Linked(Completed(f), Completed(g)) /\ Shape(Completed(f)) /\ Shape(Completed(g))
  <2>1. CASE FrameDone(f)
    <3>1. /\ Completed(f).words = f.words /\ Completed(g).words = g.words
          /\ Completed(f).frame_index = f.frame_index + 1
          /\ Completed(g).frame_index = g.frame_index + 1
          /\ Completed(f).states = AllPending /\ Completed(g).states = AllPending
          /\ Completed(f).expected = 1 /\ Completed(g).expected = 1
      BY <2>1, <1>5, CompletedFacts
    <3>2. f.frame_index + 1 = g.frame_index + 1 /\ f.frame_index + 1 \in Nat /\ 1 \in Slots
      BY <1>9 DEF Slots
    <3>3. QED
      BY <3>1, <3>2, <1>8, <1>12 DEF Linked, Shape
  <2>2. CASE ~FrameDone(f)
    <3>1. Completed(f) = f /\ Completed(g) = g
      BY <2>2, <1>5, CompletedFacts
    <3>2. f.expected \in Slots /\ g.expected \in Slots
      BY <2>2, <1>4 DEF FrameDone, Slots
    <3>3. QED
      BY <3>1, <3>2, <1>4, <1>7, <1>8, <1>9, <1>10, <1>15 DEF Linked, Shape
  <2>3. QED
    BY <2>1, <2>2
<1>14. QED
  BY <1>11, <1>13 DEF f, g

-----------------------------------------------------------------------------
(* Opening: the four ways take() reaches _store. *)

\* A frame closed early leaves a fresh one.
LEMMA ClosingFacts ==
  ASSUME NEW a
  PROVE  /\ CloseIncomplete(a).frame_index = a.frame_index + 1
         /\ CloseIncomplete(a).states = AllPending
         /\ CloseIncomplete(a).expected = 1
         /\ CloseIncomplete(a).words = a.words
  BY DEF CloseIncomplete, FreshAssembler, Assembler

\* The slots jumped over are missing, the others as they were.
LEMMA SkipFacts ==
  ASSUME NEW a, Shape(a), NEW sf \in Slots
  PROVE  LET o == SkippedTo(a, sf)
         IN  /\ o.frame_index = a.frame_index
             /\ o.words = a.words
             /\ o.expected = a.expected
             /\ o.states \in [Slots -> SubframeStates]
             /\ \A s \in Slots : o.states[s] =
                  IF a.expected <= s /\ s < sf THEN "MISSING" ELSE a.states[s]
  BY DEF Shape, SkippedTo, Assembler, Slots, SubframeStates

\* A frame id that closes a frame leaves a fresh one with that id; any other
\* id is adopted at the start of a frame and changes nothing elsewhere.
LEMMA IdentifyFacts ==
  ASSUME NEW a, Shape(a), NEW id, id = NoId \/ id \in Nat
  PROVE  LET b == Identified(a, id)
         IN  /\ Shape(b)
             /\ b.words = a.words
             /\ IdCloses(a, id) => b.frame_index = id /\ b.expected = 1 /\ b.states = AllPending
             /\ ~IdCloses(a, id) => /\ b.expected = a.expected /\ b.states = a.states
                                    /\ id # NoId => b.frame_index = id
                                    /\ id = NoId => b.frame_index = a.frame_index
<1> DEFINE b == Identified(a, id)
<1>1. CASE IdCloses(a, id)
  <2>1. b = WithIndex(CloseIncomplete(a), id)
    BY <1>1 DEF Identified
  <2>2. /\ b.frame_index = id /\ b.expected = 1
        /\ b.states = AllPending /\ b.words = a.words
    BY <2>1, ClosingFacts DEF WithIndex, Assembler
  <2>3. id \in Nat
    BY <1>1 DEF IdCloses
  <2>4. /\ AllPending \in [Slots -> SubframeStates] /\ 1 \in Slots
        /\ \A s \in Slots : AllPending[s] = "PENDING"
    BY DEF AllPending, SubframeStates, Slots
  <2>5. Shape(b)
    BY <2>2, <2>3, <2>4 DEF Shape
  <2>6. QED
    BY <1>1, <2>2, <2>5
<1>2. CASE ~IdCloses(a, id) /\ id # NoId /\ a.expected = 1
  <2>1. b = WithIndex(a, id)
    BY <1>2 DEF Identified
  <2>2. /\ b.frame_index = id /\ b.expected = a.expected
        /\ b.states = a.states /\ b.words = a.words
    BY <2>1 DEF WithIndex, Assembler
  <2>3. Shape(b)
    BY <1>2, <2>2 DEF Shape
  <2>4. QED
    BY <1>2, <2>2, <2>3
<1>3. CASE ~IdCloses(a, id) /\ ~(id # NoId /\ a.expected = 1)
  <2>1. b = a
    BY <1>3 DEF Identified
  <2>2. id # NoId => a.frame_index = id
    BY <1>3 DEF IdCloses
  <2>3. QED
    BY <1>3, <2>1, <2>2
<1>4. QED
  BY <1>1, <1>2, <1>3

\* A late slot is given back without a trace in the frame itself.
LEMMA RecoveredFacts ==
  ASSUME NEW a
  PROVE  /\ Recovered(a).frame_index = a.frame_index
         /\ Recovered(a).states = a.states
         /\ Recovered(a).words = a.words
         /\ Recovered(a).expected = a.expected
  BY DEF Recovered, Assembler

\* An assembler at the start of a frame takes any subframe in its stride.
LEMMA FreshOpens ==
  ASSUME NEW b, NEW jn, jn.sf \in Slots,
         Shape(Identified(b, jn.id)),
         Identified(b, jn.id).expected = 1,
         Identified(b, jn.id).states = AllPending
  PROVE  LET p == Opened(b, jn)
         IN  /\ ~IsLate(Identified(b, jn.id), jn.sf)
             /\ p.frame_index = Identified(b, jn.id).frame_index
             /\ p.expected = 1
             /\ DOMAIN p.words = Slots
             /\ p.states \in [Slots -> SubframeStates]
             /\ \A s \in Slots : p.states[s] = IF s < jn.sf THEN "MISSING" ELSE "PENDING"
<1> DEFINE d == Identified(b, jn.id)
<1>1. ~(jn.sf < d.expected)
  BY DEF Slots
<1>2. ~IsLate(d, jn.sf) /\ Opened(b, jn) = SkippedTo(d, jn.sf)
  BY <1>1 DEF Opened, IsLate, Restarts
<1>3. \A s \in Slots : AllPending[s] = "PENDING"
  BY DEF AllPending
<1> HIDE DEF d
<1>4. Shape(d) /\ d.expected = 1 /\ d.states = AllPending
  BY DEF d
<1>5. LET p == SkippedTo(d, jn.sf)
      IN  /\ p.frame_index = d.frame_index
          /\ p.words = d.words
          /\ p.expected = d.expected
          /\ p.states \in [Slots -> SubframeStates]
          /\ \A s \in Slots : p.states[s] =
               IF d.expected <= s /\ s < jn.sf THEN "MISSING" ELSE d.states[s]
  BY <1>4, SkipFacts
<1>6. \A s \in Slots : 1 <= s
  BY DEF Slots
<1>7. DOMAIN d.words = Slots
  BY <1>4 DEF Shape
<1>8. QED
  BY <1>2, <1>3, <1>4, <1>5, <1>6, <1>7 DEF d

\* A frame id closes one linked assembler exactly when it closes the other,
\* and an assembler at the start of a frame is never closed.
LEMMA IdClosesFacts ==
  ASSUME NEW a, Shape(a), NEW id, id = NoId \/ id \in Nat
  PROVE  /\ IdCloses(a, id) => id \in Nat /\ id # a.frame_index /\ a.expected # 1
         /\ ~IdCloses(a, id) /\ a.expected # 1 => id = NoId \/ id = a.frame_index
         /\ NoId \notin Nat
  BY MarkersAssumption DEF IdCloses

\* The replay of a subframe opens its assembler like the live one did, given
\* the frame number under which the live one stored it.
LEMMA OpenLinks ==
  ASSUME NEW a, NEW b, Shape(a), Shape(b), Linked(a, b) \/ Unstarted(a, b),
         NEW in, in.sf \in Slots, in.id = NoId \/ in.id \in Nat,
         NEW jn, jn.sf = in.sf, jn.id = Opened(a, in).frame_index
  PROVE  /\ Ready(Opened(a, in), Opened(b, jn), in.sf)
         /\ IsLate(Identified(b, jn.id), jn.sf) <=> IsLate(Identified(a, in.id), in.sf)
<1> DEFINE x == in.sf
           c == Identified(a, in.id)
           d == Identified(b, jn.id)
           o == Opened(a, in)
           p == Opened(b, jn)
<1>1. /\ Shape(c) /\ c.words = a.words
      /\ IdCloses(a, in.id) => c.frame_index = in.id /\ c.expected = 1 /\ c.states = AllPending
      /\ ~IdCloses(a, in.id) => /\ c.expected = a.expected /\ c.states = a.states
                                /\ in.id # NoId => c.frame_index = in.id
                                /\ in.id = NoId => c.frame_index = a.frame_index
  BY IdentifyFacts
<1>2. x \in Slots /\ jn.sf = x /\ Slots = 1 .. 4 /\ Slots \subseteq Int
  BY DEF Slots
<1>3. /\ IsLate(c, x) => o = Recovered(c)
      /\ Restarts(c, x) => o = CloseIncomplete(c) /\ x < c.expected /\ ~IsLate(c, x)
      /\ ~IsLate(c, x) /\ ~Restarts(c, x) => o = SkippedTo(c, x) /\ x >= c.expected
  BY <1>1, <1>2 DEF Opened, IsLate, Restarts, Shape
<1>4. \A s \in Slots : AllPending[s] = "PENDING"
  BY DEF AllPending
<1>5. AllPending \in [Slots -> SubframeStates]
  BY DEF AllPending, SubframeStates
<1>6. ~IsLate(c, x) =>
        /\ o.frame_index \in Nat /\ o.expected \in Slots /\ o.expected <= x
        /\ DOMAIN o.words = Slots
        /\ o.states \in [Slots -> SubframeStates]
        /\ \A s \in Slots : s > x => o.states[s] = "PENDING"
  <2>1. CASE Restarts(c, x)
    <3>1. /\ o.frame_index = c.frame_index + 1 /\ o.expected = 1
          /\ o.states = AllPending /\ o.words = c.words
      BY <2>1, <1>3, ClosingFacts
    <3>2. QED
      BY <3>1, <1>1, <1>2, <1>4, <1>5 DEF Shape
  <2>2. CASE ~IsLate(c, x) /\ ~Restarts(c, x)
    <3>1. /\ o.frame_index = c.frame_index
          /\ o.words = c.words
          /\ o.expected = c.expected
          /\ o.states \in [Slots -> SubframeStates]
          /\ \A s \in Slots : o.states[s] =
               IF c.expected <= s /\ s < x THEN "MISSING" ELSE c.states[s]
      BY <2>2, <1>1, <1>2, <1>3, SkipFacts
    <3>2. x >= c.expected /\ c.expected \in Slots
      BY <2>2, <1>1, <1>3 DEF Shape
    <3>3. \A s \in Slots : s > x => ~(s < x) /\ s >= c.expected
      BY <3>2, <1>2
    <3>4. QED
      BY <3>1, <3>2, <3>3, <1>1 DEF Shape
  <2>3. QED
    BY <2>1, <2>2
<1>7. IsLate(c, x) => o.frame_index = c.frame_index
  BY <1>3, RecoveredFacts
<1>8. jn.id \in Nat /\ jn.id # NoId /\ jn.id = o.frame_index
  BY <1>1, <1>6, <1>7, MarkersAssumption DEF Shape
<1>9. /\ Shape(d) /\ d.words = b.words
      /\ d.frame_index = o.frame_index
      /\ IdCloses(b, jn.id) => d.expected = 1 /\ d.states = AllPending
      /\ ~IdCloses(b, jn.id) => d.expected = b.expected /\ d.states = b.states
  BY <1>8, IdentifyFacts
<1> HIDE DEF c, d, o, p
\* The replay is at the start of a frame while the live slot is not late.
<1>10. ASSUME ~IsLate(c, x), d.expected = 1, d.states = AllPending
       PROVE  Ready(o, p, x) /\ ~IsLate(d, x)
  <2>1. /\ ~IsLate(d, x)
        /\ p.frame_index = d.frame_index
        /\ p.expected = 1
        /\ DOMAIN p.words = Slots
        /\ p.states \in [Slots -> SubframeStates]
        /\ \A s \in Slots : p.states[s] = IF s < x THEN "MISSING" ELSE "PENDING"
    BY <1>2, <1>9, <1>10, FreshOpens DEF d, p
  <2>2. ASSUME NEW s \in Slots \ {x}, p.states[s] # o.states[s]
        PROVE  p.states[s] = "MISSING" /\ s < x
    BY <2>1, <2>2, <1>2, <1>6, <1>10
  <2>3. 1 \in Slots /\ 1 <= x /\ \A s \in Slots : s > x => ~(s < x)
    BY <1>2
  <2>4. QED
    BY <2>1, <2>2, <2>3, <1>2, <1>6, <1>9, <1>10 DEF Ready
<1>11. CASE Unstarted(a, b)
  <2>1. ~IsLate(c, x)
    BY <1>1, <1>2, <1>4, <1>11 DEF Unstarted, IsLate
  <2>2. d.expected = 1 /\ d.states = AllPending
    BY <1>9, <1>11 DEF Unstarted
  <2>3. QED
    BY <2>1, <2>2, <1>2, <1>10 DEF c, d, o, p
<1>12. CASE Linked(a, b) /\ IdCloses(a, in.id)
  <2>1. c.frame_index = in.id /\ c.expected = 1 /\ c.states = AllPending
    BY <1>1, <1>12
  <2>2. ~IsLate(c, x) /\ ~Restarts(c, x)
    BY <2>1, <1>2 DEF IsLate, Restarts
  <2>3. o.frame_index = in.id
    BY <2>1, <2>2, <1>1, <1>2, <1>3, SkipFacts
  <2>4. IdCloses(b, jn.id)
    BY <2>3, <1>8, <1>12, IdClosesFacts DEF Linked, IdCloses
  <2>5. QED
    BY <2>2, <2>4, <1>2, <1>9, <1>10 DEF c, d, o, p
<1>13. CASE Linked(a, b) /\ ~IdCloses(a, in.id) /\ Restarts(c, x)
  <2>1. a.expected # 1 /\ c.expected = a.expected
    BY <1>1, <1>2, <1>3, <1>13
  <2>2. c.frame_index = a.frame_index
    BY <2>1, <1>1, <1>13, IdClosesFacts
  <2>3. o.frame_index = a.frame_index + 1
    BY <2>2, <1>3, <1>13, ClosingFacts
  <2>4. IdCloses(b, jn.id)
    BY <2>1, <2>3, <1>8, <1>13 DEF Linked, IdCloses, Shape
  <2>5. QED
    BY <2>4, <1>2, <1>3, <1>9, <1>10, <1>13 DEF c, d, o, p
<1>14. CASE Linked(a, b) /\ ~IdCloses(a, in.id) /\ ~Restarts(c, x)
  <2>1. o.frame_index = c.frame_index
    BY <1>1, <1>2, <1>3, <1>7, <1>14, SkipFacts
  <2>2. a.expected # 1 => c.frame_index = b.frame_index
    BY <1>1, <1>14, IdClosesFacts DEF Linked
  <2>3. ~IdCloses(b, jn.id)
    BY <2>1, <2>2, <1>8, <1>14 DEF Linked, IdCloses
  <2>4. /\ d.expected = b.expected /\ d.states = b.states
        /\ c.expected = a.expected /\ c.states = a.states
    BY <2>3, <1>1, <1>9, <1>14
  <2>5. /\ c.expected = d.expected /\ c.expected \in Slots
        /\ \A s \in Slots : d.states[s] # c.states[s] =>
              d.states[s] = "MISSING" /\ s < c.expected
    BY <2>4, <1>1, <1>14 DEF Linked, Shape
  <2>6. CASE IsLate(c, x)
    <3>1. IsLate(d, x)
      BY <2>5, <2>6, <1>2 DEF IsLate
    <3>2. p = Recovered(d)
      BY <3>1, <1>2 DEF Opened, d, p
    <3>3. /\ o.frame_index = c.frame_index /\ o.states = c.states
          /\ o.words = c.words /\ o.expected = c.expected
      BY <2>6, <1>3, RecoveredFacts
    <3>4. /\ p.frame_index = d.frame_index /\ p.states = d.states
          /\ p.words = d.words /\ p.expected = d.expected
      BY <3>2, RecoveredFacts
    <3>5. Ready(o, p, x)
      BY <3>3, <3>4, <2>5, <1>1, <1>9 DEF Ready, Shape
    <3>6. QED
      BY <3>1, <3>5, <2>6, <1>2 DEF c, d, o, p
  <2>7. CASE ~IsLate(c, x)
    <3>1. x >= d.expected /\ x >= c.expected /\ o = SkippedTo(c, x)
      BY <2>5, <2>7, <1>3, <1>14
    <3>2. ~(x < d.expected)
      BY <3>1, <2>5, <1>2
    <3>3. ~IsLate(d, x) /\ p = SkippedTo(d, x)
      BY <3>2, <1>2 DEF Opened, IsLate, Restarts, d, p
    <3>4. /\ o.frame_index = c.frame_index /\ o.words = c.words /\ o.expected = c.expected
          /\ o.states \in [Slots -> SubframeStates]
          /\ \A s \in Slots : o.states[s] =
               IF c.expected <= s /\ s < x THEN "MISSING" ELSE c.states[s]
      BY <3>1, <1>1, <1>2, SkipFacts
    <3>5. /\ p.frame_index = d.frame_index /\ p.words = d.words /\ p.expected = d.expected
          /\ p.states \in [Slots -> SubframeStates]
          /\ \A s \in Slots : p.states[s] =
               IF d.expected <= s /\ s < x THEN "MISSING" ELSE d.states[s]
      BY <3>3, <1>9, <1>2, SkipFacts
    <3>6. ASSUME NEW s \in Slots
          PROVE  /\ s >= o.expected /\ s > x => o.states[s] = "PENDING"
                 /\ s >= p.expected /\ s > x => p.states[s] = "PENDING"
                 /\ p.states[s] # o.states[s] => p.states[s] = "MISSING" /\ s < o.expected
      <4>1. s > x => ~(s < x)
        BY <1>2
      <4>2. /\ s >= c.expected => c.states[s] = "PENDING"
            /\ s >= d.expected => d.states[s] = "PENDING"
        BY <1>1, <1>9 DEF Shape
      <4>3. QED
        BY <4>1, <4>2, <3>4, <3>5, <2>5
    <3>7. Ready(o, p, x)
      BY <3>4, <3>5, <3>6, <2>1, <2>5, <1>1, <1>9 DEF Ready, Shape
    <3>8. QED
      BY <3>3, <3>7, <2>7, <1>2 DEF c, d, o, p
  <2>8. QED
    BY <2>6, <2>7
<1>15. QED
  BY <1>11, <1>12, <1>13, <1>14

-----------------------------------------------------------------------------
(* A subframe recorded is the subframe replayed. *)

\* The record of a subframe has what take() needs to store it again.
LEMMA ReplayedFacts ==
  ASSUME NEW f, NEW x, NEW st, NEW done
  PROVE  LET jn == R!Replayed(Arrival(f, x, st, done))
         IN  /\ jn.sf = x
             /\ jn.payload = f.words[x]
             /\ jn.id = f.frame_index
             /\ ReceivedState(jn) = IF st = "INVALID" THEN "INVALID" ELSE "RECEIVED"
  BY DEF R!Replayed, Arrival, ReceivedState

\* One subframe, taken live and taken again from its record, gives the same
\* arrival and leaves the assemblers linked.
LEMMA StepLinks ==
  ASSUME NEW a, NEW b, Shape(a), Shape(b), Linked(a, b) \/ Unstarted(a, b),
         NEW in \in Input(Slots, FrameIds)
  PROVE  LET r == Take(a, in)
             q == Take(b, R!Replayed(R!Stored(r.arrivals)))
         IN  /\ SameSubframe(R!Stored(r.arrivals), R!Stored(q.arrivals))
             /\ Linked(r.asm, q.asm)
             /\ Shape(r.asm) /\ Shape(q.asm)
<1> DEFINE r  == Take(a, in)
           st == StateOf(a, in)
           f  == Final(a, in)
           jn == R!Replayed(R!Stored(r.arrivals))
           q  == Take(b, jn)
           o  == Opened(a, in)
           p  == Opened(b, jn)
<1>1. /\ in.sf \in Slots
      /\ in.id = NoId \/ in.id \in Nat
      /\ ReceivedState(in) \in {"RECEIVED", "INVALID"}
  BY InputType
<1>2. r.asm = Completed(f) /\ R!Stored(r.arrivals) = Arrival(f, in.sf, st, FrameDone(f))
  BY TakeIsStore
<1>3. /\ jn.sf = in.sf
      /\ jn.payload = f.words[in.sf]
      /\ jn.id = f.frame_index
      /\ ReceivedState(jn) = IF st = "INVALID" THEN "INVALID" ELSE "RECEIVED"
  BY <1>2, ReplayedFacts
<1>4. f.frame_index = o.frame_index /\ f.words = [o.words EXCEPT ![in.sf] = in.payload]
  <2>1. f = Filled(o, in, st)
    BY DEF Final
  <2> HIDE DEF f, o, st
  <2>2. QED
    BY <2>1 DEF Filled, Assembler
<1> HIDE DEF jn
<1>5. /\ Ready(o, p, in.sf)
      /\ IsLate(Identified(b, jn.id), jn.sf) <=> IsLate(Identified(a, in.id), in.sf)
  <2>1. jn.id = Opened(a, in).frame_index
    BY <1>3, <1>4
  <2>2. \A y : y.sf = in.sf /\ y.id = Opened(a, in).frame_index =>
          /\ Ready(Opened(a, in), Opened(b, y), in.sf)
          /\ IsLate(Identified(b, y.id), y.sf) <=> IsLate(Identified(a, in.id), in.sf)
    BY <1>1, OpenLinks
  <2>3. QED
    BY <1>3, <2>1, <2>2
<1>6. jn.payload = in.payload
  BY <1>1, <1>3, <1>4, <1>5 DEF Ready
<1>7. st \in SubframeStates /\ StateOf(b, jn) = st
  <2>1. CASE IsLate(Identified(a, in.id), in.sf)
    BY <2>1, <1>1, <1>3, <1>5 DEF StateOf, SubframeStates
  <2>2. CASE ~IsLate(Identified(a, in.id), in.sf)
    BY <2>2, <1>1, <1>3, <1>5 DEF StateOf, SubframeStates
  <2>3. QED
    BY <2>1, <2>2
<1>8. Final(b, jn) = Filled(p, jn, st) /\ f = Filled(o, in, st)
  BY <1>7 DEF Final
<1>9. /\ q.asm = Completed(Final(b, jn))
      /\ R!Stored(q.arrivals) = Arrival(Final(b, jn), in.sf, st, FrameDone(Final(b, jn)))
  BY <1>3, <1>7, TakeIsStore
<1> HIDE DEF r, q, f, o, p, st
<1>10. LET g == Filled(p, jn, st)
           h == Filled(o, in, st)
       IN  /\ SameSubframe(Arrival(h, in.sf, st, FrameDone(h)), Arrival(g, in.sf, st, FrameDone(g)))
           /\ Linked(Completed(h), Completed(g))
           /\ Shape(Completed(h)) /\ Shape(Completed(g))
  BY <1>1, <1>3, <1>5, <1>6, <1>7, StoreLinks
<1>11. /\ SameSubframe(R!Stored(r.arrivals), R!Stored(q.arrivals))
       /\ Linked(r.asm, q.asm)
       /\ Shape(r.asm) /\ Shape(q.asm)
  BY <1>2, <1>8, <1>9, <1>10
<1>12. QED
  BY <1>11 DEF r, q, jn

\* An assembler that has just been made or reset.
LEMMA FreshShape ==
  ASSUME NEW i \in Nat, NEW w, DOMAIN w = Slots, NEW st
  PROVE  /\ Shape(FreshAssembler(i, w, st))
         /\ FreshAssembler(i, w, st).expected = 1
         /\ FreshAssembler(i, w, st).states = AllPending
  BY DEF FreshAssembler, Assembler, Shape, AllPending, SubframeStates, Slots

\* The assembler a source or a replay starts with.
LEMMA NewShape ==
  /\ Shape(NewAssembler(0))
  /\ NewAssembler(0).expected = 1
  /\ NewAssembler(0).states = AllPending
  BY FreshShape DEF NewAssembler

-----------------------------------------------------------------------------
(* The inductive invariant *)

Tracked == recording /\ ~restarted /\ ~gapAtStart

ReplayInv ==
  /\ Shape(live)
  /\ Tracked =>
       /\ Shape(replay)
       /\ IF recorded = <<>> THEN Unstarted(live, replay) ELSE Linked(live, replay)
  /\ recording \/ recorded = <<>>
  /\ ReplayRepeats

\* Nothing is recorded when the program starts.
LEMMA InitReplay == R!Init => ReplayInv
<1> SUFFICES ASSUME R!Init PROVE ReplayInv
  OBVIOUS
<1>1. Shape(live) /\ ~Tracked /\ recorded = <<>>
  BY NewShape, SameAssembler DEF R!Init, Tracked
<1>2. QED
  BY <1>1 DEF ReplayInv, ReplayRepeats, RepeatsLast

\* Every step keeps the replay in step with the recording.
LEMMA NextReplay == ReplayInv /\ [R!Next]_R!vars => ReplayInv'
<1> SUFFICES ASSUME ReplayInv, [R!Next]_R!vars PROVE ReplayInv'
  OBVIOUS
<1>1. CASE R!StartRecording
  <2>1. Shape(live)'
    BY <1>1 DEF R!StartRecording, ReplayInv
  <2>2. Shape(replay)' /\ recorded' = <<>>
    BY <1>1, NewShape, SameAssembler DEF R!StartRecording
  <2>3. ~gapAtStart' => Unstarted(live, replay)'
    BY <1>1, NewShape, SameAssembler DEF R!StartRecording, Unstarted
  <2>4. QED
    BY <2>1, <2>2, <2>3 DEF ReplayInv, Tracked, ReplayRepeats, RepeatsLast
<1>2. CASE R!StopRecording
  <2>1. Shape(live)' /\ ~recording' /\ recorded' = <<>>
    BY <1>2 DEF R!StopRecording, ReplayInv
  <2>2. QED
    BY <2>1 DEF ReplayInv, Tracked, ReplayRepeats, RepeatsLast
<1>3. ASSUME NEW in \in Input(Slots, FrameIds), R!DeliverSubframe(in) PROVE ReplayInv'
  <2> DEFINE r == Take(live, in)
             q == Take(replay, R!Replayed(R!Stored(r.arrivals)))
  <2>1. Shape(r.asm)
    <3>1. Shape(live) /\ Linked(live, live)
      BY DEF ReplayInv, Linked
    <3>2. QED
      BY <3>1, StepLinks
  <2>2. live' = r.asm /\ UNCHANGED <<recording, restarted, gapAtStart>>
    BY <1>3, SameAssembler DEF R!DeliverSubframe
  <2>3. CASE ~recording
    <3>1. UNCHANGED <<replay, recorded, replayed>>
      BY <1>3, <2>3, SameAssembler DEF R!DeliverSubframe
    <3>2. QED
      BY <2>1, <2>2, <2>3, <3>1 DEF ReplayInv, Tracked, ReplayRepeats, RepeatsLast
  <2>4. CASE recording
    <3>1. /\ replay' = q.asm
          /\ recorded' = <<R!Stored(r.arrivals)>>
          /\ replayed' = <<R!Stored(q.arrivals)>>
      BY <1>3, <2>4, SameAssembler DEF R!DeliverSubframe
    <3>2. recorded' # <<>>
      BY <3>1
    <3>3. CASE ~Tracked
      <4>1. ~Tracked' /\ recording' /\ (restarted' \/ gapAtStart')
        BY <2>2, <2>4, <3>3 DEF Tracked
      <4>2. QED
        BY <2>1, <2>2, <4>1 DEF ReplayInv, ReplayRepeats
    <3>4. CASE Tracked
      <4>1. Shape(live) /\ Shape(replay) /\ (Linked(live, replay) \/ Unstarted(live, replay))
        BY <3>4 DEF ReplayInv
      <4>2. /\ SameSubframe(R!Stored(r.arrivals), R!Stored(q.arrivals))
            /\ Linked(r.asm, q.asm)
            /\ Shape(r.asm) /\ Shape(q.asm)
        BY <4>1, StepLinks
      <4>3. RepeatsLast'
        BY <3>1, <4>2 DEF RepeatsLast, SameSubframe
      <4>4. Linked(live, replay)' /\ Shape(live)' /\ Shape(replay)'
        BY <2>2, <3>1, <4>2
      <4>5. QED
        BY <2>2, <2>4, <3>2, <4>3, <4>4 DEF ReplayInv, Tracked, ReplayRepeats
    <3>5. QED
      BY <3>3, <3>4
  <2>5. QED
    BY <2>3, <2>4
<1>4. CASE R!StartStream
  <2>1. Shape(live)'
    BY <1>4, FreshShape, SameAssembler DEF R!StartStream, ResetTo, ReplayInv, Shape
  <2>2. recording => restarted'
    BY <1>4 DEF R!StartStream
  <2>3. ~Tracked' /\ UNCHANGED <<recording, recorded, replayed>>
    BY <1>4, <2>2 DEF R!StartStream, Tracked
  <2>4. ReplayRepeats'
    BY <2>2, <2>3 DEF ReplayInv, ReplayRepeats, RepeatsLast
  <2>5. QED
    BY <2>1, <2>3, <2>4 DEF ReplayInv
<1>5. CASE UNCHANGED R!vars
  BY <1>5 DEF R!vars, ReplayInv, Shape, Tracked, Unstarted, Linked, ReplayRepeats,
              RepeatsLast, SameSubframe
<1>6. QED
  BY <1>1, <1>2, <1>3, <1>4, <1>5, SameAssembler DEF R!Next

-----------------------------------------------------------------------------
(* Theorems *)

\* The replay is linked to the recording in every reachable state.
THEOREM ReplayInStep == R!Spec => []ReplayInv
  BY InitReplay, NextReplay, PTL DEF R!Spec

\* Every subframe recorded is replayed in its frame and slot with its words,
\* its state and its place at the end of the frame (stream_base.py 4-6), for
\* every session of an uninterrupted stream begun without a gap.
THEOREM ReplayFaithful == R!Spec => []ReplayRepeats
<1>1. ReplayInv => ReplayRepeats
  BY DEF ReplayInv
<1>2. QED
  BY <1>1, ReplayInStep, PTL

\* A slot the replay shows differently from the live frame is one it shows as
\* missing: the replay invents no data (replay_source.py 72-80).
THEOREM ReplayKnowsLess == R!Spec => []ReplayInventsNothing
<1>1. ReplayInv => ReplayInventsNothing
  BY DEF ReplayInv, Tracked, ReplayInventsNothing, Linked
<1>2. QED
  BY <1>1, ReplayInStep, PTL
=============================================================================
