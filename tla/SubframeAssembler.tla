------------------------- MODULE SubframeAssembler -------------------------
(***************************************************************************)
(* The subframe assembler of sources/serial/subframe_assembler.py: the     *)
(* progressive construction of one ARINC 717 frame out of subframes that   *)
(* may be missing, late, damaged or restarted.  The module holds no        *)
(* variable: an assembler is a record, every method is an operator from    *)
(* assembler to assembler, so that the serial, continuous, framed and      *)
(* replay specifications share one definition.                             *)
(*                                                                         *)
(* The words of one subframe are one opaque Payload.  What take() learns   *)
(* by looking at them is kept: whether the length was wrong (words are     *)
(* then padded or cut) and whether a word was outside 12 bits (it is then  *)
(* masked and the subframe listed in `invalid').                           *)
(***************************************************************************)
EXTENDS Integers, Sequences

CONSTANTS
  Payload,     \* what the words of a subframe may be
  Blank,       \* a slot that has never held data (None in the code)
  NoId,        \* frame_id=None: the stream carries no frame ids
  Damage       \* what take() may find wrong with the words themselves

ASSUME MarkersAssumption == Blank \notin Payload /\ NoId \notin Nat
ASSUME DamageAssumption == Damage \subseteq {"length", "range"}

Slots == 1 .. 4

SubframeStates == {"PENDING", "RECEIVED", "INVALID", "MISSING", "LATE"}

\* Number of slots in a given state.
Count(states, st) ==
  LET One(s) == IF states[s] = st THEN 1 ELSE 0
  IN  One(1) + One(2) + One(3) + One(4)

Stats(sub, frames, missing, invalid, late, incomplete) ==
  [subframes |-> sub, frames |-> frames, missing_subframes |-> missing,
   invalid_subframes |-> invalid, out_of_order |-> late,
   incomplete_frames |-> incomplete]

ZeroStats == Stats(0, 0, 0, 0, 0, 0)

-----------------------------------------------------------------------------
(* State *)

Assembler(index, words, states, invalid, expected, stats) ==
  [frame_index |-> index, words |-> words, states |-> states,
   invalid |-> invalid, expected |-> expected, stats |-> stats]

AllPending == [s \in Slots |-> "PENDING"]

\* _new_frame keeps the last known words: an assembler starts blank, and no
\* caller in the program ever asks for blank words again.
FreshAssembler(index, words, stats) ==
  Assembler(index, words, AllPending, {}, 1, stats)

NewAssembler(first) ==
  FreshAssembler(first, [s \in Slots |-> Blank], ZeroStats)

\* reset(frame_index): a fresh frame; counters and last known words stay.
ResetTo(a, index) == FreshAssembler(index, a.words, a.stats)

WithIndex(a, index) ==
  Assembler(index, a.words, a.states, a.invalid, a.expected, a.stats)

\* What an arrival carries: the identity of the subframe and a snapshot of
\* the partial frame.  Subframe 0 closes a frame.
Arrival(a, sf, state, completed) ==
  [frame_index     |-> a.frame_index,
   subframe        |-> sf,
   state           |-> state,
   words           |-> a.words,
   subframe_states |-> a.states,
   invalid_words   |-> a.invalid,
   frame_completed |-> completed]

-----------------------------------------------------------------------------
(* The pieces of take() *)

\* _close_incomplete: pending slots become missing, the frame is published.
Forfeited(a) ==
  Assembler(a.frame_index, a.words,
            [s \in Slots |-> IF a.states[s] = "PENDING" THEN "MISSING" ELSE a.states[s]],
            a.invalid, a.expected,
            Stats(a.stats.subframes, a.stats.frames + 1,
                  a.stats.missing_subframes + Count(a.states, "PENDING"),
                  a.stats.invalid_subframes, a.stats.out_of_order,
                  a.stats.incomplete_frames + 1))

ClosedArrival(a) == Arrival(Forfeited(a), 0, "MISSING", TRUE)

CloseIncomplete(a) ==
  FreshAssembler(a.frame_index + 1, a.words, Forfeited(a).stats)

\* Slips: frame ids never close a frame; a frame that holds nothing yet is
\* closed as well.
IdClosesNever(a, id) == FALSE

IdClosesAnyway(a, id) == id # NoId /\ id # a.frame_index

\* A frame id other than the current one opens a new frame ...
IdCloses(a, id) == id # NoId /\ id # a.frame_index /\ a.expected # 1

\* ... and an assembler at the start of a frame adopts the id it is given.
Identified(a, id) ==
  IF IdCloses(a, id) THEN WithIndex(CloseIncomplete(a), id)
  ELSE IF id # NoId /\ a.expected = 1 THEN WithIndex(a, id)
  ELSE a

\* A slot already given up on may still be filled.
IsLate(a, sf) == sf < a.expected /\ a.states[sf] = "MISSING"

\* Any other subframe below the expected one starts a new frame.  The slots
\* it jumps over in that new frame are not marked: they stay pending.
Restarts(a, sf) == sf < a.expected /\ a.states[sf] # "MISSING"

\* Slips: the first slot jumped over is forgotten; none is marked.
SkippedPastFirst(a, sf) ==
  IF sf > a.expected
  THEN [a EXCEPT !.states = [s \in Slots |-> IF a.expected < s /\ s < sf
                                             THEN "MISSING" ELSE a.states[s]]]
  ELSE a

SkippedUnmarked(a, sf) == a

\* The slots a subframe jumps over are missing.
SkippedTo(a, sf) ==
  IF sf > a.expected
  THEN Assembler(a.frame_index, a.words,
                 [s \in Slots |-> IF a.expected <= s /\ s < sf THEN "MISSING" ELSE a.states[s]],
                 a.invalid, a.expected,
                 Stats(a.stats.subframes, a.stats.frames,
                       a.stats.missing_subframes + (sf - a.expected),
                       a.stats.invalid_subframes, a.stats.out_of_order,
                       a.stats.incomplete_frames))
  ELSE a

\* Slip: a late slot stays counted as missing.
RecoveredStillMissing(a) ==
  [a EXCEPT !.stats.out_of_order = a.stats.out_of_order + 1]

\* A late slot is no longer missing; its state is set when it is stored.
Recovered(a) ==
  Assembler(a.frame_index, a.words, a.states, a.invalid, a.expected,
            Stats(a.stats.subframes, a.stats.frames, a.stats.missing_subframes - 1,
                  a.stats.invalid_subframes, a.stats.out_of_order + 1,
                  a.stats.incomplete_frames))

\* The state of the words as received.
ReceivedState(in) == IF in.valid /\ in.damage = {} THEN "RECEIVED" ELSE "INVALID"

\* _store up to the snapshot it publishes ...
Filled(a, in, state) ==
  Assembler(a.frame_index,
            [a.words EXCEPT ![in.sf] = in.payload],
            [a.states EXCEPT ![in.sf] = state],
            IF "range" \in in.damage THEN a.invalid \cup {in.sf} ELSE a.invalid,
            IF in.sf >= a.expected THEN in.sf + 1 ELSE a.expected,
            Stats(a.stats.subframes + 1, a.stats.frames, a.stats.missing_subframes,
                  a.stats.invalid_subframes + (IF state = "INVALID" THEN 1 ELSE 0),
                  a.stats.out_of_order, a.stats.incomplete_frames))

\* Slip: off by one at the end of a frame.
FrameDoneLate(a) == a.expected > 5

FrameDone(a) == a.expected > 4

\* ... and the frame it completes.
Completed(a) ==
  IF FrameDone(a)
  THEN FreshAssembler(a.frame_index + 1, a.words,
                      Stats(a.stats.subframes, a.stats.frames + 1,
                            a.stats.missing_subframes, a.stats.invalid_subframes,
                            a.stats.out_of_order, a.stats.incomplete_frames))
  ELSE a

StoreResult(a, in, state, closed) ==
  LET full == Filled(a, in, state)
  IN  [asm      |-> Completed(full),
       arrivals |-> Append(closed, Arrival(full, in.sf, state, FrameDone(full)))]

-----------------------------------------------------------------------------
(* take(): the assembler after one subframe and the arrivals it produced,  *)
(* oldest first.  An input is the subframe number, its payload, what is    *)
(* wrong with the words, the validity flag of the synchronizer or packet   *)
(* check, and the frame id or NoId.                                        *)

Input(sfs, ids) ==
  [sf : sfs, payload : Payload, damage : SUBSET Damage, valid : BOOLEAN, id : ids]

Take(a, in) ==
  LET b      == Identified(a, in.id)
      closed == IF IdCloses(a, in.id) THEN <<ClosedArrival(a)>> ELSE <<>>
      state  == ReceivedState(in)
  IN  IF IsLate(b, in.sf)
      THEN StoreResult(Recovered(b), in, IF state = "RECEIVED" THEN "LATE" ELSE state, closed)
      ELSE IF Restarts(b, in.sf)
      THEN StoreResult(CloseIncomplete(b), in, state, Append(closed, ClosedArrival(b)))
      ELSE StoreResult(SkippedTo(b, in.sf), in, state, closed)
=============================================================================
