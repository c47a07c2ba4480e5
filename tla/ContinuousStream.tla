-------------------------- MODULE ContinuousStream --------------------------
(***************************************************************************)
(* The continuous (STREAM) mode end to end: the scheduler of the device    *)
(* (sources/serial/virtual_device.py) with its word and subframe faults,   *)
(* the wire, and the reader thread of serial_source.py, which runs the     *)
(* synchronizer and the assembler on whatever a read returned.             *)
(*                                                                         *)
(* Words on the wire remember where they come from: the frame, slot and    *)
(* position they were generated for and whether they were corrupted.  No   *)
(* definition of the program looks at that; the properties do.             *)
(***************************************************************************)
EXTENDS Synchronizer

CONSTANTS
  Blank, NoId,     \* markers of the assembler
  MaxSubframes,    \* bound on the subframes the device sends
  MaxFaults,       \* bound on the faults injected
  MaxRestarts,     \* bound on the stops followed by a start
  MaxWire          \* bound on the words in flight

ASSUME BoundsAssumption ==
  {MaxSubframes, MaxFaults, MaxRestarts, MaxWire} \subseteq Nat

Slot == 0 .. 3
Word == [sync : 0 .. 4, frame : Nat, slot : Slot, at : Nat, genuine : BOOLEAN]

A == INSTANCE SubframeAssembler WITH Payload <- Seq(Word), Damage <- {}

VARIABLES
  device,      \* position and order of the scheduler
  faults,      \* faults left to inject
  restarts,    \* stops left
  wire,        \* words sent and not yet read
  sync,        \* the synchronizer
  asm,         \* the assembler
  syncState,   \* sync_state of the diagnostics
  arrivals,    \* history: what was delivered, if the last step was a read
  hurt,        \* history: the subframes a fault touched, <<frame, slot>>
  calm,        \* history: words due since the last disturbance
  spaced       \* history: every fault so far struck a link that had recovered

vars ==
  <<device, faults, restarts, wire, sync, asm, syncState, arrivals, hurt, calm, spaced>>

\* Words after which the link has recovered: `calm' counts no further.
RelockBound == 3 * WPS

InOrder == <<0, 1, 2, 3>>
Swapped == <<0, 2, 1, 3>>

Init ==
  /\ device = [frame |-> 0, subframe_index |-> 0, word_index |-> 0,
               order |-> InOrder, dropping |-> FALSE]
  /\ faults = MaxFaults
  /\ restarts = MaxRestarts
  /\ wire = <<>>
  /\ sync = NewSynchronizer
  /\ asm = A!NewAssembler(0)
  /\ syncState = Searching
  /\ arrivals = <<>>
  /\ hurt = {}
  /\ calm = 0
  /\ spaced = TRUE

-----------------------------------------------------------------------------
(* The device *)

\* _begin_subframe happens with the first word of a subframe: the faults of
\* a subframe and of a frame are taken there.
Begun(d, drop, swap) ==
  IF d.word_index # 0 THEN d
  ELSE [d EXCEPT !.dropping = drop, !.order = IF swap THEN Swapped ELSE @]

\* _end_subframe, and the word counter before it.
Advanced(d) ==
  IF d.word_index + 1 < WPS THEN [d EXCEPT !.word_index = @ + 1]
  ELSE IF d.subframe_index < 3
  THEN [d EXCEPT !.word_index = 0, !.subframe_index = @ + 1]
  ELSE [d EXCEPT !.word_index = 0, !.subframe_index = 0,
                 !.frame = @ + 1, !.order = InOrder]

SlotOf(d) == d.order[d.subframe_index + 1]

\* Word 1 of a subframe is its sync word; data never looks like one unless
\* it is corrupted.
Due(d) ==
  [sync |-> IF d.word_index = 0 THEN SlotOf(d) + 1 ELSE 0,
   frame |-> d.frame, slot |-> SlotOf(d), at |-> d.word_index, genuine |-> TRUE]

\* CORRUPT_WORD: another value, which may look like anything.
Corruptions(w) ==
  {[w EXCEPT !.sync = s, !.genuine = FALSE] : s \in (0 .. 4) \ ({w.sync} \ {0})}

\* _emit_next_word.  swap and drop are OUT_OF_ORDER_SUBFRAME and
\* DROP_SUBFRAME, taken at their points; lose is DROP_WORD; bad is
\* CORRUPT_WORD.
EmitNextWord(drop, swap, lose, bad) ==
  LET d      == Begun(device, drop, swap)
      number == Cardinality({i \in 1 .. 4 : <<drop, swap, lose, bad>>[i]})
      slot   == <<d.frame, SlotOf(d)>>
  IN  /\ 4 * device.frame + device.subframe_index < MaxSubframes
      /\ Len(wire) < MaxWire
      /\ number <= faults
      /\ drop => device.word_index = 0
      /\ swap => device.word_index = 0 /\ device.subframe_index = 0
      /\ faults' = faults - number
      /\ device' = Advanced(d)
      /\ \E w \in IF bad THEN Corruptions(Due(d)) ELSE {Due(d)} :
           wire' = IF lose \/ d.dropping THEN wire ELSE Append(wire, w)
      /\ hurt' = IF lose \/ bad THEN hurt \cup {slot} ELSE hurt
      /\ calm' = IF number > 0 \/ d.dropping \/ d.order # InOrder THEN 0
                 ELSE IF calm < RelockBound THEN calm + 1 ELSE calm
      /\ spaced' = (spaced /\ (number > 0 => number = 1 /\ calm = RelockBound))
      /\ arrivals' = <<>>
      /\ UNCHANGED <<restarts, sync, asm, syncState>>

-----------------------------------------------------------------------------
(* The reader *)

\* deliver_subframe for every subframe of one feed(), oldest first.
Input(raw) ==
  [sf |-> raw.sf, payload |-> raw.words, damage |-> {}, valid |-> raw.valid, id |-> NoId]

DeliverAll(a, raws) ==
  LET upTo[n \in 0 .. Len(raws)] ==
        IF n = 0 THEN [asm |-> a, arrivals |-> <<>>]
        ELSE LET r == A!Take(upTo[n - 1].asm, Input(raws[n]))
             IN  [asm |-> r.asm, arrivals |-> upTo[n - 1].arrivals \o r.arrivals]
  IN  upTo[Len(raws)]

\* Slip: a loss is counted but not shown.
ShownWithoutLoss(r) == IF r.locked THEN Locked ELSE syncState

\* The state shown is set by the lock first and by the loss last, whatever
\* their order in the read.
Shown(r) == IF r.lost THEN Searching ELSE IF r.locked THEN Locked ELSE syncState

\* process_bytes, process_words: one read of n words.
ProcessWords(n) ==
  LET r == Feed(sync, SubSeq(wire, 1, n))
      d == DeliverAll(asm, r.subframes)
  IN  /\ wire' = From(wire, n + 1)
      /\ sync' = r.sync
      /\ asm' = d.asm
      /\ arrivals' = d.arrivals
      /\ syncState' = Shown(r)
      /\ UNCHANGED <<device, faults, restarts, hurt, calm, spaced>>

\* stop_stream, then start_stream: the device keeps its place in the frame,
\* the first n words in flight are read as text and ignored (all of them when
\* requests are answered before START), the parser, the synchronizer and the
\* assembler start again.
Restart(n) ==
  /\ restarts > 0
  /\ restarts' = restarts - 1
  /\ wire' = From(wire, n + 1)
  /\ sync' = NewSynchronizer
  /\ asm' = A!ResetTo(asm, 0)
  /\ syncState' = Searching
  /\ arrivals' = <<>>
  /\ calm' = 0
  /\ UNCHANGED <<device, faults, hurt, spaced>>

Next ==
  \/ \E drop, swap, lose, bad \in BOOLEAN : EmitNextWord(drop, swap, lose, bad)
  \/ \E n \in 1 .. Len(wire) : ProcessWords(n)
  \/ \E n \in 0 .. Len(wire) : Restart(n)

Spec == Init /\ [][Next]_vars
-----------------------------------------------------------------------------
(* Properties *)

Sent(words, frame, slot) ==
  \A i \in DOMAIN words :
    /\ words[i].frame = frame /\ words[i].slot = slot
    /\ words[i].at = i - 1 /\ words[i].genuine

Good(arr) == arr.subframe # 0 /\ arr.state \in {"RECEIVED", "LATE"}

Touched(words) == \E j \in DOMAIN words : <<words[j].frame, words[j].slot>> \in hurt

\* A fault harms no more than it touches: a subframe accepted as valid is
\* exactly one subframe the device sent, in its own slot and from its first
\* word to its last, unless it holds a word of a subframe in which a word was
\* dropped or corrupted.  In particular a search never locks on anything
\* but the true phase once the damage has passed.
DamageConfined ==
  \A i \in DOMAIN arrivals :
    Good(arrivals[i]) =>
      LET words == arrivals[i].words[arrivals[i].subframe]
      IN  \/ Sent(words, words[1].frame, arrivals[i].subframe - 1)
          \/ Touched(words)

\* As long as every fault strikes a link that has recovered from the one
\* before (and from its start), all subframes published as received in one
\* frame, on time or late, begin in one frame of the device: a loss of sync
\* never glues two frames together.  Faults that come closer can: a subframe
\* dropped in one frame and two swapped in the next leave the last subframe of
\* the second to complete the first.
FramesNotMixed ==
  \A i \in DOMAIN arrivals :
    LET arr == arrivals[i]
        held(s) == arr.subframe_states[s] \in {"RECEIVED", "LATE"}
    IN  spaced /\ arr.frame_completed =>
          \A s, t \in A!Slots : held(s) /\ held(t) => arr.words[s][1].frame = arr.words[t][1].frame

\* Re-lock is prompt: once the device has sent three subframes since the last
\* disturbance and the reader has read them, the synchronizer is locked, what
\* it expects next is what the device sends next, and the words it holds are
\* the beginning of that subframe.
Relocked ==
  (wire = <<>> /\ calm >= RelockBound) =>
    /\ sync.state = Locked
    /\ Len(sync.buffer) = device.word_index
    /\ sync.expected = device.subframe_index + 1

\* LOCKED is never shown of a synchronizer that is searching, whatever locks
\* and losses one read brings.  The converse fails: a loss and a new lock in
\* one read are shown as SEARCHING until the next loss (serial_source.py:146,
\* 152).
ShownLockIsReal == syncState = Locked => sync.state = Locked
=============================================================================
