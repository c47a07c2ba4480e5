---------------------------- MODULE StreamSource ----------------------------
(***************************************************************************)
(* A streaming source (sources/stream_base.py) fed with arbitrary          *)
(* subframes: every call of deliver_subframe pushes one subframe through   *)
(* the assembler and counts the arrivals in the diagnostics.  Serial and   *)
(* replay sources both deliver through it.  Nothing is assumed here about  *)
(* the order, the validity or the frame ids of what is delivered: those    *)
(* are the business of the modules that put a sender in front of it.       *)
(***************************************************************************)
EXTENDS StreamBase

CONSTANTS
  FrameIds,      \* what callers pass as frame id; NoId in continuous mode
  MaxSubframes   \* bound on the number of subframes delivered

ASSUME FrameIdsAssumption == FrameIds \subseteq Nat \cup {NoId}
ASSUME MaxSubframesAssumption == MaxSubframes \in Nat

VARIABLES
  asm,      \* the source's SubframeAssembler
  diag,     \* the frame counters of its StreamDiagnostics
  ledger    \* history: slots that left the books without being counted

vars == <<asm, diag, ledger>>

-----------------------------------------------------------------------------

\* Slots that a frame published by an arrival still had pending.
UnmarkedIn(arr) ==
  IF arr.frame_completed THEN Count(arr.subframe_states, "PENDING") ELSE 0

UnmarkedInAll(arrivals) ==
  IF Len(arrivals) = 2 THEN UnmarkedIn(arrivals[1]) + UnmarkedIn(arrivals[2])
  ELSE UnmarkedIn(arrivals[1])

-----------------------------------------------------------------------------

Init ==
  /\ asm = NewAssembler(0)
  /\ diag = ZeroDiag
  /\ ledger = [abandoned |-> 0, unmarked |-> 0, lost |-> 0, base |-> ZeroStats]

DeliverSubframe(in) ==
  LET r == Take(asm, in)
  IN  /\ asm.stats.subframes < MaxSubframes
      /\ asm' = r.asm
      /\ diag' = CountedAll(diag, r.arrivals)
      /\ ledger' = [ledger EXCEPT !.unmarked = @ + UnmarkedInAll(r.arrivals)]

\* SerialService.start_stream: the frame in progress is given up, the
\* counters of the assembler and of the diagnostics go on.
StartStream ==
  /\ asm' = ResetTo(asm, 0)
  /\ ledger' = [abandoned |-> ledger.abandoned + 4 - Count(asm.states, "PENDING"),
                unmarked  |-> ledger.unmarked,
                lost      |-> ledger.lost + Count(asm.states, "MISSING"),
                base      |-> ledger.base]
  /\ UNCHANGED diag

\* SerialService.reset_device: the diagnostics start again as well.
ResetDevice ==
  /\ asm' = ResetTo(asm, 0)
  /\ diag' = ZeroDiag
  /\ ledger' = [abandoned |-> ledger.abandoned + 4 - Count(asm.states, "PENDING"),
                unmarked  |-> ledger.unmarked,
                lost      |-> 0,
                base      |-> asm.stats]

Next ==
  \/ \E in \in Input(Slots, FrameIds) : DeliverSubframe(in)
  \/ StartStream
  \/ ResetDevice

Spec == Init /\ [][Next]_vars

-----------------------------------------------------------------------------
(* Properties *)

StatsType ==
  [subframes : Nat, frames : Nat, missing_subframes : Nat,
   invalid_subframes : Nat, out_of_order : Nat, incomplete_frames : Nat]

AssemblerType ==
  [frame_index : Nat,
   words       : [Slots -> Payload \cup {Blank}],
   states      : [Slots -> SubframeStates],
   invalid     : SUBSET Slots,
   expected    : Slots,
   stats       : StatsType]

DiagType ==
  [subframes_received : Nat, invalid_subframes : Nat, out_of_order : Nat,
   frames_received : Nat, dropped_subframes : Nat]

LedgerType == [abandoned : Nat, unmarked : Nat, lost : Nat, base : StatsType]

\* Every component of the source keeps its type; in particular the counter of
\* missing subframes, which take() decrements for a late subframe, never goes
\* below zero, and `expected' is back in 1..4 when take() returns.
TypeOK ==
  /\ asm \in AssemblerType
  /\ diag \in DiagType
  /\ ledger \in LedgerType

\* Pending slots that a later subframe of the same frame went past.
GapSize(a) ==
  LET One(s) == IF s < a.expected /\ a.states[s] = "PENDING" THEN 1 ELSE 0
  IN  One(1) + One(2) + One(3) + One(4)

\* The frame under construction is a run of pending slots (left by a restart
\* in mid-frame), then slots that are received or given up, then the pending
\* slots from `expected' on: no hole is ever left between two subframes.
SlotsContiguous ==
  /\ \A s \in Slots : s >= asm.expected => asm.states[s] = "PENDING"
  /\ \A s, t \in Slots : s < t /\ t < asm.expected /\ asm.states[s] # "PENDING"
                           => asm.states[t] # "PENDING"
  /\ asm.expected > 1 => asm.states[asm.expected - 1] # "PENDING"

\* Conservation of slots: every slot of every frame ever published or under
\* way was counted exactly once, as a subframe or as a missing one, except
\* the pending ones a restart left unmarked and those of frames given up by a
\* stream start.  It fails if a late subframe, a closed frame or a skipped
\* slot is counted twice or not at all.
SlotsAccounted ==
  asm.stats.subframes + asm.stats.missing_subframes + ledger.unmarked
    = 4 * asm.stats.frames + (4 - Count(asm.states, "PENDING")) + ledger.abandoned

\* A frame can only be published with unmarked slots after a restart, and
\* a restart closes a frame as incomplete: at most three slots for each.
UnmarkedOnlyAfterRestart ==
  ledger.unmarked + GapSize(asm) <= 3 * asm.stats.incomplete_frames

\* The diagnostics count arrivals, the assembler counts slots: since the last
\* device reset both agree on subframes, frames, invalid subframes, and on
\* missing slots once those of the frame under way are added.
DiagnosticsAgree ==
  /\ diag.subframes_received = asm.stats.subframes - ledger.base.subframes
  /\ diag.frames_received = asm.stats.frames - ledger.base.frames
  /\ diag.invalid_subframes = asm.stats.invalid_subframes - ledger.base.invalid_subframes
  /\ diag.out_of_order <= asm.stats.out_of_order - ledger.base.out_of_order
  /\ diag.dropped_subframes + Count(asm.states, "MISSING") + ledger.lost
       = asm.stats.missing_subframes - ledger.base.missing_subframes
=============================================================================
