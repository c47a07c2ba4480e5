----------------------------- MODULE StreamBase -----------------------------
(***************************************************************************)
(* What every streaming source shares (sources/stream_base.py): the        *)
(* counting loop that follows each call of the assembler.  Like the        *)
(* assembler it holds no variable; the diagnostics are a record of the     *)
(* frame counters of sources/serial/diagnostics.py.                        *)
(***************************************************************************)
EXTENDS SubframeAssembler

ZeroDiag ==
  [subframes_received |-> 0, invalid_subframes |-> 0, out_of_order |-> 0,
   frames_received |-> 0, dropped_subframes |-> 0]

\* Slip: missing slots are counted with every arrival of the frame.
CountedEagerly(d, arr) ==
  [subframes_received |-> d.subframes_received + (IF arr.subframe # 0 THEN 1 ELSE 0),
   invalid_subframes  |-> d.invalid_subframes + (IF arr.state = "INVALID" THEN 1 ELSE 0),
   out_of_order       |-> d.out_of_order + (IF arr.state = "LATE" THEN 1 ELSE 0),
   frames_received    |-> d.frames_received + (IF arr.frame_completed THEN 1 ELSE 0),
   dropped_subframes  |-> d.dropped_subframes + Count(arr.subframe_states, "MISSING")]

\* One pass of the loop in deliver_subframe.
Counted(d, arr) ==
  [subframes_received |-> d.subframes_received + (IF arr.subframe # 0 THEN 1 ELSE 0),
   invalid_subframes  |-> d.invalid_subframes + (IF arr.state = "INVALID" THEN 1 ELSE 0),
   out_of_order       |-> d.out_of_order + (IF arr.state = "LATE" THEN 1 ELSE 0),
   frames_received    |-> d.frames_received + (IF arr.frame_completed THEN 1 ELSE 0),
   dropped_subframes  |-> d.dropped_subframes +
       (IF arr.frame_completed THEN Count(arr.subframe_states, "MISSING") ELSE 0)]

\* take() returns one arrival, or two when it closes a frame first.
CountedAll(d, arrivals) ==
  IF Len(arrivals) = 2 THEN Counted(Counted(d, arrivals[1]), arrivals[2])
  ELSE Counted(d, arrivals[1])
=============================================================================
