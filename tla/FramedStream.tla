---------------------------- MODULE FramedStream ----------------------------
(***************************************************************************)
(* The framed packet mode end to end: the device writes one packet per     *)
(* subframe (sources/serial/virtual_device.py, sim_a717_protocol.py), the  *)
(* reader parses it (stream_parser.py), judges it and delivers it with its *)
(* frame id (serial_source.py, stream_base.py).                            *)
(*                                                                         *)
(* The words of a packet are the subframe they were sent for.  What faults *)
(* do to a packet is its `fate': a corrupted data word passes unnoticed; a *)
(* wrong sync word, a missing word or another rate makes it invalid; a bad *)
(* checksum makes the parser skip it.                                      *)
(***************************************************************************)
EXTENDS Integers, Sequences, FiniteSets

CONSTANTS
  Blank, NoId,     \* markers of the assembler
  MaxFrames,       \* bound on the frames the device sends
  MaxFaults,       \* bound on the faults injected
  MaxRestarts,     \* bound on the stops followed by a start
  MaxWire          \* bound on the packets in flight

ASSUME BoundsAssumption ==
  {MaxFrames, MaxFaults, MaxRestarts, MaxWire} \subseteq Nat
ASSUME IdAssumption == NoId \notin Nat

Slot == 0 .. 3
Subframe == [frame : Nat, slot : Slot]

S == INSTANCE StreamBase WITH Payload <- Subframe, Damage <- {}

Fates == {"fine", "altered", "invalid", "badCrc"}

VARIABLES
  device,      \* the scheduler: frame id, place in the frame, order of the slots
  faults,      \* faults left to inject
  restarts,    \* stops left
  wire,        \* packets sent and not yet read
  asm,         \* the assembler
  diag,        \* the diagnostics
  arrivals,    \* history: what the last step delivered
  lost,        \* history: subframes that did not make it into their frame
  published    \* history: the frames published so far

vars == <<device, faults, restarts, wire, asm, diag, arrivals, lost, published>>

InOrder == <<0, 1, 2, 3>>
Swapped == <<0, 2, 1, 3>>

Init ==
  /\ device = [frame_id |-> 0, subframe_index |-> 0, order |-> InOrder]
  /\ faults = MaxFaults
  /\ restarts = MaxRestarts
  /\ wire = <<>>
  /\ asm = S!NewAssembler(0)
  /\ diag = S!ZeroDiag
  /\ arrivals = <<>>
  /\ lost = {}
  /\ published = {}

-----------------------------------------------------------------------------
(* The device *)

\* The end of _end_subframe.
Advanced(d) ==
  IF d.subframe_index < 3 THEN [d EXCEPT !.subframe_index = @ + 1]
  ELSE [frame_id |-> d.frame_id + 1, subframe_index |-> 0, order |-> InOrder]

\* One subframe from _begin_subframe to _end_subframe.  swap and drop are
\* OUT_OF_ORDER_SUBFRAME and DROP_SUBFRAME; BAD_CRC, CORRUPT_WORD, DROP_WORD
\* and WRONG_WPS give the packet its fate.
EmitSubframe(swap, drop, fate) ==
  LET d      == [device EXCEPT !.order = IF swap THEN Swapped ELSE @]
      sent   == [frame |-> d.frame_id, slot |-> d.order[d.subframe_index + 1]]
      number == Cardinality({i \in 1 .. 3 : <<swap, drop, fate # "fine">>[i]})
  IN  /\ device.frame_id < MaxFrames
      /\ Len(wire) < MaxWire
      /\ number <= faults
      /\ swap => device.subframe_index = 0
      /\ faults' = faults - number
      /\ device' = Advanced(d)
      /\ wire' = IF drop THEN wire ELSE Append(wire, [words |-> sent, fate |-> fate])
      /\ lost' = IF drop \/ fate = "badCrc" THEN lost \cup {sent} ELSE lost
      /\ arrivals' = <<>>
      /\ UNCHANGED <<restarts, asm, diag, published>>

-----------------------------------------------------------------------------
(* The reader *)

Judged(packet) ==
  [sf |-> packet.words.slot + 1, payload |-> packet.words, damage |-> {},
   valid |-> packet.fate # "invalid", id |-> packet.words.frame]

Completed(arrs) ==
  {arrs[i].frame_index : i \in {j \in DOMAIN arrs : arrs[j].frame_completed}}

\* process_bytes and _process_packet, one packet at a time.
ProcessPacket ==
  /\ wire # <<>>
  /\ wire' = Tail(wire)
  /\ IF Head(wire).fate = "badCrc"
     THEN /\ arrivals' = <<>>
          /\ UNCHANGED <<asm, diag, published>>
     ELSE LET r == S!Take(asm, Judged(Head(wire)))
          IN  /\ asm' = r.asm
              /\ arrivals' = r.arrivals
              /\ diag' = S!CountedAll(diag, r.arrivals)
              /\ published' = published \cup Completed(r.arrivals)
  /\ UNCHANGED <<device, faults, restarts, lost>>

\* The slots of the frame under way that hold a subframe.
Held(a) ==
  {[frame |-> a.frame_index, slot |-> s - 1] :
      s \in {t \in S!Slots : a.states[t] \notin {"PENDING", "MISSING"}}}

\* stop_stream, then start_stream: the device keeps its place, the first n
\* packets in flight are read as text and ignored (all of them when requests
\* are answered before START), the frame under way is given up.
Restart(n) ==
  /\ restarts > 0
  /\ restarts' = restarts - 1
  /\ wire' = SubSeq(wire, n + 1, Len(wire))
  /\ asm' = S!ResetTo(asm, 0)
  /\ arrivals' = <<>>
  /\ lost' = lost \cup Held(asm) \cup {wire[i].words : i \in 1 .. n}
  /\ UNCHANGED <<device, faults, diag, published>>

Next ==
  \/ \E swap, drop \in BOOLEAN, fate \in Fates : EmitSubframe(swap, drop, fate)
  \/ ProcessPacket
  \/ \E n \in 0 .. Len(wire) : Restart(n)

Spec == Init /\ [][Next]_vars

-----------------------------------------------------------------------------
(* Properties *)

\* A frame of the PC is a frame of the device: what an arrival says it
\* received was sent in the frame and slot it is shown in, whatever was lost,
\* reordered or restarted in between.
FrameIdentity ==
  \A i \in DOMAIN arrivals : \A s \in S!Slots :
    arrivals[i].subframe_states[s] \notin {"PENDING", "MISSING"} =>
      arrivals[i].words[s] = [frame |-> arrivals[i].frame_index, slot |-> s - 1]

DroppedCounted ==
  diag.dropped_subframes = Cardinality({l \in lost : l.frame \in published})

\* No false alarm: a slot published as missing was lost on the way, and one
\* published as received was not.  In particular a subframe out of order is
\* not left missing.  The count of dropped subframes is exactly the losses of
\* the frames published: none is counted twice or, after a late arrival, in
\* vain (Diagnostics.dropped_subframes, count_arrival).
MissingIsLost ==
  /\ DroppedCounted
  /\ \A i \in DOMAIN arrivals : \A s \in S!Slots :
       arrivals[i].frame_completed =>
         (arrivals[i].subframe_states[s] \in {"MISSING", "PENDING"}
            <=> [frame |-> arrivals[i].frame_index, slot |-> s - 1] \in lost)
=============================================================================
