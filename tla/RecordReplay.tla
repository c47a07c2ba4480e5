---------------------------- MODULE RecordReplay ----------------------------
(***************************************************************************)
(* Recording a live stream and replaying the session: the recorder         *)
(* (recording/recorder.py, recording/session.py) keeps one record per      *)
(* subframe arrival, and the replay source (sources/replay_source.py)      *)
(* feeds the records to an assembler of its own.                           *)
(*                                                                         *)
(* The replay is run in lockstep with the recording: after every record    *)
(* written, `replay' is the assembler a replay of the session so far ends  *)
(* with.  A session cut short by a crash is such a prefix, since the       *)
(* reader stops at the first line it cannot parse.                         *)
(***************************************************************************)
EXTENDS ReplayPromises

CONSTANTS
  FrameIds,      \* what callers pass as frame id; NoId in continuous mode
  MaxSubframes   \* bound on the number of subframes delivered

ASSUME FrameIdsAssumption == FrameIds \subseteq Nat \cup {NoId}
ASSUME MaxSubframesAssumption == MaxSubframes \in Nat

vars == <<live, recording, replay, recorded, replayed, restarted, gapAtStart>>

Init ==
  /\ live = NewAssembler(0)
  /\ recording = FALSE
  /\ replay = NewAssembler(0)
  /\ recorded = <<>>
  /\ replayed = <<>>
  /\ restarted = FALSE
  /\ gapAtStart = FALSE

\* Slip: every recorded subframe is replayed as valid.
ReplayedAsValid(arr) ==
  [sf |-> arr.subframe, payload |-> arr.words[arr.subframe], damage |-> {},
   valid |-> TRUE, id |-> arr.frame_index]

\* Slip: the frame number of the record is not used.
ReplayedUnnumbered(arr) ==
  [sf |-> arr.subframe, payload |-> arr.words[arr.subframe], damage |-> {},
   valid |-> arr.state # "INVALID", id |-> NoId]

\* on_arrival and _replay_record: what the session says of a subframe.  The
\* words were padded and masked before they were recorded.
Replayed(arr) ==
  [sf |-> arr.subframe, payload |-> arr.words[arr.subframe], damage |-> {},
   valid |-> arr.state # "INVALID", id |-> arr.frame_index]

\* take() ends with the arrival of the subframe it was given; the arrival of
\* a frame closed before it has subframe 0 and is not recorded.
Stored(arrivals) == arrivals[Len(arrivals)]

StartRecording ==
  /\ ~recording
  /\ recording' = TRUE
  /\ replay' = NewAssembler(0)
  /\ recorded' = <<>>
  /\ replayed' = <<>>
  /\ restarted' = FALSE
  /\ gapAtStart' = (\E s \in Slots : live.states[s] = "MISSING")
  /\ UNCHANGED live

\* The session is complete; nothing more is compared with it.
StopRecording ==
  /\ recording
  /\ recording' = FALSE
  /\ replay' = NewAssembler(0)
  /\ recorded' = <<>>
  /\ replayed' = <<>>
  /\ restarted' = FALSE
  /\ gapAtStart' = FALSE
  /\ UNCHANGED live

DeliverSubframe(in) ==
  LET r == Take(live, in)
      p == Take(replay, Replayed(Stored(r.arrivals)))
  IN  /\ live.stats.subframes < MaxSubframes
      /\ live' = r.asm
      /\ IF recording
         THEN /\ replay' = p.asm
              /\ recorded' = <<Stored(r.arrivals)>>
              /\ replayed' = <<Stored(p.arrivals)>>
         ELSE UNCHANGED <<replay, recorded, replayed>>
      /\ UNCHANGED <<recording, restarted, gapAtStart>>

\* The stream is stopped and started again; a recording goes on, and nothing
\* of this is written to the session.
StartStream ==
  /\ live' = ResetTo(live, 0)
  /\ restarted' = (restarted \/ recording)
  /\ UNCHANGED <<recording, replay, recorded, replayed, gapAtStart>>

Next ==
  \/ StartRecording
  \/ StopRecording
  \/ \E in \in Input(Slots, FrameIds) : DeliverSubframe(in)
  \/ StartStream

Spec == Init /\ [][Next]_vars
=============================================================================
