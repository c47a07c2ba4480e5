--------------------------- MODULE ReplayPromises ---------------------------
(***************************************************************************)
(* What the replay of a session promises, in terms of the assembler of the *)
(* live stream and the one a replay of the session so far ends with.       *)
(* RecordReplay runs the two.                                              *)
(***************************************************************************)
EXTENDS SubframeAssembler

VARIABLES
  live,        \* the assembler of the live source
  recording,   \* is a recording under way
  replay,      \* the assembler of a replay of the session so far
  recorded,    \* the live arrival last recorded, <<>> before the first
  replayed,    \* the arrival it is replayed as
  restarted,   \* history: was the stream started again while recording
  gapAtStart   \* history: had the live frame lost a slot when it began

-----------------------------------------------------------------------------

\* What the live decoder and the graphs see of a subframe.
SameSubframe(a, b) ==
  /\ a.frame_index = b.frame_index
  /\ a.subframe = b.subframe
  /\ a.state = b.state
  /\ a.words[a.subframe] = b.words[b.subframe]
  /\ a.frame_completed = b.frame_completed

RepeatsLast == recorded # <<>> => SameSubframe(recorded[1], replayed[1])

\* Every recorded subframe is replayed in its frame and slot, with its words
\* and its state, late and invalid ones included, and completes a frame
\* exactly when it did live - although the session holds neither the frames
\* closed early nor the slots given up, which the replay has to infer from
\* frame numbers (stream_base.py "publish identical arrivals").  It needs an
\* uninterrupted stream, and a recording that did not begin in a frame with
\* a missing slot.
ReplayRepeats == ~restarted /\ ~gapAtStart => RepeatsLast

\* While recording, the replayed frame may only know less than the live one:
\* a slot in a different state is one the replay shows as missing.
ReplayInventsNothing ==
  recording /\ ~restarted /\ ~gapAtStart /\ recorded # <<>> =>
    \A s \in Slots : replay.states[s] # live.states[s] => replay.states[s] = "MISSING"
=============================================================================
