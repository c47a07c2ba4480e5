-------------------------- MODULE ServicePromises --------------------------
(***************************************************************************)
(* What the serial service promises of the source object it owns: the      *)
(* state it shows and the state of the reader thread, its mode and the     *)
(* events still in its queue fit together.  SerialService is the life      *)
(* cycle that keeps these promises.                                        *)
(***************************************************************************)
VARIABLES
  svc,       \* the service and the stores it writes
  obj        \* the source object last made: its queue, thread and transport

Pending(kind) == \E i \in DOMAIN obj.queue : obj.queue[i] = kind

SourceAgrees ==
  /\ svc.conn \in {"CONNECTED", "STREAMING"} <=> svc.source = "serial"
  /\ svc.conn = "REPLAYING" <=> svc.source = "replay"
  /\ svc.source = "serial" \/ svc.conn = "RECONNECTING" => svc.want_connected

LossNeverSilent ==
  /\ svc.source = "serial" => obj.alive \/ Pending("DISCONNECTED")
  /\ svc.source = "replay" => obj.alive \/ Pending("FINISHED")

StopTakesHold ==
  svc.conn = "STREAMING" /\ ~svc.want_streaming => Pending("DISCONNECTED")

TextModeAgrees ==
  svc.source = "serial" /\ ~Pending("DISCONNECTED") => obj.text = ~obj.streaming

\* The service and its source never contradict each other, whatever events
\* are still to come from a source that was torn down: the state shown goes
\* with the source owned and the wish to stay connected; a reader never ends
\* without its report in the queue; a stop that could not be sent says
\* STREAMING only until the loss in the queue is handled; and words are read
\* as words exactly while streaming, save before such a report.
StateMatchesSource ==
  SourceAgrees /\ LossNeverSilent /\ StopTakesHold /\ TextModeAgrees

\* A frame is live, and so refuses edits, only while somebody may still feed
\* it: a stream that is wanted, a replay, or a failed stop about to be
\* handled.  Subframes in flight after a stop never make it live for good.
LiveFrameOwned ==
  svc.live => \/ svc.want_streaming
              \/ svc.conn = "REPLAYING"
              \/ Pending("DISCONNECTED")
=============================================================================
