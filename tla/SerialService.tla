--------------------------- MODULE SerialService ---------------------------
(***************************************************************************)
(* The connection life cycle of services/serial_service.py: the service on *)
(* the GUI thread, the source object it owns with its reader thread and    *)
(* its event queue (serial_source.py, replay_source.py, stream_base.py),   *)
(* and the device at the other end of a link that may break at any time.   *)
(*                                                                         *)
(* What is kept of an event is its kind; what is kept of the frame store   *)
(* is whether the frame is live.  A chunk is what one read returns and is  *)
(* one subframe.  The commands of a handshake are one action: the GUI      *)
(* thread waits for their replies and nothing else runs on it.             *)
(***************************************************************************)
EXTENDS ServicePromises, Integers, Sequences

CONSTANTS
  MaxLosses,     \* bound on the link failures
  MaxTimeouts,   \* bound on the dialogues that fail with the link up
  MaxQueue,      \* bound on the events pending before the reader is held up
  MaxChunks      \* bound on the chunks in the pipe

ASSUME BoundsAssumption ==
  {MaxLosses, MaxTimeouts} \subseteq Nat /\ {MaxQueue, MaxChunks} \subseteq Nat \ {0}

VARIABLES
  pump,      \* "idle", or "draining" while pump() is in its loop
  dev,       \* the device: can it be reached, is it streaming
  budget     \* failures left

vars == <<svc, obj, pump, dev, budget>>

Connections ==
  {"DISCONNECTED", "CONNECTED", "STREAMING", "RECONNECTING", "REPLAYING"}

Service(conn, source, wantConnected, wantStreaming, live) ==
  [conn |-> conn, source |-> source, want_connected |-> wantConnected,
   want_streaming |-> wantStreaming, live |-> live]

Object(queue, alive, streaming, text, linked, chunks) ==
  [queue |-> queue, alive |-> alive, streaming |-> streaming,
   text |-> text, linked |-> linked, chunks |-> chunks]

NoObject     == Object(<<>>, FALSE, FALSE, TRUE, FALSE, 0)
FreshSerial  == Object(<<>>, TRUE, FALSE, TRUE, TRUE, 0)
FreshReplay  == Object(<<>>, TRUE, FALSE, TRUE, FALSE, 0)

Init ==
  /\ svc = Service("DISCONNECTED", "none", FALSE, FALSE, FALSE)
  /\ obj = NoObject
  /\ pump = "idle"
  /\ dev = [up |-> TRUE, running |-> FALSE]
  /\ budget = [losses |-> MaxLosses, timeouts |-> MaxTimeouts]

-----------------------------------------------------------------------------
(* Parts the handlers share *)

Connected == svc.conn \in {"CONNECTED", "STREAMING"}

\* _finish_live_frame
Finished(s) == [s EXCEPT !.live = FALSE]

\* _teardown_source: the thread is stopped and joined, the transport closed.
Detached(s)  == [s EXCEPT !.source = "none"]
Stopped(o)   == [o EXCEPT !.alive = FALSE, !.linked = FALSE, !.chunks = 0]

\* A write on a closed transport puts a DISCONNECTED event and raises.
Emitted(o, kind) == [o EXCEPT !.queue = Append(@, kind)]

AfterSend(o)     == IF o.linked THEN o ELSE Emitted(o, "DISCONNECTED")

\* A command reaches the device while the link is up.
Running(flag) == IF obj.linked THEN [dev EXCEPT !.running = flag] ELSE dev

\* source.stop_stream: word mode ends whether or not STOP was sent.
StreamStopped(o) == [AfterSend(o) EXCEPT !.streaming = FALSE, !.text = TRUE]

\* A dialogue of requests (a handshake, an upload) completes if the link is
\* up and every reply comes in time.  A reply that does not come raises
\* without an event; a failed write puts one.
Answered == obj.linked
TimesOut == obj.linked /\ budget.timeouts > 0

SpendTimeout == budget' = [budget EXCEPT !.timeouts = @ - 1]

-----------------------------------------------------------------------------
(* disconnect() and connect() *)

Disconnected(s) == [Finished(Detached(s)) EXCEPT
                      !.conn = "DISCONNECTED", !.want_connected = FALSE,
                      !.want_streaming = FALSE]

Disconnect ==
  /\ pump = "idle"
  /\ svc.conn \notin {"DISCONNECTED", "REPLAYING"}
  /\ svc' = Disconnected(svc)
  /\ obj' = NoObject
  /\ dev' = IF svc.source = "serial" /\ obj.streaming THEN Running(FALSE) ELSE dev
  /\ UNCHANGED <<pump, budget>>

\* The port opens and the handshake succeeds; its STOP silences a device left
\* running.  The page offers Connect only while DISCONNECTED, when there is
\* no source to disconnect first; _want_streaming is left as it is.
Connect ==
  /\ pump = "idle"
  /\ svc.conn = "DISCONNECTED"
  /\ dev.up
  /\ svc' = Service("CONNECTED", "serial", TRUE, svc.want_streaming, svc.live)
  /\ obj' = FreshSerial
  /\ dev' = [dev EXCEPT !.running = FALSE]
  /\ UNCHANGED <<pump, budget>>

\* start_stream and stop_stream.  With engineering signals the first frame is
\* uploaded with requests before START.

StartStream ==
  /\ pump = "idle"
  /\ svc.conn = "CONNECTED" /\ svc.source = "serial" /\ obj.text
  /\ Answered
  /\ svc' = [svc EXCEPT !.conn = "STREAMING", !.want_streaming = TRUE]
  /\ obj' = [obj EXCEPT !.streaming = TRUE, !.text = FALSE]
  /\ dev' = [dev EXCEPT !.running = TRUE]
  /\ UNCHANGED <<pump, budget>>

\* The upload fails; with the device's own signals it is START that fails,
\* and the source already believes it is streaming.
StartStreamFails ==
  /\ pump = "idle"
  /\ svc.conn = "CONNECTED" /\ svc.source = "serial" /\ obj.text
  /\ \/ /\ TimesOut /\ SpendTimeout
        /\ UNCHANGED obj
     \/ /\ ~obj.linked /\ UNCHANGED budget
        /\ Len(obj.queue) < MaxQueue
        /\ \/ obj' = Emitted(obj, "DISCONNECTED")
           \/ obj' = [Emitted(obj, "DISCONNECTED") EXCEPT !.streaming = TRUE, !.text = FALSE]
  /\ UNCHANGED <<svc, pump, dev>>

\* When STOP cannot be sent the error leaves the state and the frame alone.
StopStream ==
  /\ pump = "idle"
  /\ svc.conn = "STREAMING"
  /\ Len(obj.queue) < MaxQueue
  /\ IF ~obj.streaming
     THEN /\ svc' = [Finished(svc) EXCEPT !.want_streaming = FALSE, !.conn = "CONNECTED"]
          /\ UNCHANGED <<obj, dev>>
     ELSE /\ svc' = IF obj.linked
                    THEN [Finished(svc) EXCEPT !.want_streaming = FALSE, !.conn = "CONNECTED"]
                    ELSE [svc EXCEPT !.want_streaming = FALSE]
          /\ obj' = StreamStopped(obj)
          /\ dev' = Running(FALSE)
  /\ UNCHANGED <<pump, budget>>

\* Every other command while connected (faults, modes, words, the requests
\* of a reset): it changes nothing here unless the link is gone.
SendCommand ==
  /\ pump = "idle"
  /\ Connected /\ ~obj.linked /\ Len(obj.queue) < MaxQueue
  /\ obj' = Emitted(obj, "DISCONNECTED")
  /\ UNCHANGED <<svc, pump, dev, budget>>

-----------------------------------------------------------------------------
(* Replay *)

\* start_replay, attach_source: a source in use is disconnected first; with
\* none, as while RECONNECTING, nothing is cleared.
AttachReplay ==
  /\ pump = "idle"
  /\ svc.conn # "REPLAYING"
  /\ LET s == IF svc.source = "none" THEN svc ELSE Disconnected(svc)
     IN  svc' = [s EXCEPT !.conn = "REPLAYING", !.source = "replay"]
  /\ obj' = FreshReplay
  /\ dev' = IF svc.source = "serial" /\ obj.streaming THEN Running(FALSE) ELSE dev
  /\ UNCHANGED <<pump, budget>>

\* Slip: the state still says REPLAYING.
ReplayDetachedQuietly(s) == Finished(Detached(s))

\* detach_source
ReplayDetached(s) == [Finished(Detached(s)) EXCEPT !.conn = "DISCONNECTED"]

StopReplay ==
  /\ pump = "idle"
  /\ svc.conn = "REPLAYING"
  /\ svc' = ReplayDetached(svc)
  /\ obj' = NoObject
  /\ UNCHANGED <<pump, dev, budget>>

-----------------------------------------------------------------------------
(* pump(): the GUI timer.  The loop holds on to the queue of the source it *)
(* began with, also after a handler has torn that source down.             *)

PumpBegin ==
  /\ pump = "idle"
  /\ svc.source # "none"
  /\ pump' = "draining"
  /\ UNCHANGED <<svc, obj, dev, budget>>

\* Slip: a subframe in flight after a stop makes the frame live for good.
HandleSubframeLive(uploads) ==
  /\ svc' = [svc EXCEPT !.live = TRUE]
  /\ uploads => svc.conn = "STREAMING"
  /\ obj' = [obj EXCEPT !.queue = Tail(@)]
  /\ UNCHANGED dev

\* A subframe makes the frame live, unless the user has stopped the stream.
\* Subframe 1 may also upload the next frame, which fails on a broken link.
HandleSubframe(uploads) ==
  /\ svc' = [svc EXCEPT !.live = svc.want_streaming \/ svc.conn = "REPLAYING"]
  /\ uploads => svc.conn = "STREAMING"
  /\ obj' = LET o == [obj EXCEPT !.queue = Tail(@)]
            IN  IF uploads THEN AfterSend(o) ELSE o
  /\ UNCHANGED dev

\* Slip: the frame is left live.
HandleDisconnectedLive ==
  /\ svc' = [Detached(svc) EXCEPT
               !.conn = IF svc.want_connected THEN "RECONNECTING" ELSE "DISCONNECTED"]
  /\ obj' = [Stopped(obj) EXCEPT !.queue = Tail(@)]
  /\ UNCHANGED dev

\* _on_disconnected
HandleDisconnected ==
  /\ svc' = [Finished(Detached(svc)) EXCEPT
               !.conn = IF svc.want_connected THEN "RECONNECTING" ELSE "DISCONNECTED"]
  /\ obj' = [Stopped(obj) EXCEPT !.queue = Tail(@)]
  /\ UNCHANGED dev

HandleReplayFinished ==
  /\ svc' = ReplayDetached(svc)
  /\ obj' = [Stopped(obj) EXCEPT !.queue = Tail(@)]
  /\ UNCHANGED dev

HandleEvent ==
  /\ pump = "draining"
  /\ obj.queue # <<>>
  /\ CASE Head(obj.queue) = "SUBFRAME"     -> \E uploads \in BOOLEAN : HandleSubframe(uploads)
       [] Head(obj.queue) = "DISCONNECTED" -> HandleDisconnected
       [] Head(obj.queue) = "FINISHED"     -> HandleReplayFinished
  /\ UNCHANGED <<pump, budget>>

\* The queue is empty and the source is still the one the loop began with.
PumpEnd ==
  /\ pump = "draining"
  /\ obj.queue = <<>>
  /\ svc.source # "none"
  /\ pump' = "idle"
  /\ UNCHANGED <<svc, obj, dev, budget>>

-----------------------------------------------------------------------------
(* _maybe_reconnect, when the retry is due.  It runs at the end of a pump  *)
(* that has lost its source, and on every pump without one.                *)

\* Slip: only a stream is worth a retry.
ReconnectDueToStream ==
  /\ svc.source = "none"
  /\ pump = "draining" => obj.queue = <<>>
  /\ svc.want_streaming
  /\ svc.conn = "RECONNECTING"

ReconnectDue ==
  /\ svc.source = "none"
  /\ pump = "draining" => obj.queue = <<>>
  /\ svc.want_connected
  /\ svc.conn = "RECONNECTING"

\* A pump that lost its source ends without a retry: it is not due yet, or
\* nobody wants to be connected.
PumpLeaves ==
  /\ pump = "draining"
  /\ obj.queue = <<>>
  /\ svc.source = "none"
  /\ pump' = "idle"
  /\ obj' = NoObject
  /\ UNCHANGED <<svc, dev, budget>>

ReconnectFails ==
  /\ ReconnectDue
  /\ \/ ~dev.up /\ UNCHANGED budget
     \/ dev.up /\ budget.timeouts > 0 /\ SpendTimeout
  /\ pump' = "idle"
  /\ obj' = NoObject
  /\ UNCHANGED <<svc, dev>>

\* The handshake succeeds; the stream is started again if it is wanted.
Reconnect ==
  /\ ReconnectDue
  /\ dev.up
  /\ pump' = "idle"
  /\ svc' = Service(IF svc.want_streaming THEN "STREAMING" ELSE "CONNECTED",
                    "serial", TRUE, svc.want_streaming, svc.live)
  /\ obj' = [FreshSerial EXCEPT !.streaming = svc.want_streaming,
                                !.text = ~svc.want_streaming]
  /\ dev' = [dev EXCEPT !.running = svc.want_streaming]
  /\ UNCHANGED <<budget>>

\* The handshake succeeds, then starting the stream fails: the error is
\* logged and the service stays connected.
ReconnectWithoutStream ==
  /\ ReconnectDue
  /\ dev.up /\ svc.want_streaming
  /\ budget.timeouts > 0 /\ SpendTimeout
  /\ pump' = "idle"
  /\ svc' = Service("CONNECTED", "serial", TRUE, TRUE, svc.live)
  /\ obj' = FreshSerial
  /\ dev' = [dev EXCEPT !.running = FALSE]

-----------------------------------------------------------------------------
(* The reader threads *)

\* One read of the serial source.  In text mode words are not reply lines.
\* A chunk left in a closed pipe is still read.
ReadChunk ==
  /\ svc.source = "serial" /\ obj.alive
  /\ obj.chunks > 0
  /\ Len(obj.queue) < MaxQueue
  /\ LET o == [obj EXCEPT !.chunks = @ - 1]
     IN  obj' = IF obj.text THEN o ELSE Emitted(o, "SUBFRAME")
  /\ UNCHANGED <<svc, pump, dev, budget>>

\* Slip: the thread only looks at the link while it is streaming.
ReadFailsStreaming ==
  /\ svc.source = "serial" /\ obj.alive /\ obj.streaming
  /\ obj.chunks = 0 /\ ~obj.linked
  /\ Len(obj.queue) < MaxQueue
  /\ obj' = [Emitted(obj, "DISCONNECTED") EXCEPT !.alive = FALSE, !.streaming = FALSE]
  /\ UNCHANGED <<svc, pump, dev, budget>>

\* The read fails: the thread reports it and ends.
ReadFails ==
  /\ svc.source = "serial" /\ obj.alive
  /\ obj.chunks = 0 /\ ~obj.linked
  /\ Len(obj.queue) < MaxQueue
  /\ obj' = [Emitted(obj, "DISCONNECTED") EXCEPT !.alive = FALSE, !.streaming = FALSE]
  /\ UNCHANGED <<svc, pump, dev, budget>>

ReplayRecord ==
  /\ svc.source = "replay" /\ obj.alive
  /\ Len(obj.queue) < MaxQueue
  /\ obj' = Emitted(obj, "SUBFRAME")
  /\ UNCHANGED <<svc, pump, dev, budget>>

\* The end of the session, or a record that cannot be read.
ReplayEnds ==
  /\ svc.source = "replay" /\ obj.alive
  /\ Len(obj.queue) < MaxQueue
  /\ obj' = [Emitted(obj, "FINISHED") EXCEPT !.alive = FALSE]
  /\ UNCHANGED <<svc, pump, dev, budget>>

-----------------------------------------------------------------------------
(* The device and the link *)

DeviceSends ==
  /\ obj.linked /\ dev.running
  /\ obj.chunks < MaxChunks
  /\ obj' = [obj EXCEPT !.chunks = @ + 1]
  /\ UNCHANGED <<svc, pump, dev, budget>>

LinkLost ==
  /\ obj.linked
  /\ budget.losses > 0
  /\ budget' = [budget EXCEPT !.losses = @ - 1]
  /\ obj' = [obj EXCEPT !.linked = FALSE]
  /\ dev' = [dev EXCEPT !.up = FALSE]
  /\ UNCHANGED <<svc, pump>>

LinkBack ==
  /\ ~dev.up
  /\ dev' = [dev EXCEPT !.up = TRUE]
  /\ UNCHANGED <<svc, obj, pump, budget>>

-----------------------------------------------------------------------------

User ==
  \/ Connect \/ Disconnect \/ StartStream \/ StartStreamFails \/ StopStream
  \/ SendCommand \/ AttachReplay \/ StopReplay

Pump ==
  \/ PumpBegin \/ HandleEvent \/ PumpEnd \/ PumpLeaves
  \/ ReconnectFails \/ Reconnect \/ ReconnectWithoutStream

Reader == ReadChunk \/ ReadFails \/ ReplayRecord \/ ReplayEnds

Next == User \/ Pump \/ Reader \/ DeviceSends \/ LinkLost \/ LinkBack

Spec == Init /\ [][Next]_vars

\* The GUI timer never stops firing and the reader threads are never starved;
\* a link that is down comes back.  Users owe nothing, nor does the device.
Fairness == WF_vars(Pump) /\ WF_vars(ReadChunk \/ ReadFails) /\ WF_vars(LinkBack)

FairSpec == Spec /\ Fairness

-----------------------------------------------------------------------------
(* Liveness; the invariants are those of ServicePromises. *)

\* A lost link is always noticed, also when nothing is streaming.
LossNoticed == (Connected /\ ~obj.linked) ~> ~(Connected /\ ~obj.linked)

\* A service that wants to be connected does not stay RECONNECTING for ever.
Reconnects == (svc.conn = "RECONNECTING") ~> (svc.conn # "RECONNECTING")

\* After a stop the frame becomes editable, whatever was in flight.
StoppedFrameSettles ==
  (svc.live /\ ~svc.want_streaming /\ svc.conn # "REPLAYING")
    ~> (~svc.live \/ svc.want_streaming \/ svc.conn = "REPLAYING")
=============================================================================
