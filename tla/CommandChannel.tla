--------------------------- MODULE CommandChannel ---------------------------
(***************************************************************************)
(* The command dialogue between the PC and a device that is connected:     *)
(* the operations of services/serial_service.py that send commands, the    *)
(* request and reply queue of sources/serial/serial_source.py, and the     *)
(* commands as the device executes them (sources/serial/virtual_device.py),*)
(* over a line that delivers in order and takes its time.                  *)
(*                                                                         *)
(* An operation is a script of steps that the GUI thread works off.  A     *)
(* step is sent and forgotten, or it is a request: the GUI thread then     *)
(* sleeps on the queue of replies.  The device executes one command at a   *)
(* time and answers only while it does not stream; a subframe it sends is  *)
(* one item on the line.  Read in text mode, a subframe is the beginning   *)
(* of a line that no one will end but the next reply.  A stop leaves the   *)
(* device where it is, in the middle of a frame or of a subframe, and the  *)
(* next start goes on from there.                                          *)
(***************************************************************************)
EXTENDS Integers, Sequences, FiniteSets

CONSTANTS
  Subframes,     \* subframes of a frame
  MaxOps,        \* bound on the operations the user asks for
  MaxUploads,    \* bound on the frames uploaded
  MaxTimeouts,   \* bound on the replies that are late
  MaxLine,       \* bound on the items in flight when a subframe is sent
  MaxArrivals    \* bound on the arrivals of subframe 1 the GUI is behind

ASSUME SubframesAssumption == Subframes \in Nat \ {0}
ASSUME BoundsAssumption == {MaxOps, MaxUploads, MaxTimeouts, MaxLine, MaxArrivals} \subseteq Nat

VARIABLES
  gui,      \* the script under way, the request awaited, what the user chose
  src,      \* the source: text mode, replies, the text of an unfinished line
  up,       \* commands on the line to the device
  down,     \* replies and subframes on the line to the PC
  dev,      \* the device: streaming, position, buffers, pending commit
  used,     \* operations, uploads and late replies so far
  answer,   \* history: the last request and the command its answer is of
  sent,     \* history: the uploads that the frame being sent is made of
  cuts,     \* history: the commits carried out in the middle of that frame
  mixed     \* history: may the frame to come be made of two uploads

vars == <<gui, src, up, down, dev, used, answer, sent, cuts, mixed>>

Slots == 1 .. Subframes

Step(cmd, sf, wait) == [cmd |-> cmd, sf |-> sf, wait |-> wait]

Reply(id)    == [kind |-> "reply", of |-> id]
Subframe(sf) == [kind |-> "subframe", of |-> sf]

Init ==
  /\ gui = [script |-> <<>>, awaiting |-> 0, owed |-> FALSE, sent |-> 0,
            engineering |-> TRUE]
  /\ src = [text |-> TRUE, streaming |-> FALSE, replies |-> <<>>, partial |-> FALSE, first |-> 0]
  /\ up = <<>>
  /\ down = <<>>
  /\ dev = [running |-> FALSE, at |-> 1, in_subframe |-> FALSE, pending |-> FALSE,
            staged |-> [s \in Slots |-> 0], active |-> [s \in Slots |-> 0]]
  /\ used = [ops |-> 0, uploads |-> 0, timeouts |-> 0]
  /\ answer = [request |-> 0, reply |-> 0, owed |-> FALSE]
  /\ sent = {}
  /\ cuts = 0
  /\ mixed = FALSE

-----------------------------------------------------------------------------
(* Scripts *)

Load(wait) == [s \in Slots |-> Step("LOAD_SF", s, wait)]

\* _upload_engineering_frame
Upload(wait) == Load(wait) \o <<Step("COMMIT", 0, wait)>>

\* _apply_signal_source(initial)
ApplySignals(engineering, initial) ==
  <<Step("SET_MODE", 0, initial)>>
    \o (IF engineering /\ initial THEN Upload(TRUE) ELSE <<>>)

\* start_stream
StartScript ==
  (IF gui.engineering THEN Upload(TRUE) ELSE <<>>) \o <<Step("START", 0, FALSE)>>

\* reset_device
ResetScript ==
  (IF src.streaming THEN <<Step("STOP", 0, FALSE)>> ELSE <<>>)
    \o <<Step("RESET", 0, TRUE), Step("SET_WPS", 0, TRUE),
         Step("SET_SYNC", 0, TRUE), Step("SET_PROTOCOL", 0, TRUE)>>
    \o ApplySignals(gui.engineering, TRUE)

HasUpload(script) == \E i \in DOMAIN script : script[i].cmd = "COMMIT"

Idle == gui.script = <<>> /\ gui.awaiting = 0

Begin(script, engineering) ==
  /\ gui' = [gui EXCEPT !.script = script, !.engineering = engineering]
  /\ IF HasUpload(script)
     THEN /\ used.uploads < MaxUploads
          /\ used' = [used EXCEPT !.ops = @ + 1, !.uploads = @ + 1]
     ELSE used' = [used EXCEPT !.ops = @ + 1]
  /\ UNCHANGED <<src, up, down, dev, answer, sent, cuts, mixed>>

User(script, engineering) ==
  /\ Idle
  /\ used.ops < MaxOps
  /\ Begin(script, engineering)

StartStream == ~src.streaming /\ User(StartScript, gui.engineering)
StopStream  == src.streaming /\ User(<<Step("STOP", 0, FALSE)>>, gui.engineering)
ResetDevice == User(ResetScript, gui.engineering)

\* A command of a stopped device is sent without waiting here, unlike in
\* inject_fault and set_word_on_device.
SetDeviceMode == User(<<Step("SET_MODE", 0, FALSE)>>, gui.engineering)

InjectFault == User(<<Step("FAULT", 0, ~src.streaming)>>, gui.engineering)

SetSignalSource ==
  \E engineering \in BOOLEAN :
    User(ApplySignals(engineering, ~src.streaming), engineering)

\* pump, _handle_event: subframe 1 of a frame makes the PC upload the next.
UploadNext ==
  /\ Idle
  /\ src.first > 0
  /\ src.streaming /\ gui.engineering
  /\ used.uploads < MaxUploads
  /\ gui' = [gui EXCEPT !.script = Upload(FALSE)]
  /\ src' = [src EXCEPT !.first = @ - 1]
  /\ used' = [used EXCEPT !.uploads = @ + 1]
  /\ UNCHANGED <<up, down, dev, answer, sent, cuts, mixed>>

\* The arrival is handled without an upload.
HandleArrival ==
  /\ Idle
  /\ src.first > 0
  /\ ~(src.streaming /\ gui.engineering)
  /\ src' = [src EXCEPT !.first = @ - 1]
  /\ UNCHANGED <<gui, up, down, dev, used, answer, sent, cuts, mixed>>

-----------------------------------------------------------------------------
(* Steps of a script *)

Command(step) ==
  [cmd |-> step.cmd, sf |-> step.sf, id |-> gui.sent + 1, version |-> used.uploads]

IsReply(item) == item.kind = "reply"

\* A reply to an earlier command may still come.
Owed == \/ \E i \in DOMAIN down : IsReply(down[i])
        \/ \E i \in DOMAIN up : up[i].cmd # "START"

\* source.send, source.start_stream, source.stop_stream.  The parser changes
\* over to words before START is sent.
SendStep ==
  /\ gui.awaiting = 0
  /\ gui.script # <<>>
  /\ ~Head(gui.script).wait
  /\ up' = Append(up, Command(Head(gui.script)))
  /\ gui' = [gui EXCEPT !.script = Tail(@), !.sent = @ + 1]
  /\ src' = CASE Head(gui.script).cmd = "START" -> [src EXCEPT !.text = FALSE, !.streaming = TRUE]
              [] Head(gui.script).cmd = "STOP"  -> [src EXCEPT !.text = TRUE, !.streaming = FALSE,
                                                               !.partial = FALSE]
              [] OTHER -> src
  /\ UNCHANGED <<down, dev, used, answer, sent, cuts, mixed>>

\* Slip: old replies are not thrown away.
DiscardedNothing(replies) == replies

\* Replies that came too late for their own request are discarded.
Discarded(replies) == <<>>

\* source.request up to the wait.
SendRequest ==
  /\ gui.awaiting = 0
  /\ gui.script # <<>>
  /\ Head(gui.script).wait
  /\ src' = [src EXCEPT !.replies = Discarded(@)]
  /\ up' = Append(up, Command(Head(gui.script)))
  /\ gui' = [gui EXCEPT !.script = Tail(@), !.sent = @ + 1, !.awaiting = gui.sent + 1,
                        !.owed = Owed]
  /\ UNCHANGED <<down, dev, used, answer, sent, cuts, mixed>>

\* ... and its end: the first reply that comes is taken for the answer.
TakeReply ==
  /\ gui.awaiting # 0
  /\ src.replies # <<>>
  /\ answer' = [request |-> gui.awaiting, reply |-> Head(src.replies), owed |-> gui.owed]
  /\ src' = [src EXCEPT !.replies = Tail(@)]
  /\ gui' = [gui EXCEPT !.awaiting = 0]
  /\ UNCHANGED <<up, down, dev, used, sent, cuts, mixed>>

\* TimeoutError: the operation is given up where it is.
ReplyLate ==
  /\ gui.awaiting # 0
  /\ used.timeouts < MaxTimeouts
  /\ used' = [used EXCEPT !.timeouts = @ + 1]
  /\ gui' = [gui EXCEPT !.awaiting = 0, !.script = <<>>]
  /\ UNCHANGED <<src, up, down, dev, answer, sent, cuts, mixed>>

-----------------------------------------------------------------------------
(* The reader thread: process_bytes on one item of the line *)

ReadItem ==
  /\ down # <<>>
  /\ src.text \/ src.first < MaxArrivals
  /\ down' = Tail(down)
  /\ IF ~src.text
     THEN src' = IF Head(down) = Subframe(1) THEN [src EXCEPT !.first = @ + 1] ELSE src
     ELSE IF IsReply(Head(down))
     THEN src' = [src EXCEPT !.partial = FALSE,
                             !.replies = IF src.partial THEN @ ELSE Append(@, Head(down).of)]
     ELSE \E unfinished \in BOOLEAN : src' = [src EXCEPT !.partial = unfinished]
  /\ UNCHANGED <<gui, up, dev, used, answer, sent, cuts, mixed>>

-----------------------------------------------------------------------------
(* The device *)

Blanked(d) == [d EXCEPT !.staged = [s \in Slots |-> 0], !.active = [s \in Slots |-> 0],
                        !.pending = FALSE, !.at = 1, !.in_subframe = FALSE,
                        !.running = FALSE]

Swapped(d) == [d EXCEPT !.active = d.staged, !.pending = FALSE]

\* _execute
Executed(d, c) ==
  CASE c.cmd = "START"   -> [d EXCEPT !.running = TRUE]
    [] c.cmd = "STOP"    -> [d EXCEPT !.running = FALSE]
    [] c.cmd = "RESET"   -> Blanked(d)
    [] c.cmd = "SET_WPS" -> IF d.running THEN d ELSE Blanked(d)
    [] c.cmd = "LOAD_SF" -> [d EXCEPT !.staged[c.sf] = c.version]
    [] c.cmd = "COMMIT"  -> IF d.running THEN [d EXCEPT !.pending = TRUE] ELSE Swapped(d)
    [] OTHER             -> d

\* Slip: whether to answer is decided before the command is executed.
AnswersBefore(before, after) == ~before.running

\* handle_command answers if the device does not stream afterwards.
Answers(before, after) == ~after.running

Whole(buffer) == \A s, t \in Slots : buffer[s] = buffer[t]

\* A frame has begun and has not ended.
MidFrame(d) == d.at # 1 \/ d.in_subframe

\* The next frame will not be one upload: while it waits for the end of the
\* frame being sent a subframe is staged over it, or it has been staged over
\* in part when the device starts.
StagedOver(d, c) ==
  /\ d.pending
  /\ \/ c.cmd = "LOAD_SF" /\ d.running
     \/ c.cmd = "START" /\ ~Whole(d.staged)

HandleCommand ==
  /\ up # <<>>
  /\ LET c == Head(up)
         d == Executed(dev, c)
     IN  /\ dev' = d
         /\ down' = IF Answers(dev, d) THEN Append(down, Reply(c.id)) ELSE down
         /\ cuts' = IF c.cmd = "COMMIT" /\ ~dev.running /\ MidFrame(dev) THEN cuts + 1 ELSE cuts
         /\ mixed' = (mixed \/ StagedOver(dev, c))
  /\ up' = Tail(up)
  /\ UNCHANGED <<gui, src, used, answer, sent>>

\* Slip: a commit does not wait for the end of the frame.
BoundaryAnywhere(d) == IF d.pending THEN Swapped(d) ELSE d

\* _end_subframe: the staged frame becomes active between two frames.
Boundary(d) == IF d.at = 1 /\ d.pending THEN Swapped(d) ELSE d

Following(at) == IF at = Subframes THEN 1 ELSE at + 1

\* A frame begins with one upload, and the next to be committed is one.
FrameBegins ==
  dev.at = 1 /\ Whole(dev.active) /\ (dev.pending => Whole(dev.staged))

\* _begin_subframe and the words up to some point in the subframe ...
BeginSubframe ==
  /\ dev.running /\ ~dev.in_subframe
  /\ dev' = [dev EXCEPT !.in_subframe = TRUE]
  /\ sent' = (IF dev.at = 1 THEN {} ELSE sent) \cup {dev.active[dev.at]}
  /\ cuts' = IF dev.at = 1 THEN 0 ELSE cuts
  /\ mixed' = (mixed /\ ~FrameBegins)
  /\ UNCHANGED <<gui, src, up, down, used, answer>>

\* ... the other words and _end_subframe.
EndSubframe ==
  /\ dev.running /\ dev.in_subframe
  /\ Len(down) < MaxLine
  /\ down' = Append(down, Subframe(dev.at))
  /\ dev' = Boundary([dev EXCEPT !.at = Following(@), !.in_subframe = FALSE])
  /\ sent' = sent \cup {dev.active[dev.at]}
  /\ UNCHANGED <<gui, src, up, used, answer, cuts, mixed>>

-----------------------------------------------------------------------------

Next ==
  \/ StartStream \/ StopStream \/ ResetDevice \/ SetDeviceMode \/ InjectFault
  \/ SetSignalSource \/ UploadNext \/ HandleArrival
  \/ SendStep \/ SendRequest \/ TakeReply \/ ReplyLate
  \/ ReadItem \/ HandleCommand \/ BeginSubframe \/ EndSubframe

Spec == Init /\ [][Next]_vars

\* The threads of the device, of the reader and of the GUI run.
Fairness == WF_vars(HandleCommand) /\ WF_vars(ReadItem) /\ WF_vars(TakeReply)

FairSpec == Spec /\ Fairness

-----------------------------------------------------------------------------
(* Properties *)

\* Whatever is on the line when the stream is stopped, a request is always
\* answered: the words still in flight run into the next reply line and
\* spoil it, and that line is the answer to STOP, which no one waits for.
RequestsAnswered == gui.awaiting # 0 ~> gui.awaiting = 0

\* A request is only ever given the reply to another command if a reply was
\* still on its way when it was sent: late replies that have arrived are
\* discarded, and the dialogue falls into step again as soon as it is quiet.
ReplyIsOwnWhenQuiet == answer.owed \/ answer.reply = answer.request

\* A frame on the wire is made of one upload and at most one more for each
\* COMMIT that reached the device stopped in the middle of that frame: STOP
\* and START keep the place in the frame, and a stopped device does not wait
\* for its end.  Frames are replaced in no other way, unless a subframe was
\* staged over a frame still to be swapped in while the device was streaming,
\* or the device was started with such a frame staged over in part; and the
\* first frame to begin with a whole upload ends that.
FrameSentWhole == mixed \/ Cardinality(sent) <= 1 + cuts
=============================================================================
