--------------------------- MODULE Service_proofs ---------------------------
(***************************************************************************)
(* Proofs about the serial service.  CommandChannel, for any number of     *)
(* subframes and every bound: a request that was sent while the dialogue   *)
(* was quiet is given its own reply, and a frame on the line is one upload *)
(* and at most one more for each commit of a device stopped in mid-frame,  *)
(* unless the next was staged over while it waited for the frame to end.   *)
(* SerialService, in the second part: the service, its source and what is  *)
(* queued agree, and a live frame has somebody to feed it.                 *)
(***************************************************************************)
EXTENDS CommandChannel, ServicePromises, FiniteSetTheorems, SequenceTheorems, TLAPS

\* The shape of the records that steps change field by field
Shapes ==
  /\ gui = [script |-> gui.script, awaiting |-> gui.awaiting, owed |-> gui.owed,
            sent |-> gui.sent, engineering |-> gui.engineering]
  /\ src = [text |-> src.text, streaming |-> src.streaming, replies |-> src.replies,
            partial |-> src.partial, first |-> src.first]
  /\ "running" \in DOMAIN dev

IsSequence(q) == \E S : q \in Seq(S)

QueuesOK == IsSequence(up) /\ IsSequence(down) /\ IsSequence(src.replies)

\* What is on its way can only answer the request numbered id: a command on
\* the line, an item on the line back, a reply that has arrived.
OwnCommands(q, id) == \E S : q \in Seq(S) /\ \A c \in S : c.cmd = "START" \/ c.id = id
OwnItems(q, id)    == \E S : q \in Seq(S) /\ \A x \in S : IsReply(x) => x.of = id
OwnReplies(q, id)  == \E S : q \in Seq(S) /\ \A r \in S : r = id

\* While a request is awaited that was sent with nothing owed, nothing on its
\* way can be mistaken for its reply.
NothingElse ==
  gui.awaiting # 0 /\ ~gui.owed =>
    /\ OwnCommands(up, gui.awaiting)
    /\ OwnItems(down, gui.awaiting)
    /\ OwnReplies(src.replies, gui.awaiting)

\* The inductive invariant.
IInv == Shapes /\ QueuesOK /\ NothingElse /\ ReplyIsOwnWhenQuiet

-----------------------------------------------------------------------------
(* Queues *)

\* Appending keeps a sequence a sequence.
LEMMA Appending ==
  ASSUME NEW S, NEW q \in Seq(S), NEW e
  PROVE  Append(q, e) \in Seq(S \cup {e})
<1> DEFINE T == S \cup {e}
<1>1. q \in Seq(T) /\ e \in T
  BY SeqMonotonic
<1> HIDE DEF T
<1>2. Append(q, e) \in Seq(T)
  BY <1>1, AppendProperties
<1>3. QED
  BY <1>2 DEF T

\* A queue is a sequence of its own elements.
LEMMA OwnElements ==
  ASSUME NEW q, IsSequence(q)
  PROVE  q \in Seq({q[i] : i \in DOMAIN q})
<1>1. PICK S : q \in Seq(S)
  BY DEF IsSequence
<1>2. Range(q) = {q[i] : i \in 1 .. Len(q)} /\ q \in Seq(Range(q)) /\ DOMAIN q = 1 .. Len(q)
  BY <1>1, RangeEquality, SeqOfRange, LenProperties
<1>3. QED
  BY <1>2

\* A queue stays a sequence when something joins or leaves it.
LEMMA SequenceAfter ==
  ASSUME NEW q, IsSequence(q)
  PROVE  /\ \A e : IsSequence(Append(q, e))
         /\ q # <<>> => IsSequence(Tail(q))
<1>1. PICK S : q \in Seq(S)
  BY DEF IsSequence
<1>2. ASSUME NEW e PROVE IsSequence(Append(q, e))
  BY <1>1, Appending DEF IsSequence
<1>3. ASSUME q # <<>> PROVE IsSequence(Tail(q))
  BY <1>1, <1>3, HeadTailProperties DEF IsSequence
<1>4. QED
  BY <1>2, <1>3

\* What the device takes off the line is a START or the awaited request, and
\* so is what stays behind.
LEMMA OwnCommandsAfter ==
  ASSUME NEW q, NEW id, OwnCommands(q, id), q # <<>>
  PROVE  OwnCommands(Tail(q), id) /\ (Head(q).cmd = "START" \/ Head(q).id = id)
  BY HeadTailProperties DEF OwnCommands

\* What is read off the line back, or put on it, is no reply to another request.
LEMMA OwnItemsAfter ==
  ASSUME NEW q, NEW id, OwnItems(q, id)
  PROVE  /\ q # <<>> => OwnItems(Tail(q), id) /\ (IsReply(Head(q)) => Head(q).of = id)
         /\ \A x : (IsReply(x) => x.of = id) => OwnItems(Append(q, x), id)
<1>1. PICK S : q \in Seq(S) /\ \A x \in S : IsReply(x) => x.of = id
  BY DEF OwnItems
<1>2. ASSUME q # <<>>
      PROVE  OwnItems(Tail(q), id) /\ (IsReply(Head(q)) => Head(q).of = id)
  BY <1>1, <1>2, HeadTailProperties DEF OwnItems
<1>3. ASSUME NEW x, IsReply(x) => x.of = id PROVE OwnItems(Append(q, x), id)
  <2> DEFINE T == S \cup {x}
  <2>1. Append(q, x) \in Seq(T)
    BY <1>1, Appending
  <2>2. \A y \in T : IsReply(y) => y.of = id
    BY <1>1, <1>3
  <2> HIDE DEF T
  <2>3. QED
    BY <2>1, <2>2 DEF OwnItems
<1>4. QED
  BY <1>2, <1>3

\* A reply that is put with the awaited one's leaves the queue as it should be.
LEMMA OwnRepliesAfter ==
  ASSUME NEW q, NEW id, OwnReplies(q, id)
  PROVE  OwnReplies(Append(q, id), id) /\ (q # <<>> => Head(q) = id)
<1>1. PICK S : q \in Seq(S) /\ \A r \in S : r = id
  BY DEF OwnReplies
<1> DEFINE T == S \cup {id}
<1>2. Append(q, id) \in Seq(T)
  BY <1>1, Appending
<1>3. \A r \in T : r = id
  BY <1>1
<1> HIDE DEF T
<1>4. OwnReplies(Append(q, id), id)
  BY <1>2, <1>3 DEF OwnReplies
<1>5. q # <<>> => Head(q) = id
  BY <1>1, HeadTailProperties
<1>6. QED
  BY <1>4, <1>5

-----------------------------------------------------------------------------
(* The steps *)

\* A step of a GUI thread that then awaits nothing.
LEMMA NotAwaiting ==
  ASSUME Shapes', QueuesOK', gui'.awaiting = 0, ReplyIsOwnWhenQuiet'
  PROVE  IInv'
  BY DEF IInv, NothingElse

\* A new script, or an arrival handled
LEMMA IdleStep ==
  ASSUME IInv, Idle, UNCHANGED <<up, down, dev, answer>>,
         \/ \E script, engineering :
               gui' = [gui EXCEPT !.script = script, !.engineering = engineering]
         \/ \E script : gui' = [gui EXCEPT !.script = script]
         \/ gui' = gui,
         \/ src' = src
         \/ \E first : src' = [src EXCEPT !.first = first]
  PROVE  IInv'
<1>1. \E script, engineering :
        gui' = [script |-> script, awaiting |-> gui.awaiting, owed |-> gui.owed,
                sent |-> gui.sent, engineering |-> engineering]
  BY DEF IInv, Shapes
<1>2. \E first :
        src' = [text |-> src.text, streaming |-> src.streaming, replies |-> src.replies,
                partial |-> src.partial, first |-> first]
  BY DEF IInv, Shapes
<1>3. Shapes'
  BY <1>1, <1>2 DEF IInv, Shapes
<1>4. QueuesOK'
  BY <1>2 DEF IInv, QueuesOK
<1>5. gui'.awaiting = 0
  BY <1>1 DEF Idle
<1>6. ReplyIsOwnWhenQuiet'
  BY DEF IInv, ReplyIsOwnWhenQuiet
<1>7. QED
  BY <1>3, <1>4, <1>5, <1>6, NotAwaiting

\* A step sent and forgotten: the service's thread awaits nothing.
LEMMA SendStepKeeps == IInv /\ SendStep => IInv'
<1> SUFFICES ASSUME IInv, SendStep PROVE IInv'
  OBVIOUS
<1>1. gui' = [gui EXCEPT !.script = Tail(gui.script), !.sent = gui.sent + 1]
      /\ gui.awaiting = 0
  BY DEF SendStep
<1>2. gui' = [script |-> Tail(gui.script), awaiting |-> gui.awaiting, owed |-> gui.owed,
              sent |-> gui.sent + 1, engineering |-> gui.engineering]
  BY <1>1 DEF IInv, Shapes
<1>3. \/ src' = [src EXCEPT !.text = FALSE, !.streaming = TRUE]
      \/ src' = [src EXCEPT !.text = TRUE, !.streaming = FALSE, !.partial = FALSE]
      \/ src' = src
  BY DEF SendStep
<1>4. \E text, streaming, partial :
        src' = [text |-> text, streaming |-> streaming, replies |-> src.replies,
                partial |-> partial, first |-> src.first]
  BY <1>3 DEF IInv, Shapes
<1>5. Shapes'
  BY <1>2, <1>4 DEF IInv, Shapes, SendStep
<1>6. QueuesOK'
  BY <1>4, SequenceAfter DEF IInv, QueuesOK, SendStep
<1>7. gui'.awaiting = 0
  BY <1>1, <1>2
<1>8. ReplyIsOwnWhenQuiet'
  BY DEF IInv, ReplyIsOwnWhenQuiet, SendStep
<1>9. QED
  BY <1>5, <1>6, <1>7, <1>8, NotAwaiting

\* The record a request leaves, field by field
LEMMA Requesting ==
  ASSUME NEW g, NEW script, NEW id, NEW owed,
         g = [script |-> g.script, awaiting |-> g.awaiting, owed |-> g.owed,
              sent |-> g.sent, engineering |-> g.engineering]
  PROVE  [g EXCEPT !.script = script, !.sent = id, !.awaiting = id, !.owed = owed]
           = [script |-> script, awaiting |-> id, owed |-> owed, sent |-> id,
              engineering |-> g.engineering]
<1>1. DOMAIN g = {"script", "awaiting", "owed", "sent", "engineering"}
  OBVIOUS
<1> DEFINE a == [g EXCEPT !.script = script]
           b == [a EXCEPT !.sent = id]
           c == [b EXCEPT !.awaiting = id]
           d == [c EXCEPT !.owed = owed]
<1>2. a = [script |-> script, awaiting |-> g.awaiting, owed |-> g.owed,
           sent |-> g.sent, engineering |-> g.engineering]
  BY <1>1
<1> HIDE DEF a
<1>3. b = [script |-> script, awaiting |-> g.awaiting, owed |-> g.owed,
           sent |-> id, engineering |-> g.engineering]
  BY <1>2
<1> HIDE DEF b
<1>4. c = [script |-> script, awaiting |-> id, owed |-> g.owed,
           sent |-> id, engineering |-> g.engineering]
  BY <1>3
<1> HIDE DEF c
<1>5. d = [script |-> script, awaiting |-> id, owed |-> owed,
           sent |-> id, engineering |-> g.engineering]
  BY <1>4
<1>6. QED
  BY <1>5 DEF a, b, c

\* A request empties the reply queue before it is sent.
LEMMA SendRequestKeeps == IInv /\ SendRequest => IInv'
<1> SUFFICES ASSUME IInv, SendRequest PROVE IInv'
  OBVIOUS
<1> DEFINE command == Command(Head(gui.script))
           id == gui.sent + 1
<1>1. gui' = [gui EXCEPT !.script = Tail(gui.script), !.sent = id, !.awaiting = id, !.owed = Owed]
  BY DEF SendRequest
<1>2. gui' = [script |-> Tail(gui.script), awaiting |-> id, owed |-> Owed, sent |-> id,
              engineering |-> gui.engineering]
  <2>1. gui = [script |-> gui.script, awaiting |-> gui.awaiting, owed |-> gui.owed,
               sent |-> gui.sent, engineering |-> gui.engineering]
    BY DEF IInv, Shapes
  <2>2. QED
    BY <1>1, <2>1, Requesting
<1>3. src' = [text |-> src.text, streaming |-> src.streaming, replies |-> <<>>,
              partial |-> src.partial, first |-> src.first]
  BY DEF SendRequest, Discarded, IInv, Shapes
<1>4. /\ up' = Append(up, command) /\ down' = down /\ dev' = dev /\ answer' = answer
      /\ command.id = id
  BY DEF SendRequest, Command
<1>5. Shapes'
  BY <1>2, <1>3, <1>4 DEF IInv, Shapes
<1>6. QueuesOK'
  <2>1. IsSequence(up') /\ IsSequence(down')
    BY <1>4, SequenceAfter DEF IInv, QueuesOK
  <2>2. IsSequence(src'.replies)
    BY <1>3, EmptySeq DEF IsSequence
  <2>3. QED
    BY <2>1, <2>2 DEF QueuesOK
<1> HIDE DEF command, id
<1>7. ASSUME ~Owed
      PROVE  OwnCommands(up', id) /\ OwnItems(down', id) /\ OwnReplies(src'.replies, id)
  <2> DEFINE S == {up[i] : i \in DOMAIN up}
             T == {down[i] : i \in DOMAIN down}
  <2>1. up \in Seq(S) /\ down \in Seq(T)
    BY OwnElements DEF IInv, QueuesOK
  <2>2. \A c \in S : c.cmd = "START"
    BY <1>7 DEF Owed
  <2>3. \A x \in T : ~IsReply(x)
    BY <1>7 DEF Owed
  <2> HIDE DEF S, T
  <2> DEFINE U == S \cup {command}
  <2>4. up' \in Seq(U)
    BY <1>4, <2>1, Appending
  <2>5. \A c \in U : c.cmd = "START" \/ c.id = id
    BY <1>4, <2>2
  <2> HIDE DEF U
  <2>6. OwnCommands(up', id)
    BY <2>4, <2>5 DEF OwnCommands
  <2>7. OwnItems(down', id)
    BY <1>4, <2>1, <2>3 DEF OwnItems
  <2> DEFINE V == {}
  <2>8. <<>> \in Seq(V) /\ \A r \in V : r = id
    BY EmptySeq
  <2> HIDE DEF V
  <2>9. OwnReplies(src'.replies, id)
    BY <1>3, <2>8 DEF OwnReplies
  <2>10. QED
    BY <2>6, <2>7, <2>9
<1>8. NothingElse'
  BY <1>2, <1>7 DEF NothingElse
<1>9. ReplyIsOwnWhenQuiet'
  BY <1>4 DEF IInv, ReplyIsOwnWhenQuiet
<1>10. QED
  BY <1>5, <1>6, <1>8, <1>9 DEF IInv

\* The reply taken is that of the request awaited.
LEMMA TakeReplyKeeps == IInv /\ TakeReply => IInv'
<1> SUFFICES ASSUME IInv, TakeReply PROVE IInv'
  OBVIOUS
<1>1. gui' = [script |-> gui.script, awaiting |-> 0, owed |-> gui.owed,
              sent |-> gui.sent, engineering |-> gui.engineering]
  BY DEF TakeReply, IInv, Shapes
<1>2. src' = [text |-> src.text, streaming |-> src.streaming, replies |-> Tail(src.replies),
              partial |-> src.partial, first |-> src.first]
  BY DEF TakeReply, IInv, Shapes
<1>3. /\ up' = up /\ down' = down /\ dev' = dev /\ src.replies # <<>> /\ gui.awaiting # 0
      /\ answer' = [request |-> gui.awaiting, reply |-> Head(src.replies), owed |-> gui.owed]
  BY DEF TakeReply
<1>4. Shapes'
  BY <1>1, <1>2, <1>3 DEF IInv, Shapes
<1>5. QueuesOK'
  BY <1>2, <1>3, SequenceAfter DEF IInv, QueuesOK
<1>6. ReplyIsOwnWhenQuiet'
  <2>1. CASE gui.owed
    BY <1>3, <2>1 DEF ReplyIsOwnWhenQuiet
  <2>2. CASE ~gui.owed
    <3>1. OwnReplies(src.replies, gui.awaiting)
      BY <1>3, <2>2 DEF IInv, NothingElse
    <3>2. Head(src.replies) = gui.awaiting
      BY <1>3, <3>1, OwnRepliesAfter
    <3>3. QED
      BY <1>3, <3>2 DEF ReplyIsOwnWhenQuiet
  <2>3. QED
    BY <2>1, <2>2
<1>7. QED
  BY <1>1, <1>4, <1>5, <1>6, NotAwaiting

\* A request that times out is awaited no longer.
LEMMA ReplyLateKeeps == IInv /\ ReplyLate => IInv'
<1> SUFFICES ASSUME IInv, ReplyLate PROVE IInv'
  OBVIOUS
<1>1. gui' = [script |-> <<>>, awaiting |-> 0, owed |-> gui.owed,
              sent |-> gui.sent, engineering |-> gui.engineering]
  BY DEF ReplyLate, IInv, Shapes
<1>2. UNCHANGED <<src, up, down, dev, answer>>
  BY DEF ReplyLate
<1>3. Shapes'
  BY <1>1, <1>2 DEF IInv, Shapes
<1>4. QueuesOK' /\ ReplyIsOwnWhenQuiet'
  BY <1>2 DEF IInv, QueuesOK, ReplyIsOwnWhenQuiet
<1>5. QED
  BY <1>1, <1>3, <1>4, NotAwaiting

\* The reader moves one item from the line, a reply to the reply queue.
LEMMA ReadItemKeeps == IInv /\ ReadItem => IInv'
<1> SUFFICES ASSUME IInv, ReadItem PROVE IInv'
  OBVIOUS
<1>1. down # <<>> /\ down' = Tail(down) /\ UNCHANGED <<gui, up, dev, answer>>
  BY DEF ReadItem
<1>2. \E replies, partial, first :
        /\ src' = [text |-> src.text, streaming |-> src.streaming, replies |-> replies,
                   partial |-> partial, first |-> first]
        /\ \/ replies = src.replies
           \/ IsReply(Head(down)) /\ replies = Append(src.replies, Head(down).of)
  <2>1. CASE ~src.text
    BY <2>1 DEF ReadItem, IInv, Shapes
  <2>2. CASE src.text /\ IsReply(Head(down))
    <3> DEFINE replies == IF src.partial THEN src.replies ELSE Append(src.replies, Head(down).of)
    <3>1. src' = [src EXCEPT !.partial = FALSE, !.replies = replies]
      BY <2>2 DEF ReadItem
    <3>2. replies = src.replies \/ replies = Append(src.replies, Head(down).of)
      OBVIOUS
    <3> HIDE DEF replies
    <3>3. src' = [text |-> src.text, streaming |-> src.streaming, replies |-> replies,
                  partial |-> FALSE, first |-> src.first]
      BY <3>1 DEF IInv, Shapes
    <3>4. QED
      BY <2>2, <3>2, <3>3
  <2>3. CASE src.text /\ ~IsReply(Head(down))
    BY <2>3 DEF ReadItem, IInv, Shapes
  <2>4. QED
    BY <2>1, <2>2, <2>3
<1>3. PICK replies :
        /\ \E partial, first :
             src' = [text |-> src.text, streaming |-> src.streaming, replies |-> replies,
                     partial |-> partial, first |-> first]
        /\ \/ replies = src.replies
           \/ IsReply(Head(down)) /\ replies = Append(src.replies, Head(down).of)
  BY <1>2
<1>4. src'.replies = replies
  BY <1>3
<1>5. Shapes'
  BY <1>1, <1>3 DEF IInv, Shapes
<1>6. QueuesOK'
  BY <1>1, <1>3, <1>4, SequenceAfter DEF IInv, QueuesOK
<1>7. NothingElse'
  <2> SUFFICES ASSUME gui.awaiting # 0, ~gui.owed
               PROVE  /\ OwnCommands(up, gui.awaiting)
                      /\ OwnItems(Tail(down), gui.awaiting)
                      /\ OwnReplies(replies, gui.awaiting)
    BY <1>1, <1>4 DEF NothingElse
  <2>1. /\ OwnCommands(up, gui.awaiting) /\ OwnItems(down, gui.awaiting)
        /\ OwnReplies(src.replies, gui.awaiting)
    BY DEF IInv, NothingElse
  <2>2. OwnItems(Tail(down), gui.awaiting) /\ (IsReply(Head(down)) => Head(down).of = gui.awaiting)
    BY <1>1, <2>1, OwnItemsAfter
  <2>3. OwnReplies(replies, gui.awaiting)
    BY <1>3, <2>1, <2>2, OwnRepliesAfter
  <2>4. QED
    BY <2>1, <2>2, <2>3
<1>8. ReplyIsOwnWhenQuiet'
  BY <1>1 DEF IInv, ReplyIsOwnWhenQuiet
<1>9. QED
  BY <1>5, <1>6, <1>7, <1>8 DEF IInv

\* The device answers the command it took, and no other.
LEMMA HandleCommandKeeps == IInv /\ HandleCommand => IInv'
<1> SUFFICES ASSUME IInv, HandleCommand PROVE IInv'
  OBVIOUS
<1> DEFINE c == Head(up)
           d == Executed(dev, c)
<1>1. /\ up # <<>> /\ up' = Tail(up) /\ dev' = d /\ UNCHANGED <<gui, src, answer>>
      /\ down' = IF ~d.running THEN Append(down, Reply(c.id)) ELSE down
  BY DEF HandleCommand, Answers
<1>2. DOMAIN d = DOMAIN dev
  BY DEF Executed, Blanked, Swapped
<1>3. c.cmd = "START" => d.running
  BY DEF IInv, Shapes, Executed
<1>4. IsReply(Reply(c.id)) /\ Reply(c.id).of = c.id
  BY DEF IsReply, Reply
<1> HIDE DEF c, d
<1>5. Shapes'
  BY <1>1, <1>2 DEF IInv, Shapes
<1>6. QueuesOK'
  BY <1>1, SequenceAfter DEF IInv, QueuesOK
<1>7. NothingElse'
  <2> SUFFICES ASSUME gui.awaiting # 0, ~gui.owed
               PROVE  /\ OwnCommands(up', gui.awaiting)
                      /\ OwnItems(down', gui.awaiting)
                      /\ OwnReplies(src.replies, gui.awaiting)
    BY <1>1 DEF NothingElse
  <2>1. /\ OwnCommands(up, gui.awaiting) /\ OwnItems(down, gui.awaiting)
        /\ OwnReplies(src.replies, gui.awaiting)
    BY DEF IInv, NothingElse
  <2>2. OwnCommands(up', gui.awaiting) /\ (c.cmd = "START" \/ c.id = gui.awaiting)
    BY <1>1, <2>1, OwnCommandsAfter DEF c
  <2>3. OwnItems(down', gui.awaiting)
    BY <1>1, <1>3, <1>4, <2>1, <2>2, OwnItemsAfter
  <2>4. QED
    BY <2>1, <2>2, <2>3
<1>8. ReplyIsOwnWhenQuiet'
  BY <1>1 DEF IInv, ReplyIsOwnWhenQuiet
<1>9. QED
  BY <1>5, <1>6, <1>7, <1>8 DEF IInv

\* Words sent in the middle of a subframe change nothing on the line.
LEMMA BeginSubframeKeeps == IInv /\ BeginSubframe => IInv'
<1> SUFFICES ASSUME IInv, BeginSubframe PROVE IInv'
  OBVIOUS
<1>1. /\ UNCHANGED <<gui, src, up, down, answer>>
      /\ dev' = [dev EXCEPT !.in_subframe = TRUE]
  BY DEF BeginSubframe
<1>2. Shapes'
  BY <1>1 DEF IInv, Shapes
<1>3. QED
  BY <1>1, <1>2 DEF IInv, QueuesOK, NothingElse, ReplyIsOwnWhenQuiet

\* A subframe sent is no reply.
LEMMA EndSubframeKeeps == IInv /\ EndSubframe => IInv'
<1> SUFFICES ASSUME IInv, EndSubframe PROVE IInv'
  OBVIOUS
<1>1. /\ down' = Append(down, Subframe(dev.at)) /\ UNCHANGED <<gui, src, up, answer>>
      /\ dev' = Boundary([dev EXCEPT !.at = Following(dev.at), !.in_subframe = FALSE])
  BY DEF EndSubframe
<1>2. DOMAIN dev' = DOMAIN dev
  BY <1>1 DEF Boundary, Swapped
<1>3. ~IsReply(Subframe(dev.at))
  BY DEF IsReply, Subframe
<1>4. Shapes'
  BY <1>1, <1>2 DEF IInv, Shapes
<1>5. QueuesOK'
  BY <1>1, SequenceAfter DEF IInv, QueuesOK
<1>6. NothingElse'
  BY <1>1, <1>3, OwnItemsAfter DEF IInv, NothingElse
<1>7. ReplyIsOwnWhenQuiet'
  BY <1>1 DEF IInv, ReplyIsOwnWhenQuiet
<1>8. QED
  BY <1>4, <1>5, <1>6, <1>7 DEF IInv

-----------------------------------------------------------------------------

\* Nothing is owed in the beginning.
LEMMA InitOwn == Init => IInv
<1> SUFFICES ASSUME Init PROVE IInv
  OBVIOUS
<1>1. Shapes
  BY DEF Init, Shapes
<1>2. QueuesOK
  BY EmptySeq DEF Init, QueuesOK, IsSequence
<1>3. NothingElse /\ ReplyIsOwnWhenQuiet
  BY DEF Init, NothingElse, ReplyIsOwnWhenQuiet
<1>4. QED
  BY <1>1, <1>2, <1>3 DEF IInv

\* Every step keeps what is on its way to the awaited request its own.
LEMMA NextOwn == IInv /\ [Next]_vars => IInv'
<1> SUFFICES ASSUME IInv, [Next]_vars PROVE IInv'
  OBVIOUS
<1>1. ASSUME NEW script, NEW engineering, User(script, engineering) PROVE IInv'
  BY <1>1, IdleStep DEF User, Begin
<1>2. CASE StartStream \/ StopStream \/ ResetDevice
  BY <1>1, <1>2 DEF StartStream, StopStream, ResetDevice
<1>3. CASE SetDeviceMode \/ InjectFault \/ SetSignalSource
  BY <1>1, <1>3 DEF SetDeviceMode, InjectFault, SetSignalSource
<1>4. CASE UploadNext
  BY <1>4, IdleStep DEF UploadNext
<1>5. CASE HandleArrival
  BY <1>5, IdleStep DEF HandleArrival
<1>6. CASE UNCHANGED vars
  BY <1>6 DEF vars, IInv, Shapes, QueuesOK, NothingElse, ReplyIsOwnWhenQuiet
<1>7. QED
  BY <1>2, <1>3, <1>4, <1>5, <1>6, SendStepKeeps, SendRequestKeeps, TakeReplyKeeps,
     ReplyLateKeeps, ReadItemKeeps, HandleCommandKeeps, BeginSubframeKeeps, EndSubframeKeeps
  DEF Next

\* A request that was sent with no reply owed is never given the reply to
\* another command, whatever timed out, streamed, or was stopped before it,
\* for every bound on operations, uploads and late replies.
THEOREM OwnReply == Spec => []ReplyIsOwnWhenQuiet
<1>1. IInv => ReplyIsOwnWhenQuiet
  BY DEF IInv
<1>2. QED
  BY <1>1, InitOwn, NextOwn, PTL DEF Spec

-----------------------------------------------------------------------------
(* Uploads on their way *)

Named(x, version) == [cmd |-> x.cmd, sf |-> x.sf, version |-> version]

\* What the device will execute: the commands u on the line, then the steps q
\* of the script, which will be sent with version v.
Item(u, q, v, i) ==
  IF i <= Len(u) THEN Named(u[i], u[i].version) ELSE Named(q[i - Len(u)], v)

\* The place of slot s before a commit at place i.
LoadAt(i, s) == i - (Subframes + 1 - s)

\* Before each commit come the loads of its own upload, in the order of the
\* slots; those no longer there are in the staged buffer.
CommitsWhole(u, q, v, staged) ==
  \A i \in 1 .. Len(u) + Len(q) : Item(u, q, v, i).cmd = "COMMIT" =>
    \A s \in Slots :
      IF LoadAt(i, s) >= 1
      THEN /\ Item(u, q, v, LoadAt(i, s)).cmd = "LOAD_SF"
           /\ Item(u, q, v, LoadAt(i, s)).sf = s
           /\ Item(u, q, v, LoadAt(i, s)).version = Item(u, q, v, i).version
      ELSE staged[s] = Item(u, q, v, i).version

\* A script whose commits have all their loads in it.
Complete(q) ==
  /\ IsSequence(q)
  /\ \A i \in 1 .. Len(q) : q[i].cmd = "COMMIT" =>
       \A s \in Slots : /\ LoadAt(i, s) >= 1
                        /\ q[LoadAt(i, s)].cmd = "LOAD_SF"
                        /\ q[LoadAt(i, s)].sf = s

\* The length and the domain of a queue.
LEMMA SequenceLength ==
  ASSUME NEW q, IsSequence(q)
  PROVE  Len(q) \in Nat /\ DOMAIN q = 1 .. Len(q)
  BY LenProperties DEF IsSequence

\* The place of a LOAD among the commands of an upload lies before its COMMIT.
LEMMA LoadAtBefore ==
  ASSUME NEW i \in Nat, NEW s \in Slots
  PROVE  LoadAt(i, s) \in Int /\ LoadAt(i, s) < i
  BY SubframesAssumption DEF LoadAt, Slots

\* Sending the first step of a script moves it to the line.
LEMMA WholeWhenSent ==
  ASSUME NEW u, NEW q, IsSequence(u), IsSequence(q), q # <<>>, NEW v, NEW staged, NEW c,
         CommitsWhole(u, q, v, staged), c.version = v, c.cmd = Head(q).cmd, c.sf = Head(q).sf
  PROVE  CommitsWhole(Append(u, c), Tail(q), v, staged)
<1> DEFINE w == Append(u, c)
           r == Tail(q)
<1>1. Len(u) \in Nat /\ Len(q) \in Nat /\ Len(q) >= 1
  BY SequenceLength, EmptySeq DEF IsSequence
<1>2. Len(r) = Len(q) - 1 /\ \A i \in 1 .. Len(q) - 1 : r[i] = q[i + 1]
  BY HeadTailProperties DEF IsSequence
<1>3. Len(w) = Len(u) + 1 /\ (\A i \in 1 .. Len(u) : w[i] = u[i]) /\ w[Len(u) + 1] = c
  <2>1. PICK S : u \in Seq(S)
    BY DEF IsSequence
  <2> DEFINE T == S \cup {c}
  <2>2. u \in Seq(T) /\ c \in T
    BY <2>1, SeqMonotonic
  <2> HIDE DEF T
  <2>3. QED
    BY <2>2, AppendProperties
<1>4. Head(q) = q[1]
  OBVIOUS
<1> HIDE DEF w, r
<1>5. Len(w) + Len(r) = Len(u) + Len(q)
  BY <1>1, <1>2, <1>3
<1>6. ASSUME NEW i \in 1 .. Len(u) + Len(q)
      PROVE  Item(w, r, v, i) = Item(u, q, v, i)
  <2>1. CASE i <= Len(u)
    BY <2>1, <1>1, <1>3 DEF Item
  <2>2. CASE i = Len(u) + 1
    <3>1. i - Len(u) = 1
      BY <2>2, <1>1
    <3>2. Item(w, r, v, i) = Named(c, c.version)
      BY <2>2, <1>1, <1>3 DEF Item
    <3>3. Item(u, q, v, i) = Named(q[1], v)
      BY <2>2, <3>1, <1>1 DEF Item
    <3>4. QED
      BY <3>2, <3>3, <1>4 DEF Named
  <2>3. CASE i > Len(u) + 1
    <3>1. ~(i <= Len(w)) /\ ~(i <= Len(u)) /\ i - Len(w) \in 1 .. Len(q) - 1
          /\ (i - Len(w)) + 1 = i - Len(u)
      BY <2>3, <1>1, <1>3
    <3>2. r[i - Len(w)] = q[i - Len(u)]
      BY <3>1, <1>2
    <3>3. QED
      BY <3>1, <3>2 DEF Item
  <2>4. QED
    BY <2>1, <2>2, <2>3, <1>1
<1>7. CommitsWhole(w, r, v, staged)
  <2> SUFFICES ASSUME NEW i \in 1 .. Len(u) + Len(q), Item(u, q, v, i).cmd = "COMMIT",
                      NEW s \in Slots
               PROVE  IF LoadAt(i, s) >= 1
                      THEN /\ Item(w, r, v, LoadAt(i, s)).cmd = "LOAD_SF"
                           /\ Item(w, r, v, LoadAt(i, s)).sf = s
                           /\ Item(w, r, v, LoadAt(i, s)).version = Item(w, r, v, i).version
                      ELSE staged[s] = Item(w, r, v, i).version
    BY <1>5, <1>6 DEF CommitsWhole
  <2>1. LoadAt(i, s) \in Int /\ LoadAt(i, s) < i
    BY LoadAtBefore
  <2>2. LoadAt(i, s) >= 1 => LoadAt(i, s) \in 1 .. Len(u) + Len(q)
    BY <2>1, <1>1
  <2>3. QED
    BY <1>6, <2>2 DEF CommitsWhole
<1>8. QED
  BY <1>7 DEF w, r

\* Giving up the script leaves the line as it is.
LEMMA WholeWhenGivenUp ==
  ASSUME NEW u, NEW q, IsSequence(u), IsSequence(q), NEW v, NEW n, NEW staged,
         CommitsWhole(u, q, v, staged)
  PROVE  CommitsWhole(u, <<>>, n, staged)
<1>1. Len(u) \in Nat /\ Len(q) \in Nat /\ Len(<<>>) = 0
  BY SequenceLength
<1>2. \A i \in 1 .. Len(u) : Item(u, <<>>, n, i) = Item(u, q, v, i)
  BY <1>1 DEF Item
<1> SUFFICES ASSUME NEW i \in 1 .. Len(u), Item(u, q, v, i).cmd = "COMMIT",
                    NEW s \in Slots
             PROVE  IF LoadAt(i, s) >= 1
                    THEN /\ Item(u, <<>>, n, LoadAt(i, s)).cmd = "LOAD_SF"
                         /\ Item(u, <<>>, n, LoadAt(i, s)).sf = s
                         /\ Item(u, <<>>, n, LoadAt(i, s)).version = Item(u, <<>>, n, i).version
                    ELSE staged[s] = Item(u, <<>>, n, i).version
  BY <1>1, <1>2 DEF CommitsWhole
<1>3. LoadAt(i, s) \in Int /\ LoadAt(i, s) < i
  BY LoadAtBefore
<1>4. LoadAt(i, s) >= 1 => LoadAt(i, s) \in 1 .. Len(u)
  BY <1>1, <1>3
<1>5. i \in 1 .. Len(u) + Len(q)
  BY <1>1
<1>6. QED
  BY <1>2, <1>4, <1>5 DEF CommitsWhole

\* A new script brings its own loads.
LEMMA WholeWhenBegun ==
  ASSUME NEW u, NEW q, IsSequence(u), Complete(q), NEW v, NEW n, NEW staged,
         CommitsWhole(u, <<>>, v, staged)
  PROVE  CommitsWhole(u, q, n, staged)
<1>1. Len(u) \in Nat /\ Len(q) \in Nat /\ Len(<<>>) = 0
  BY SequenceLength DEF Complete
<1>2. \A i \in 1 .. Len(u) : Item(u, q, n, i) = Item(u, <<>>, v, i)
  BY <1>1 DEF Item
<1>3. \A i : i \in 1 .. Len(u) + Len(q) /\ ~(i <= Len(u)) =>
    Item(u, q, n, i) = Named(q[i - Len(u)], n)
  BY <1>1 DEF Item
<1> SUFFICES ASSUME NEW i \in 1 .. Len(u) + Len(q), Item(u, q, n, i).cmd = "COMMIT",
                    NEW s \in Slots
             PROVE  IF LoadAt(i, s) >= 1
                    THEN /\ Item(u, q, n, LoadAt(i, s)).cmd = "LOAD_SF"
                         /\ Item(u, q, n, LoadAt(i, s)).sf = s
                         /\ Item(u, q, n, LoadAt(i, s)).version = Item(u, q, n, i).version
                    ELSE staged[s] = Item(u, q, n, i).version
  BY DEF CommitsWhole
<1>4. LoadAt(i, s) \in Int /\ LoadAt(i, s) < i
  BY <1>1, LoadAtBefore
<1>5. CASE i <= Len(u)
  <2>1. i \in 1 .. Len(u) + Len(<<>>) /\ i \in 1 .. Len(u)
    BY <1>1, <1>5
  <2>2. LoadAt(i, s) >= 1 => LoadAt(i, s) \in 1 .. Len(u)
    BY <1>1, <1>4, <1>5
  <2>3. QED
    BY <1>2, <2>1, <2>2 DEF CommitsWhole
<1>6. CASE ~(i <= Len(u))
  <2> DEFINE j == i - Len(u)
             l == LoadAt(i, s)
  <2>1. j \in 1 .. Len(q) /\ LoadAt(j, s) = l - Len(u)
    BY <1>1, <1>6, SubframesAssumption DEF LoadAt, Slots
  <2>2. q[j].cmd = "COMMIT" /\ Item(u, q, n, i).version = n
    BY <1>3, <1>6 DEF Named
  <2>3. LoadAt(j, s) >= 1 /\ q[LoadAt(j, s)].cmd = "LOAD_SF" /\ q[LoadAt(j, s)].sf = s
    BY <2>1, <2>2 DEF Complete
  <2>4. l \in 1 .. Len(u) + Len(q) /\ ~(l <= Len(u)) /\ l >= 1
    BY <1>1, <1>4, <2>1, <2>3
  <2>5. Item(u, q, n, l) = Named(q[l - Len(u)], n)
    BY <1>3, <2>4
  <2>6. QED
    BY <2>1, <2>2, <2>3, <2>4, <2>5 DEF Named
<1>7. QED
  BY <1>5, <1>6

\* The device executes the first command of the line: a load puts its version
\* in its slot, a commit finds a buffer of its own version, and any other
\* command may spoil the buffer.
LEMMA WholeWhenHandled ==
  ASSUME NEW u, NEW q, IsSequence(u), IsSequence(q), u # <<>>, NEW v, NEW staged, NEW after,
         CommitsWhole(u, q, v, staged), DOMAIN staged = Slots,
         Head(u).cmd = "LOAD_SF" => after = [staged EXCEPT ![Head(u).sf] = Head(u).version]
  PROVE  /\ CommitsWhole(Tail(u), q, v, after)
         /\ Head(u).cmd = "COMMIT" => Whole(staged)
<1> DEFINE w == Tail(u)
           c == Head(u)
<1>1. Len(u) \in Nat /\ Len(q) \in Nat /\ Len(u) >= 1
  BY SequenceLength, EmptySeq DEF IsSequence
<1>2. Len(w) = Len(u) - 1 /\ \A i \in 1 .. Len(u) - 1 : w[i] = u[i + 1]
  BY HeadTailProperties DEF IsSequence
<1>3. c = u[1]
  OBVIOUS
<1> HIDE DEF w, c
<1>4. Item(u, q, v, 1) = Named(c, c.version)
  BY <1>1, <1>3 DEF Item
<1>5. ASSUME NEW i \in 1 .. Len(w) + Len(q)
      PROVE  Item(w, q, v, i) = Item(u, q, v, i + 1)
  <2>1. CASE i <= Len(w)
    BY <2>1, <1>1, <1>2 DEF Item
  <2>2. CASE i > Len(w)
    <3>1. ~(i <= Len(w)) /\ ~(i + 1 <= Len(u)) /\ i - Len(w) = (i + 1) - Len(u)
      BY <2>2, <1>1, <1>2
    <3>2. QED
      BY <3>1 DEF Item
  <2>3. QED
    BY <2>1, <2>2, <1>1, <1>2
<1>6. CommitsWhole(w, q, v, after)
  <2> SUFFICES ASSUME NEW i \in 1 .. Len(w) + Len(q), Item(w, q, v, i).cmd = "COMMIT",
                      NEW s \in Slots
               PROVE  IF LoadAt(i, s) >= 1
                      THEN /\ Item(w, q, v, LoadAt(i, s)).cmd = "LOAD_SF"
                           /\ Item(w, q, v, LoadAt(i, s)).sf = s
                           /\ Item(w, q, v, LoadAt(i, s)).version = Item(w, q, v, i).version
                      ELSE after[s] = Item(w, q, v, i).version
    BY DEF CommitsWhole
  <2> DEFINE k == i + 1
  <2>1. k \in 1 .. Len(u) + Len(q) /\ i \in Nat /\ i >= 1
    BY <1>1, <1>2
  <2>2. Item(w, q, v, i) = Item(u, q, v, k) /\ Item(u, q, v, k).cmd = "COMMIT"
    BY <1>5
  <2>3. /\ LoadAt(i, s) \in Int /\ LoadAt(i, s) < i
        /\ LoadAt(k, s) = LoadAt(i, s) + 1
    <3>1. Subframes \in Nat /\ s \in Int
      BY SubframesAssumption DEF Slots
    <3>2. QED
      BY <2>1, <3>1, LoadAtBefore DEF LoadAt
  <2>4. CASE LoadAt(i, s) >= 1
    <3>1. LoadAt(k, s) >= 1 /\ LoadAt(i, s) \in 1 .. Len(w) + Len(q)
      BY <1>1, <1>2, <2>1, <2>3, <2>4
    <3>2. Item(w, q, v, LoadAt(i, s)) = Item(u, q, v, LoadAt(k, s))
      BY <1>5, <2>3, <3>1
    <3>3. QED
      BY <2>1, <2>2, <2>4, <3>1, <3>2 DEF CommitsWhole
  <2>5. CASE LoadAt(i, s) = 0
    <3>1. LoadAt(k, s) = 1
      BY <2>3, <2>5
    <3>2. c.cmd = "LOAD_SF" /\ c.sf = s /\ c.version = Item(u, q, v, k).version
      BY <1>4, <2>1, <2>2, <3>1 DEF CommitsWhole, Named
    <3>3. after[s] = c.version
      BY <3>2 DEF c
    <3>4. QED
      BY <2>2, <2>5, <3>2, <3>3
  <2>6. CASE LoadAt(i, s) < 0
    <3>1. LoadAt(k, s) < 1
      BY <2>3, <2>6
    <3>2. staged[s] = Item(u, q, v, k).version
      <4>1. ~(LoadAt(k, s) >= 1)
        BY <2>3, <3>1
      <4>2. QED
        BY <2>1, <2>2, <4>1 DEF CommitsWhole
    \* the head of the line is another load of the same upload
    <3> DEFINE t == Subframes + 1 - i
    <3>3. t \in Slots /\ t # s /\ LoadAt(k, t) = 1
      BY <2>1, <2>6, SubframesAssumption DEF LoadAt, Slots
    <3> HIDE DEF t
    <3>4. c.cmd = "LOAD_SF" /\ c.sf = t
      BY <1>4, <2>1, <2>2, <3>3 DEF CommitsWhole, Named
    <3>5. after[s] = staged[s]
      BY <3>3, <3>4 DEF c
    <3>6. ~(LoadAt(i, s) >= 1)
      BY <2>3, <2>6
    <3>7. QED
      BY <2>2, <3>2, <3>5, <3>6
  <2>7. QED
    BY <2>3, <2>4, <2>5, <2>6
<1>7. ASSUME c.cmd = "COMMIT" PROVE Whole(staged)
  <2>1. 1 \in 1 .. Len(u) + Len(q) /\ Item(u, q, v, 1).cmd = "COMMIT"
    BY <1>1, <1>4, <1>7 DEF Named
  <2>2. \A s \in Slots : ~(LoadAt(1, s) >= 1)
    BY SubframesAssumption DEF LoadAt, Slots
  <2>3. \A s \in Slots : staged[s] = Item(u, q, v, 1).version
    BY <2>1, <2>2 DEF CommitsWhole
  <2>4. QED
    BY <2>3 DEF Whole
<1>8. QED
  BY <1>6, <1>7 DEF w, c

-----------------------------------------------------------------------------
(* The scripts *)

\* An empty script commits nothing.
LEMMA CompleteEmpty == Complete(<<>>)
<1>1. IsSequence(<<>>) /\ Len(<<>>) = 0
  BY EmptySeq DEF IsSequence
<1>2. QED
  BY <1>1 DEF Complete

\* Nor does a step that is no COMMIT.
LEMMA CompleteStep ==
  ASSUME NEW x, x.cmd # "COMMIT"
  PROVE  Complete(<<x>>)
<1> DEFINE q == <<x>>
<1>1. q \in Seq({x}) /\ Len(q) = 1 /\ q[1] = x
  OBVIOUS
<1> HIDE DEF q
<1>2. \A i \in 1 .. Len(q) : q[i].cmd # "COMMIT"
  BY <1>1
<1>3. Complete(q)
  BY <1>1, <1>2 DEF Complete, IsSequence
<1>4. QED
  BY <1>3 DEF q

\* An upload loads every subframe before it commits.
LEMMA CompleteUpload ==
  ASSUME NEW wait
  PROVE  Complete(Upload(wait))
<1> DEFINE T == {Step("LOAD_SF", s, wait) : s \in Slots} \cup {Step("COMMIT", 0, wait)}
           a == Load(wait)
           b == <<Step("COMMIT", 0, wait)>>
<1>1. Subframes \in Nat /\ Slots = 1 .. Subframes
  BY SubframesAssumption DEF Slots
<1>2. a = [s \in 1 .. Subframes |-> Step("LOAD_SF", s, wait)]
  BY <1>1 DEF Load
<1>3. \A s \in 1 .. Subframes : Step("LOAD_SF", s, wait) \in T
  BY <1>1
<1>4. b \in Seq(T) /\ Len(b) = 1 /\ b[1] = Step("COMMIT", 0, wait)
  OBVIOUS
<1> HIDE DEF T, b
<1>5. a \in Seq(T) /\ Len(a) = Subframes
  BY <1>1, <1>2, <1>3
<1> HIDE DEF a
<1>6. /\ a \o b \in Seq(T) /\ Len(a \o b) = Subframes + 1
      /\ \A i \in 1 .. Subframes + 1 : (a \o b)[i] =
          IF i <= Subframes THEN a[i] ELSE b[i - Subframes]
  <2>1. /\ a \o b \in Seq(T) /\ Len(a \o b) = Len(a) + Len(b)
        /\ \A i \in 1 .. Len(a) + Len(b) : (a \o b)[i] = IF i <= Len(a) THEN a[i] ELSE b[i - Len(a)]
    BY <1>4, <1>5, ConcatProperties
  <2>2. QED
    BY <1>4, <1>5, <2>1
<1>7. ASSUME NEW i \in 1 .. Subframes + 1, (a \o b)[i].cmd = "COMMIT", NEW s \in Slots
      PROVE  /\ LoadAt(i, s) >= 1
             /\ (a \o b)[LoadAt(i, s)].cmd = "LOAD_SF"
             /\ (a \o b)[LoadAt(i, s)].sf = s
  <2>1. i = Subframes + 1
    <3>1. ASSUME i <= Subframes PROVE FALSE
      <4>1. i \in 1 .. Subframes
        BY <1>1, <3>1
      <4>2. (a \o b)[i] = a[i] /\ a[i] = Step("LOAD_SF", i, wait)
        BY <1>1, <1>2, <1>6, <3>1, <4>1
      <4>3. QED
        BY <1>7, <4>2 DEF Step
    <3>2. QED
      BY <1>1, <3>1
  <2>2. LoadAt(i, s) = s /\ s \in 1 .. Subframes /\ s <= Subframes
    BY <1>1, <2>1 DEF LoadAt
  <2>3. (a \o b)[s] = Step("LOAD_SF", s, wait)
    BY <1>1, <1>2, <1>6, <2>2
  <2>4. QED
    BY <2>2, <2>3 DEF Step
<1>8. QED
  BY <1>6, <1>7 DEF Complete, IsSequence, Upload, a, b

\* Complete scripts follow one another in a complete script.
LEMMA CompleteConcat ==
  ASSUME NEW p, NEW q, Complete(p), Complete(q)
  PROVE  Complete(p \o q)
<1>1. PICK S, R : p \in Seq(S) /\ q \in Seq(R)
  BY DEF Complete, IsSequence
<1> DEFINE T == S \cup R
<1>2. p \in Seq(T) /\ q \in Seq(T)
  BY <1>1, SeqMonotonic
<1> HIDE DEF T
<1>3. Len(p) \in Nat /\ Len(q) \in Nat
  BY <1>2, LenProperties
<1>4. /\ p \o q \in Seq(T) /\ Len(p \o q) = Len(p) + Len(q)
      /\ \A i \in 1 .. Len(p) + Len(q) : (p \o q)[i] = IF i <= Len(p) THEN p[i] ELSE q[i - Len(p)]
  BY <1>2, ConcatProperties
<1>5. ASSUME NEW i \in 1 .. Len(p) + Len(q), (p \o q)[i].cmd = "COMMIT", NEW s \in Slots
      PROVE  /\ LoadAt(i, s) >= 1
             /\ (p \o q)[LoadAt(i, s)].cmd = "LOAD_SF"
             /\ (p \o q)[LoadAt(i, s)].sf = s
  <2>1. LoadAt(i, s) \in Int /\ LoadAt(i, s) < i
    BY <1>3, LoadAtBefore
  <2>2. CASE i <= Len(p)
    <3>1. i \in 1 .. Len(p) /\ (p \o q)[i] = p[i]
      BY <1>3, <1>4, <2>2
    <3>2. LoadAt(i, s) >= 1 /\ p[LoadAt(i, s)].cmd = "LOAD_SF" /\ p[LoadAt(i, s)].sf = s
      BY <1>5, <3>1 DEF Complete
    <3>3. (p \o q)[LoadAt(i, s)] = p[LoadAt(i, s)]
      BY <1>3, <1>4, <2>1, <2>2, <3>2
    <3>4. QED
      BY <3>2, <3>3
  <2>3. CASE ~(i <= Len(p))
    <3> DEFINE j == i - Len(p)
    <3>1. j \in 1 .. Len(q) /\ (p \o q)[i] = q[j]
      BY <1>3, <1>4, <2>3
    <3>2. LoadAt(j, s) = LoadAt(i, s) - Len(p)
      BY <1>3, SubframesAssumption DEF LoadAt, Slots
    <3>3. LoadAt(j, s) >= 1 /\ q[LoadAt(j, s)].cmd = "LOAD_SF" /\ q[LoadAt(j, s)].sf = s
      BY <1>5, <3>1 DEF Complete
    <3>4. LoadAt(i, s) \in 1 .. Len(p) + Len(q) /\ ~(LoadAt(i, s) <= Len(p)) /\ LoadAt(i, s) >= 1
      BY <1>3, <2>1, <3>2, <3>3
    <3>5. (p \o q)[LoadAt(i, s)] = q[LoadAt(j, s)]
      BY <1>4, <3>2, <3>4
    <3>6. QED
      BY <3>3, <3>4, <3>5
  <2>4. QED
    BY <2>2, <2>3
<1>6. QED
  BY <1>4, <1>5 DEF Complete, IsSequence

\* A single step that is no COMMIT, as a script.
LEMMA CompletePlain ==
  ASSUME NEW cmd, cmd # "COMMIT", NEW sf, NEW wait
  PROVE  Complete(<<Step(cmd, sf, wait)>>)
<1>1. Step(cmd, sf, wait).cmd # "COMMIT"
  BY DEF Step
<1>2. QED
  BY <1>1, CompleteStep

\* The script of apply_signals is complete, whatever it starts with.
LEMMA CompleteSignals ==
  ASSUME NEW engineering, NEW initial
  PROVE  Complete(ApplySignals(engineering, initial))
<1>1. Complete(<<Step("SET_MODE", 0, initial)>>)
  BY CompletePlain
<1>2. Complete(IF engineering /\ initial THEN Upload(TRUE) ELSE <<>>)
  BY CompleteUpload, CompleteEmpty
<1>3. QED
  BY <1>1, <1>2, CompleteConcat DEF ApplySignals

\* Every operation's script brings the loads of its commits.
LEMMA ScriptsComplete ==
  /\ Complete(StartScript) /\ Complete(ResetScript)
  /\ \A wait : Complete(<<Step("STOP", 0, wait)>>) /\ Complete(<<Step("SET_MODE", 0, wait)>>)
               /\ Complete(<<Step("FAULT", 0, wait)>>)
<1>1. Complete(StartScript)
  <2>1. Complete(IF gui.engineering THEN Upload(TRUE) ELSE <<>>)
    BY CompleteUpload, CompleteEmpty
  <2>2. Complete(<<Step("START", 0, FALSE)>>)
    BY CompletePlain
  <2>3. QED
    BY <2>1, <2>2, CompleteConcat DEF StartScript
<1>2. Complete(ResetScript)
  <2> DEFINE stop  == IF src.streaming THEN <<Step("STOP", 0, FALSE)>> ELSE <<>>
             reset == Step("RESET", 0, TRUE)
             wps   == Step("SET_WPS", 0, TRUE)
             sync  == Step("SET_SYNC", 0, TRUE)
             prot  == Step("SET_PROTOCOL", 0, TRUE)
             four  == <<reset, wps, sync, prot>>
  <2>1. Complete(stop)
    BY CompletePlain, CompleteEmpty
  <2>2. Complete(four)
    <3>1. reset.cmd # "COMMIT" /\ wps.cmd # "COMMIT" /\ sync.cmd # "COMMIT" /\ prot.cmd # "COMMIT"
      BY DEF Step
    <3> HIDE DEF reset, wps, sync, prot
    <3>2. four \in Seq({reset, wps, sync, prot}) /\ Len(four) = 4
      OBVIOUS
    <3>3. \A i \in 1 .. Len(four) : four[i] \in {reset, wps, sync, prot}
      BY <3>2
    <3>4. \A i \in 1 .. Len(four) : four[i].cmd # "COMMIT"
      BY <3>1, <3>3
    <3>5. IsSequence(four)
      BY <3>2 DEF IsSequence
    <3> HIDE DEF four
    <3>6. QED
      BY <3>4, <3>5 DEF Complete
  <2>3. Complete(ApplySignals(gui.engineering, TRUE))
    BY CompleteSignals
  <2> HIDE DEF stop, four
  <2>4. Complete((stop \o four) \o ApplySignals(gui.engineering, TRUE))
    BY <2>1, <2>2, <2>3, CompleteConcat
  <2>5. QED
    BY <2>4 DEF ResetScript, stop, four
<1>3. ASSUME NEW wait
      PROVE  Complete(<<Step("STOP", 0, wait)>>) /\ Complete(<<Step("SET_MODE", 0, wait)>>)
             /\ Complete(<<Step("FAULT", 0, wait)>>)
  BY CompletePlain
<1>4. QED
  BY <1>1, <1>2, <1>3

-----------------------------------------------------------------------------
(* The device and its two buffers *)

DeviceRecord(d) ==
  d = [running |-> d.running, at |-> d.at, in_subframe |-> d.in_subframe,
       pending |-> d.pending, staged |-> d.staged, active |-> d.active]

DeviceShape(d) ==
  /\ DeviceRecord(d)
  /\ DOMAIN d.staged = Slots /\ DOMAIN d.active = Slots
  /\ d.at \in Slots /\ d.pending \in BOOLEAN

\* Two devices at the same place in the frame, with the same place to go to
SamePlace(d, e) == e.at = d.at /\ e.in_subframe = d.in_subframe

\* The frame being sent is made of one upload and one more for each commit in
\* its middle, and one less if what is to follow in it is of none of these.
FrameMade ==
  /\ Cardinality(sent) <= 1 + cuts
  /\ MidFrame(dev) => dev.active[1] \in sent \/ Cardinality(sent) <= cuts

\* Unless it was staged over while it waited: the buffers the device is to
\* send from hold one upload each, and the frame being sent is FrameMade.
BuffersWhole ==
  ~mixed => /\ Whole(dev.active)
            /\ dev.pending /\ dev.running => Whole(dev.staged)
            /\ FrameMade

\* The inductive invariant, beside IInv
UploadInv ==
  /\ IsSequence(gui.script) /\ DeviceShape(dev)
  /\ IsFiniteSet(sent) /\ cuts \in Nat
  /\ CommitsWhole(up, gui.script, used.uploads, dev.staged)
  /\ BuffersWhole

\* One field of a device changed, for any value
LEMMA DeviceFields ==
  ASSUME NEW d, DeviceRecord(d), NEW val
  PROVE  /\ [d EXCEPT !.pending = val] =
              [running |-> d.running, at |-> d.at, in_subframe |-> d.in_subframe,
               pending |-> val, staged |-> d.staged, active |-> d.active]
         /\ [d EXCEPT !.at = val] =
              [running |-> d.running, at |-> val, in_subframe |-> d.in_subframe,
               pending |-> d.pending, staged |-> d.staged, active |-> d.active]
         /\ [d EXCEPT !.in_subframe = val] =
              [running |-> d.running, at |-> d.at, in_subframe |-> val,
               pending |-> d.pending, staged |-> d.staged, active |-> d.active]
         /\ [d EXCEPT !.running = val] =
              [running |-> val, at |-> d.at, in_subframe |-> d.in_subframe,
               pending |-> d.pending, staged |-> d.staged, active |-> d.active]
  BY DEF DeviceRecord

\* At a frame boundary the staged frame becomes the active one.
LEMMA SwappedFacts ==
  ASSUME NEW d, DeviceShape(d)
  PROVE  /\ DeviceShape(Swapped(d)) /\ SamePlace(d, Swapped(d))
         /\ Swapped(d).staged = d.staged /\ Swapped(d).active = d.staged
         /\ Swapped(d).pending = FALSE /\ Swapped(d).running = d.running
<1>1. Swapped(d) = [running |-> d.running, at |-> d.at, in_subframe |-> d.in_subframe,
                    pending |-> FALSE, staged |-> d.staged, active |-> d.staged]
  <2> DEFINE a == [d EXCEPT !.active = d.staged]
  <2>1. a = [running |-> d.running, at |-> d.at, in_subframe |-> d.in_subframe,
             pending |-> d.pending, staged |-> d.staged, active |-> d.staged]
    BY DEF DeviceShape, DeviceRecord
  <2> HIDE DEF a
  <2>2. PICK no : no = FALSE
    OBVIOUS
  <2>3. [a EXCEPT !.pending = no] =
          [running |-> d.running, at |-> d.at, in_subframe |-> d.in_subframe,
           pending |-> no, staged |-> d.staged, active |-> d.staged]
    BY <2>1, DeviceFields DEF DeviceRecord
  <2>4. QED
    BY <2>2, <2>3 DEF Swapped, a
<1>2. QED
  BY <1>1 DEF DeviceShape, DeviceRecord, SamePlace

\* A reset leaves two whole frames and begins at the first subframe.
LEMMA BlankedFacts ==
  ASSUME NEW d, DeviceShape(d)
  PROVE  /\ DeviceShape(Blanked(d)) /\ ~MidFrame(Blanked(d))
         /\ Whole(Blanked(d).staged) /\ Whole(Blanked(d).active)
         /\ Blanked(d).pending = FALSE
<1>no. PICK no : no = FALSE
  OBVIOUS
<1> DEFINE zero == [s \in Slots |-> 0]
           a == [d EXCEPT !.staged = zero]
           b == [a EXCEPT !.active = zero]
           c == [b EXCEPT !.pending = no]
           e == [c EXCEPT !.at = 1]
           f == [e EXCEPT !.in_subframe = no]
           g == [f EXCEPT !.running = no]
<1>1. DOMAIN zero = Slots /\ Whole(zero)
  BY DEF Whole
<1>2. Blanked(d) = g
  BY <1>no DEF Blanked
<1> HIDE DEF zero
<1>3. a = [running |-> d.running, at |-> d.at, in_subframe |-> d.in_subframe,
           pending |-> d.pending, staged |-> zero, active |-> d.active]
  BY DEF DeviceShape, DeviceRecord
<1> HIDE DEF a
<1>4. b = [running |-> d.running, at |-> d.at, in_subframe |-> d.in_subframe,
           pending |-> d.pending, staged |-> zero, active |-> zero]
  BY <1>3
<1> HIDE DEF b
<1>5. c = [running |-> d.running, at |-> d.at, in_subframe |-> d.in_subframe,
           pending |-> no, staged |-> zero, active |-> zero]
  BY <1>4, DeviceFields DEF DeviceRecord
<1> HIDE DEF c
<1>6. e = [running |-> d.running, at |-> 1, in_subframe |-> d.in_subframe,
           pending |-> no, staged |-> zero, active |-> zero]
  BY <1>5, DeviceFields DEF DeviceRecord
<1> HIDE DEF e
<1>7. f = [running |-> d.running, at |-> 1, in_subframe |-> no,
           pending |-> no, staged |-> zero, active |-> zero]
  BY <1>6, DeviceFields DEF DeviceRecord
<1> HIDE DEF f
<1>8. g = [running |-> no, at |-> 1, in_subframe |-> no,
           pending |-> no, staged |-> zero, active |-> zero]
  BY <1>7, DeviceFields DEF DeviceRecord
<1> HIDE DEF g
<1>9. 1 \in Slots
  BY SubframesAssumption DEF Slots
<1>10. no \in BOOLEAN
  BY <1>no
<1>11. DeviceShape(g) /\ g.staged = zero /\ g.active = zero /\ g.pending = no
       /\ g.at = 1 /\ g.in_subframe = no
  BY <1>1, <1>8, <1>9, <1>10 DEF DeviceShape, DeviceRecord
<1>12. QED
  BY <1>no, <1>1, <1>2, <1>11 DEF MidFrame

\* What one command does to the buffers
LoadDone(d, e, c) ==
  /\ e.staged = [d.staged EXCEPT ![c.sf] = c.version]
  /\ e.active = d.active /\ e.pending = d.pending /\ e.running = d.running
  /\ SamePlace(d, e)

CommitDone(d, e) ==
  /\ e.staged = d.staged /\ SamePlace(d, e)
  /\ d.running => e.active = d.active
  /\ ~d.running => e.active = d.staged /\ e.pending = FALSE

RunDone(d, e, c) ==
  /\ e.staged = d.staged /\ e.active = d.active /\ e.pending = d.pending
  /\ SamePlace(d, e)
  /\ e.running = d.running \/ e.running = FALSE \/ c.cmd = "START"

ResetDone(e) ==
  Whole(e.staged) /\ Whole(e.active) /\ e.pending = FALSE /\ ~MidFrame(e)

LEMMA ExecutedFacts ==
  ASSUME NEW d, DeviceShape(d), NEW c
  PROVE  LET e == Executed(d, c)
         IN  /\ DeviceShape(e)
             /\ c.cmd = "LOAD_SF" => LoadDone(d, e, c)
             /\ c.cmd = "COMMIT" => CommitDone(d, e)
             /\ c.cmd \notin {"LOAD_SF", "COMMIT"} => RunDone(d, e, c) \/ ResetDone(e)
<1> DEFINE e == Executed(d, c)
<1>1. CASE c.cmd = "LOAD_SF"
  <2> DEFINE staged == [d.staged EXCEPT ![c.sf] = c.version]
  <2>1. DOMAIN staged = Slots
    BY DEF DeviceShape, DeviceRecord
  <2>2. e = [d EXCEPT !.staged = [d.staged EXCEPT ![c.sf] = c.version]]
    BY <1>1 DEF Executed
  <2>3. e = [d EXCEPT !.staged = staged]
    BY <2>2
  <2> HIDE DEF staged, e
  <2>4. e = [running |-> d.running, at |-> d.at, in_subframe |-> d.in_subframe,
             pending |-> d.pending, staged |-> staged, active |-> d.active]
    BY <2>3 DEF DeviceShape, DeviceRecord
  <2>5. /\ DeviceShape(e) /\ e.staged = staged /\ e.active = d.active
        /\ e.pending = d.pending /\ e.running = d.running /\ SamePlace(d, e)
    BY <2>1, <2>4 DEF DeviceShape, DeviceRecord, SamePlace
  <2>6. QED
    BY <1>1, <2>5 DEF e, staged, LoadDone
<1>2. CASE c.cmd = "COMMIT"
  <2>1. CASE d.running
    <3>1. e = [d EXCEPT !.pending = TRUE]
      BY <1>2, <2>1 DEF Executed
    <3>2. e = [running |-> d.running, at |-> d.at, in_subframe |-> d.in_subframe,
               pending |-> TRUE, staged |-> d.staged, active |-> d.active]
      BY <3>1 DEF DeviceShape, DeviceRecord
    <3> HIDE DEF e
    <3>3. DeviceShape(e) /\ CommitDone(d, e)
      BY <2>1, <3>2 DEF DeviceShape, DeviceRecord, CommitDone, SamePlace
    <3>4. QED
      BY <1>2, <3>3 DEF e
  <2>2. CASE ~d.running
    <3>1. e = Swapped(d)
      BY <1>2, <2>2 DEF Executed
    <3> HIDE DEF e
    <3>2. DeviceShape(e) /\ CommitDone(d, e)
      BY <2>2, <3>1, SwappedFacts DEF CommitDone
    <3>3. QED
      BY <1>2, <3>2 DEF e
  <2>3. QED
    BY <2>1, <2>2
<1>3. CASE c.cmd \in {"START", "STOP"}
  <2>1. PICK r : e = [d EXCEPT !.running = r] /\ (r = FALSE \/ c.cmd = "START")
    BY <1>3 DEF Executed
  <2>2. e = [running |-> r, at |-> d.at, in_subframe |-> d.in_subframe,
             pending |-> d.pending, staged |-> d.staged, active |-> d.active]
    BY <2>1 DEF DeviceShape, DeviceRecord
  <2> HIDE DEF e
  <2>3. DeviceShape(e) /\ RunDone(d, e, c)
    BY <2>1, <2>2 DEF DeviceShape, DeviceRecord, RunDone, SamePlace
  <2>4. QED
    BY <1>3, <2>3 DEF e
<1>4. CASE c.cmd \notin {"LOAD_SF", "COMMIT", "START", "STOP"}
  <2>1. e = Blanked(d) \/ e = d
    BY <1>4 DEF Executed
  <2> HIDE DEF e
  <2>2. DeviceShape(e) /\ (RunDone(d, e, c) \/ ResetDone(e))
    BY <2>1, BlankedFacts DEF RunDone, ResetDone, SamePlace
  <2>3. QED
    BY <1>4, <2>2 DEF e
<1>5. QED
  BY <1>1, <1>2, <1>3, <1>4

\* A whole frame is that of its first subframe.
LEMMA SlotsWhole ==
  ASSUME NEW b, Whole(b), NEW s \in Slots
  PROVE  b[s] = b[1] /\ 1 \in Slots
  BY SubframesAssumption DEF Whole, Slots

\* One more upload in a frame, if the frame is not yet made of it
LEMMA OneMore ==
  ASSUME NEW S, IsFiniteSet(S), NEW n \in Nat, NEW v,
         Cardinality(S) <= 1 + n, v \in S \/ Cardinality(S) <= n
  PROVE  IsFiniteSet(S \cup {v}) /\ Cardinality(S \cup {v}) <= 1 + n
<1>1. /\ IsFiniteSet(S \cup {v}) /\ Cardinality(S) \in Nat
      /\ v \in S => Cardinality(S \cup {v}) = Cardinality(S)
      /\ v \notin S => Cardinality(S \cup {v}) = Cardinality(S) + 1
  BY FS_AddElement, FS_CardinalityType
<1>2. QED
  BY <1>1

\* A command carried out: a LOAD stages, a COMMIT makes pending or replaces the
\* frame in its middle, a RESET blanks.
LEMMA HandleKeepsUploads ==
  ASSUME IInv, UploadInv, HandleCommand
  PROVE  UploadInv'
<1> DEFINE c == Head(up)
           d == Executed(dev, c)
           cut == c.cmd = "COMMIT" /\ ~dev.running /\ MidFrame(dev)
<1>1. /\ up # <<>> /\ up' = Tail(up) /\ dev' = d /\ UNCHANGED <<gui, used, sent>>
      /\ cuts' = IF cut THEN cuts + 1 ELSE cuts
      /\ mixed' = (mixed \/ StagedOver(dev, c))
  BY DEF HandleCommand
<1>2. DeviceShape(dev) /\ IsSequence(up) /\ IsSequence(gui.script)
  BY DEF UploadInv, IInv, QueuesOK
<1>3. /\ DeviceShape(d)
      /\ c.cmd = "LOAD_SF" => LoadDone(dev, d, c)
      /\ c.cmd = "COMMIT" => CommitDone(dev, d)
      /\ c.cmd \notin {"LOAD_SF", "COMMIT"} => RunDone(dev, d, c) \/ ResetDone(d)
  BY <1>2, ExecutedFacts
<1> HIDE DEF d
<1>4. /\ CommitsWhole(Tail(up), gui.script, used.uploads, d.staged)
      /\ c.cmd = "COMMIT" => Whole(dev.staged)
  <2>1. CommitsWhole(up, gui.script, used.uploads, dev.staged) /\ DOMAIN dev.staged = Slots
    BY <1>2 DEF UploadInv, DeviceShape
  <2>2. /\ c.cmd = "LOAD_SF" => d.staged = [dev.staged EXCEPT ![c.sf] = c.version]
        /\ c.cmd = "COMMIT" => d.staged = dev.staged
        /\ c.cmd \notin {"LOAD_SF", "COMMIT"} => d.staged = dev.staged \/ Whole(d.staged)
    BY <1>3 DEF LoadDone, CommitDone, RunDone, ResetDone
  <2>3. QED
    BY <1>1, <1>2, <2>1, <2>2, WholeWhenHandled
<1> HIDE DEF c
<1>5. cuts \in Nat /\ IsFiniteSet(sent) /\ Cardinality(sent) \in Nat
  BY FS_CardinalityType DEF UploadInv
<1>6. cuts' \in Nat /\ cuts <= cuts'
  <2> HIDE DEF cut
  <2>1. cuts' = cuts + 1 \/ cuts' = cuts
    BY <1>1
  <2>2. QED
    BY <1>5, <2>1
<1>7. BuffersWhole'
  <2> SUFFICES ASSUME ~mixed'
               PROVE  Whole(d.active) /\ (d.pending /\ d.running => Whole(d.staged)) /\ FrameMade'
    BY <1>1 DEF BuffersWhole
  <2>1. ~mixed /\ ~StagedOver(dev, c)
    BY <1>1
  <2>2. Whole(dev.active) /\ (dev.pending /\ dev.running => Whole(dev.staged)) /\ FrameMade
    BY <2>1 DEF UploadInv, BuffersWhole
  <2>3. Whole(d.active)
    <3>1. CASE c.cmd = "LOAD_SF"
      BY <1>3, <2>2, <3>1 DEF LoadDone
    <3>2. CASE c.cmd = "COMMIT"
      BY <1>3, <1>4, <2>2, <3>2 DEF CommitDone
    <3>3. CASE c.cmd \notin {"LOAD_SF", "COMMIT"}
      BY <1>3, <2>2, <3>3 DEF RunDone, ResetDone
    <3>4. QED
      BY <3>1, <3>2, <3>3
  <2>4. d.pending /\ d.running => Whole(d.staged)
    <3>1. CASE c.cmd = "LOAD_SF"
      BY <1>3, <2>1, <3>1 DEF LoadDone, StagedOver
    <3>2. CASE c.cmd = "COMMIT"
      BY <1>3, <1>4, <3>2 DEF CommitDone
    <3>3. CASE c.cmd \notin {"LOAD_SF", "COMMIT"} /\ RunDone(dev, d, c)
      BY <2>1, <2>2, <3>3 DEF RunDone, StagedOver
    <3>4. CASE c.cmd \notin {"LOAD_SF", "COMMIT"} /\ ResetDone(d)
      BY <3>4 DEF ResetDone
    <3>5. QED
      BY <1>3, <3>1, <3>2, <3>3, <3>4
  <2>5. Cardinality(sent) <= 1 + cuts'
    BY <1>5, <1>6, <2>2 DEF FrameMade
  <2>6. ASSUME MidFrame(d)
        PROVE  d.active[1] \in sent \/ Cardinality(sent) <= cuts'
    <3>1. CASE MidFrame(dev) /\ d.active = dev.active
      BY <1>5, <1>6, <2>2, <3>1 DEF FrameMade
    <3>2. CASE cut
      <4>1. cuts' = cuts + 1 /\ Cardinality(sent) <= 1 + cuts
        BY <1>1, <2>2, <3>2 DEF FrameMade
      <4>2. QED
        BY <1>5, <4>1
    <3>3. CASE c.cmd = "LOAD_SF"
      BY <1>3, <2>6, <3>1, <3>3 DEF LoadDone, SamePlace, MidFrame
    <3>4. CASE c.cmd = "COMMIT"
      BY <1>3, <2>6, <3>1, <3>2, <3>4 DEF CommitDone, SamePlace, MidFrame
    <3>5. CASE c.cmd \notin {"LOAD_SF", "COMMIT"}
      BY <1>3, <2>6, <3>1, <3>5 DEF RunDone, ResetDone, SamePlace, MidFrame
    <3>6. QED
      BY <3>3, <3>4, <3>5
  <2>7. FrameMade'
    BY <1>1, <2>5, <2>6 DEF FrameMade, MidFrame
  <2>8. QED
    BY <2>3, <2>4, <2>7
<1>8. QED
  BY <1>1, <1>2, <1>3, <1>4, <1>5, <1>6, <1>7 DEF UploadInv

\* A subframe begun: at the beginning of a frame nothing of it has been sent.
LEMMA BeginSubframeUploads ==
  ASSUME UploadInv, BeginSubframe
  PROVE  UploadInv'
<1>yes. PICK yes : yes = TRUE
  OBVIOUS
<1> DEFINE d == [dev EXCEPT !.in_subframe = yes]
<1>1. /\ dev' = d /\ UNCHANGED <<gui, up, used>> /\ dev.running
      /\ sent' = (IF dev.at = 1 THEN {} ELSE sent) \cup {dev.active[dev.at]}
      /\ cuts' = IF dev.at = 1 THEN 0 ELSE cuts
      /\ mixed' = (mixed /\ ~FrameBegins)
  BY <1>yes DEF BeginSubframe
<1>2. DeviceShape(dev) /\ IsFiniteSet(sent) /\ cuts \in Nat
  BY DEF UploadInv
<1>3. d = [running |-> dev.running, at |-> dev.at, in_subframe |-> yes, pending |-> dev.pending,
           staged |-> dev.staged, active |-> dev.active]
  BY <1>2, DeviceFields DEF DeviceShape, DeviceRecord
<1> HIDE DEF d
<1>4. /\ DeviceShape(d) /\ d.running = dev.running /\ d.staged = dev.staged
      /\ d.active = dev.active /\ d.pending = dev.pending
  BY <1>2, <1>3 DEF DeviceShape, DeviceRecord
<1>5. IsFiniteSet(sent') /\ cuts' \in Nat
  <2>1. CASE dev.at = 1
    BY <1>1, <2>1, FS_EmptySet, FS_AddElement
  <2>2. CASE dev.at # 1
    BY <1>1, <1>2, <2>2, FS_AddElement
  <2>3. QED
    BY <2>1, <2>2
<1>6. BuffersWhole'
  <2> SUFFICES ASSUME ~mixed'
               PROVE  /\ Whole(dev.active)
                      /\ dev.pending /\ dev.running => Whole(dev.staged)
                      /\ FrameMade'
    BY <1>1, <1>4 DEF BuffersWhole
  <2>1. Whole(dev.active) /\ (dev.pending /\ dev.running => Whole(dev.staged))
    BY <1>1 DEF UploadInv, BuffersWhole, FrameBegins
  <2>2. dev.active[dev.at] = dev.active[1]
    BY <1>2, <2>1, SlotsWhole DEF DeviceShape
  <2>3. Cardinality(sent') <= 1 + cuts'
    <3>1. CASE dev.at = 1
      <4>1. sent' = {} \cup {dev.active[1]} /\ cuts' = 0
        BY <1>1, <3>1
      <4>2. IsFiniteSet({}) /\ Cardinality({}) = 0
        BY FS_EmptySet
      <4>3. QED
        BY <4>1, <4>2, OneMore
    <3>2. CASE dev.at # 1
      <4>1. ~mixed /\ MidFrame(dev)
        BY <1>1, <3>2 DEF FrameBegins, MidFrame
      <4>2. FrameMade
        BY <4>1 DEF UploadInv, BuffersWhole
      <4>3. sent' = sent \cup {dev.active[1]} /\ cuts' = cuts
        BY <1>1, <2>2, <3>2
      <4>4. QED
        BY <1>2, <4>1, <4>2, <4>3, OneMore DEF FrameMade
    <3>3. QED
      BY <3>1, <3>2
  <2>4. dev'.active[1] \in sent'
    BY <1>1, <1>4, <2>2
  <2>5. QED
    BY <2>1, <2>3, <2>4 DEF FrameMade
<1>7. QED
  BY <1>1, <1>4, <1>5, <1>6 DEF UploadInv

\* A subframe ended: at the end of the frame a pending upload is swapped in.
LEMMA EndSubframeUploads ==
  ASSUME UploadInv, EndSubframe
  PROVE  UploadInv'
<1>no. PICK no : no = FALSE
  OBVIOUS
<1> DEFINE a == [dev EXCEPT !.at = Following(dev.at)]
           d == [a EXCEPT !.in_subframe = no]
<1>1. /\ dev' = Boundary(d) /\ UNCHANGED <<gui, up, used, cuts, mixed>>
      /\ sent' = sent \cup {dev.active[dev.at]}
      /\ dev.running /\ MidFrame(dev)
  BY <1>no DEF EndSubframe, MidFrame
<1>2. DeviceShape(dev) /\ IsFiniteSet(sent) /\ cuts \in Nat
  BY DEF UploadInv
<1>3. Following(dev.at) \in Slots
  BY <1>2, SubframesAssumption DEF DeviceShape, Following, Slots
<1>4. a = [running |-> dev.running, at |-> Following(dev.at), in_subframe |-> dev.in_subframe,
           pending |-> dev.pending, staged |-> dev.staged, active |-> dev.active]
  BY <1>2, DeviceFields DEF DeviceShape, DeviceRecord
<1> HIDE DEF a
<1>5. d = [running |-> dev.running, at |-> Following(dev.at), in_subframe |-> no,
           pending |-> dev.pending, staged |-> dev.staged, active |-> dev.active]
  <2>1. /\ DeviceRecord(a) /\ a.running = dev.running /\ a.at = Following(dev.at)
        /\ a.pending = dev.pending /\ a.staged = dev.staged /\ a.active = dev.active
    BY <1>4 DEF DeviceRecord
  <2>2. d = [running |-> a.running, at |-> a.at, in_subframe |-> no,
             pending |-> a.pending, staged |-> a.staged, active |-> a.active]
    BY <2>1, DeviceFields
  <2> HIDE DEF d
  <2>3. QED
    BY <2>1, <2>2
<1> HIDE DEF d
<1>6. /\ DeviceShape(d) /\ d.staged = dev.staged /\ d.active = dev.active
      /\ d.pending = dev.pending /\ d.running = dev.running
      /\ d.at = Following(dev.at) /\ d.in_subframe = no
  BY <1>2, <1>3, <1>5 DEF DeviceShape, DeviceRecord
<1>7. /\ DeviceShape(dev') /\ dev'.staged = dev.staged /\ dev'.running = dev.running
      /\ \/ dev'.active = dev.active /\ dev'.pending = dev.pending
         \/ /\ dev'.active = dev.staged /\ dev'.pending = FALSE /\ dev.pending
            /\ ~MidFrame(dev')
  <2>1. CASE d.at = 1 /\ d.pending
    BY <1>no, <1>1, <1>6, <2>1, SwappedFacts DEF Boundary, SamePlace, MidFrame
  <2>2. CASE ~(d.at = 1 /\ d.pending)
    BY <1>1, <1>6, <2>2 DEF Boundary
  <2>3. QED
    BY <2>1, <2>2
<1>8. IsFiniteSet(sent')
  BY <1>1, <1>2, FS_AddElement
<1>9. BuffersWhole'
  <2> SUFFICES ASSUME ~mixed'
               PROVE  /\ Whole(dev'.active)
                      /\ dev'.pending /\ dev'.running => Whole(dev'.staged)
                      /\ FrameMade'
    BY DEF BuffersWhole
  <2>1. Whole(dev.active) /\ (dev.pending /\ dev.running => Whole(dev.staged)) /\ FrameMade
    BY <1>1 DEF UploadInv, BuffersWhole
  <2>2. sent' = sent \cup {dev.active[1]}
    BY <1>1, <1>2, <2>1, SlotsWhole DEF DeviceShape
  <2>3. Cardinality(sent') <= 1 + cuts
    BY <1>1, <1>2, <2>1, <2>2, OneMore DEF FrameMade
  <2>4. MidFrame(dev') => dev'.active[1] \in sent'
    BY <1>7, <2>2
  <2>5. FrameMade'
    BY <1>1, <2>3, <2>4 DEF FrameMade, MidFrame
  <2>6. QED
    BY <1>1, <1>7, <2>1, <2>5
<1>10. QED
  BY <1>1, <1>2, <1>7, <1>8, <1>9 DEF UploadInv

\* The GUI puts its next step on the line.
LEMMA SendKeepsUploads ==
  ASSUME IInv, UploadInv, SendStep \/ SendRequest
  PROVE  UploadInv'
<1> DEFINE c == Command(Head(gui.script))
<1>1. /\ gui.script # <<>> /\ up' = Append(up, c)
      /\ UNCHANGED <<dev, used, sent, cuts, mixed>>
  BY DEF SendStep, SendRequest
<1>2. gui'.script = Tail(gui.script)
  <2>1. gui = [script |-> gui.script, awaiting |-> gui.awaiting, owed |-> gui.owed,
               sent |-> gui.sent, engineering |-> gui.engineering]
    BY DEF IInv, Shapes
  <2>2. CASE SendStep
    <3>1. gui' = [gui EXCEPT !.script = Tail(gui.script), !.sent = gui.sent + 1]
      BY <2>2 DEF SendStep
    <3>2. QED
      BY <2>1, <3>1
  <2>3. CASE SendRequest
    <3> DEFINE id == gui.sent + 1
    <3>1. gui' = [gui EXCEPT !.script = Tail(gui.script), !.sent = id, !.awaiting = id,
                             !.owed = Owed]
      BY <2>3 DEF SendRequest
    <3> HIDE DEF id
    <3>2. QED
      BY <2>1, <3>1, Requesting
  <2>4. QED
    BY <2>2, <2>3
<1>3. c.version = used.uploads /\ c.cmd = Head(gui.script).cmd /\ c.sf = Head(gui.script).sf
  BY DEF Command
<1> HIDE DEF c
<1>4. IsSequence(up) /\ IsSequence(gui.script)
  BY DEF IInv, QueuesOK, UploadInv
<1>5. CommitsWhole(up', gui'.script, used.uploads, dev.staged)
  BY <1>1, <1>2, <1>3, <1>4, WholeWhenSent DEF UploadInv
<1>6. IsSequence(gui'.script)
  BY <1>1, <1>2, <1>4, SequenceAfter
<1>7. QED
  BY <1>1, <1>5, <1>6 DEF UploadInv, BuffersWhole, FrameMade, MidFrame

\* The GUI begins a script.
LEMMA BeginKeepsUploads ==
  ASSUME IInv, UploadInv, Idle, NEW script, Complete(script), gui'.script = script,
         UNCHANGED <<up, dev, sent, cuts, mixed>>
  PROVE  UploadInv'
<1>1. gui.script = <<>> /\ IsSequence(up)
  BY DEF Idle, IInv, QueuesOK
<1>2. CommitsWhole(up, script, used.uploads', dev.staged)
  BY <1>1, WholeWhenBegun DEF UploadInv
<1>3. IsSequence(script)
  BY DEF Complete
<1>4. QED
  BY <1>2, <1>3 DEF UploadInv, BuffersWhole, FrameMade, MidFrame

\* Nothing is uploaded in the beginning.
LEMMA InitUploads == Init => UploadInv
<1> SUFFICES ASSUME Init PROVE UploadInv
  OBVIOUS
<1> DEFINE zero == [s \in Slots |-> 0]
<1>no. PICK no : no = FALSE
  OBVIOUS
<1>1. /\ gui.script = <<>> /\ up = <<>> /\ sent = {} /\ cuts = 0
      /\ dev = [running |-> no, at |-> 1, in_subframe |-> no, pending |-> no,
                staged |-> zero, active |-> zero]
  BY <1>no DEF Init
<1>2. DOMAIN zero = Slots /\ Whole(zero) /\ 1 \in Slots
  BY SubframesAssumption DEF Slots, Whole
<1> HIDE DEF zero
<1>3. DeviceShape(dev) /\ Whole(dev.active) /\ dev.pending = FALSE /\ ~MidFrame(dev)
  BY <1>no, <1>1, <1>2 DEF DeviceShape, DeviceRecord, MidFrame
<1>4. IsFiniteSet(sent) /\ cuts \in Nat /\ BuffersWhole
  <2>1. IsFiniteSet(sent) /\ Cardinality(sent) = 0
    BY <1>1, FS_EmptySet
  <2>2. FrameMade
    BY <1>1, <1>3, <2>1 DEF FrameMade
  <2>3. QED
    BY <1>1, <1>3, <2>1, <2>2 DEF BuffersWhole
<1>5. IsSequence(gui.script)
  BY <1>1, EmptySeq DEF IsSequence
<1>6. Len(up) = 0 /\ Len(gui.script) = 0
  BY <1>1
<1>7. CommitsWhole(up, gui.script, used.uploads, dev.staged)
  BY <1>6 DEF CommitsWhole
<1>8. QED
  BY <1>3, <1>4, <1>5, <1>7 DEF UploadInv

\* Every step keeps uploads complete up to their COMMIT and the active frame whole.
LEMMA NextUploads == IInv /\ UploadInv /\ [Next]_vars => UploadInv'
<1> SUFFICES ASSUME IInv, UploadInv, [Next]_vars PROVE UploadInv'
  OBVIOUS
<1>1. DOMAIN gui = {"script", "awaiting", "owed", "sent", "engineering"}
  BY DEF IInv, Shapes
<1>2. ASSUME NEW script, Complete(script), NEW engineering, User(script, engineering)
      PROVE  UploadInv'
  <2>1. Idle /\ gui' = [gui EXCEPT !.script = script, !.engineering = engineering]
        /\ UNCHANGED <<up, dev, sent, cuts, mixed>>
    BY <1>2 DEF User, Begin
  <2>2. gui'.script = script
    BY <1>1, <2>1
  <2>3. QED
    BY <1>2, <2>1, <2>2, BeginKeepsUploads
<1>3. CASE StartStream \/ StopStream \/ ResetDevice
  BY <1>2, <1>3, ScriptsComplete DEF StartStream, StopStream, ResetDevice
<1>4. CASE SetDeviceMode \/ InjectFault \/ SetSignalSource
  BY <1>2, <1>4, ScriptsComplete, CompleteSignals DEF SetDeviceMode, InjectFault, SetSignalSource
<1>5. CASE UploadNext
  <2>1. Idle /\ gui' = [gui EXCEPT !.script = Upload(FALSE)]
        /\ UNCHANGED <<up, dev, sent, cuts, mixed>>
    BY <1>5 DEF UploadNext
  <2>2. gui'.script = Upload(FALSE)
    BY <1>1, <2>1
  <2>3. QED
    BY <2>1, <2>2, CompleteUpload, BeginKeepsUploads
<1>6. CASE HandleArrival \/ ReadItem \/ TakeReply \/ UNCHANGED vars
  <2>1. gui'.script = gui.script /\ UNCHANGED <<up, dev, used, sent, cuts, mixed>>
    BY <1>1, <1>6 DEF HandleArrival, ReadItem, TakeReply, vars
  <2>2. QED
    BY <2>1 DEF UploadInv, BuffersWhole, FrameMade, MidFrame
<1>7. CASE ReplyLate
  <2>1. gui' = [gui EXCEPT !.awaiting = 0, !.script = <<>>]
        /\ UNCHANGED <<up, dev, sent, cuts, mixed>>
    BY <1>7 DEF ReplyLate
  <2>2. gui'.script = <<>>
    BY <1>1, <2>1
  <2>3. IsSequence(up) /\ IsSequence(gui.script)
    BY DEF IInv, QueuesOK, UploadInv
  <2>4. CommitsWhole(up, <<>>, used'.uploads, dev.staged)
    BY <2>3, WholeWhenGivenUp DEF UploadInv
  <2>5. IsSequence(<<>>)
    BY EmptySeq DEF IsSequence
  <2>6. QED
    BY <2>1, <2>2, <2>4, <2>5 DEF UploadInv, BuffersWhole, FrameMade, MidFrame
<1>8. QED
  BY <1>3, <1>4, <1>5, <1>6, <1>7, SendKeepsUploads, HandleKeepsUploads,
     BeginSubframeUploads, EndSubframeUploads
  DEF Next

\* A frame on the wire is made of one upload and at most one more for each
\* COMMIT carried out by a device stopped in its middle, unless a frame was
\* staged over while it waited to be swapped in: for any number of subframes,
\* whatever timed out, was reset or was stopped in the middle of an upload.
THEOREM FramesSentWhole == Spec => []FrameSentWhole
<1>1. Init => IInv /\ UploadInv
  BY InitOwn, InitUploads
<1>2. (IInv /\ UploadInv) /\ [Next]_vars => (IInv /\ UploadInv)'
  BY NextOwn, NextUploads
<1>3. IInv /\ UploadInv => FrameSentWhole
  BY DEF UploadInv, BuffersWhole, FrameMade, FrameSentWhole
<1>4. QED
  BY <1>1, <1>2, <1>3, PTL DEF Spec
-----------------------------------------------------------------------------
(***************************************************************************)
(* The life cycle of the connection, SerialService, for every bound on     *)
(* losses, timeouts, the queue and the chunks in flight.  `device' stands  *)
(* for its variable dev.                                                   *)
(***************************************************************************)
CONSTANTS MaxLosses, MaxQueue, MaxChunks

VARIABLES pump, device, budget

L == INSTANCE SerialService WITH dev <- device

\* What SerialService assumes of its bounds.
Limits ==
  {MaxLosses, MaxTimeouts} \subseteq Nat /\ {MaxQueue, MaxChunks} \subseteq Nat \ {0}

\* The kinds of the events a source puts.
Kinds == {"SUBFRAME", "DISCONNECTED", "FINISHED"}

Services ==
  [conn : L!Connections, source : {"none", "serial", "replay"},
   want_connected : BOOLEAN, want_streaming : BOOLEAN, live : BOOLEAN]

Objects ==
  [queue : Seq(Kinds), alive : BOOLEAN, streaming : BOOLEAN, text : BOOLEAN,
   linked : BOOLEAN, chunks : Nat]

TypeOK ==
  /\ svc \in Services
  /\ obj \in Objects /\ Len(obj.queue) <= MaxQueue
  /\ pump \in {"idle", "draining"}

\* A frame that outlives its source is live only in the wish to stream again.
OrphanWanted == svc.source = "none" /\ svc.live => svc.want_streaming

\* The inductive invariant: TypeOK for the fields, and the two properties, which
\* need OrphanWanted when a reconnect makes a source again.
ServiceInv == TypeOK /\ StateMatchesSource /\ LiveFrameOwned /\ OrphanWanted

-----------------------------------------------------------------------------
(* Queues *)

Holds(q, kind) == \E i \in DOMAIN q : q[i] = kind

\* What an event added to the queue leaves there.
LEMMA AppendHolds ==
  ASSUME NEW q \in Seq(Kinds), NEW kind \in Kinds
  PROVE  /\ Append(q, kind) \in Seq(Kinds)
         /\ Len(Append(q, kind)) = Len(q) + 1
         /\ Holds(Append(q, kind), kind)
         /\ \A k : Holds(q, k) => Holds(Append(q, kind), k)
  BY AppendProperties DEF Holds

\* What an event taken from the queue leaves there.
LEMMA TailHolds ==
  ASSUME NEW q \in Seq(Kinds), q # <<>>
  PROVE  /\ Tail(q) \in Seq(Kinds)
         /\ Len(Tail(q)) = Len(q) - 1
         /\ \A k : Holds(q, k) /\ k # Head(q) => Holds(Tail(q), k)
<1>1. /\ Tail(q) \in Seq(Kinds) /\ Len(Tail(q)) = Len(q) - 1
      /\ \A i \in 1 .. Len(Tail(q)) : Tail(q)[i] = q[i + 1]
      /\ Head(q) = q[1] /\ Len(q) \in Nat \ {0}
  BY HeadTailProperties, LenProperties
<1>2. ASSUME NEW k, NEW i \in DOMAIN q, q[i] = k, k # Head(q)
      PROVE  Holds(Tail(q), k)
  <2>1. i \in 2 .. Len(q)
    BY <1>1, <1>2
  <2>2. i - 1 \in DOMAIN Tail(q) /\ Tail(q)[i - 1] = q[i]
    BY <1>1, <2>1
  <2>3. QED
    BY <1>2, <2>2 DEF Holds
<1>3. QED
  BY <1>1, <1>2 DEF Holds


-----------------------------------------------------------------------------
(* The ways a step may change the service and its source *)

\* The records, field by field: the steps below say each field once.
LEMMA Fields ==
  ASSUME TypeOK
  PROVE  /\ svc = L!Service(svc.conn, svc.source, svc.want_connected, svc.want_streaming, svc.live)
         /\ obj = L!Object(obj.queue, obj.alive, obj.streaming, obj.text, obj.linked, obj.chunks)
  BY DEF TypeOK, Services, Objects, L!Service, L!Object

\* The source is given up: its queue no longer matters.
LEMMA GivenUp ==
  ASSUME NEW conn \in {"DISCONNECTED", "RECONNECTING"},
         NEW wantConnected \in BOOLEAN, NEW wantStreaming \in BOOLEAN,
         conn = "RECONNECTING" => wantConnected,
         svc' = L!Service(conn, "none", wantConnected, wantStreaming, FALSE),
         obj' \in Objects, Len(obj'.queue) <= MaxQueue,
         pump' \in {"idle", "draining"}
  PROVE  ServiceInv'
<1>1. TypeOK'
  BY DEF TypeOK, Services, L!Connections, L!Service
<1>2. SourceAgrees'
  BY DEF SourceAgrees, L!Service
<1>3. LossNeverSilent' /\ StopTakesHold' /\ TextModeAgrees'
  BY DEF LossNeverSilent, StopTakesHold, TextModeAgrees, L!Service
<1>4. LiveFrameOwned' /\ OrphanWanted'
  BY DEF LiveFrameOwned, OrphanWanted, L!Service
<1>5. QED
  BY <1>1, <1>2, <1>3, <1>4 DEF ServiceInv, StateMatchesSource

\* A serial source takes the place of none.
LEMMA Attached ==
  ASSUME Limits, NEW conn \in {"CONNECTED", "STREAMING"},
         NEW wantConnected \in BOOLEAN, NEW wantStreaming \in BOOLEAN, NEW live \in BOOLEAN,
         NEW streaming \in BOOLEAN, NEW text \in BOOLEAN, text = ~streaming,
         NEW linked \in BOOLEAN,
         wantConnected, conn = "STREAMING" => wantStreaming, live => wantStreaming,
         svc' = L!Service(conn, "serial", wantConnected, wantStreaming, live),
         obj' = L!Object(<<>>, TRUE, streaming, text, linked, 0),
         pump' \in {"idle", "draining"}
  PROVE  ServiceInv'
<1>1. TypeOK'
  BY EmptySeq, Limits DEF Limits, TypeOK, Services, Objects, L!Connections, L!Service, L!Object
<1>2. SourceAgrees'
  BY DEF SourceAgrees, L!Service
<1>3. LossNeverSilent' /\ StopTakesHold'
  BY DEF LossNeverSilent, StopTakesHold, L!Service, L!Object
<1>4. TextModeAgrees'
  BY DEF TextModeAgrees, L!Object
<1>5. LiveFrameOwned' /\ OrphanWanted'
  BY DEF LiveFrameOwned, OrphanWanted, L!Service
<1>6. QED
  BY <1>1, <1>2, <1>3, <1>4, <1>5 DEF ServiceInv, StateMatchesSource

\* The source puts an event: a report excuses every change that comes with it.
LEMMA EventPut ==
  ASSUME Limits, ServiceInv, NEW kind \in Kinds, Len(obj.queue) < MaxQueue,
         NEW alive \in BOOLEAN, NEW streaming \in BOOLEAN, NEW text \in BOOLEAN,
         NEW linked \in BOOLEAN, NEW chunks \in Nat,
         \/ kind = "DISCONNECTED" /\ (svc.source = "replay" => alive = obj.alive)
         \/ kind = "FINISHED" /\ svc.source = "replay"
         \/ alive = obj.alive /\ streaming = obj.streaming /\ text = obj.text,
         UNCHANGED <<svc, pump>>,
         obj' = L!Object(Append(obj.queue, kind), alive, streaming, text, linked, chunks)
  PROVE  ServiceInv'
<1>1. /\ obj.queue \in Seq(Kinds) /\ Len(obj.queue) \in Nat
      /\ obj'.queue = Append(obj.queue, kind)
      /\ obj'.alive = alive /\ obj'.streaming = streaming /\ obj'.text = text
  BY LenProperties DEF ServiceInv, TypeOK, Objects, L!Object
<1>2. /\ obj'.queue \in Seq(Kinds) /\ Len(obj'.queue) = Len(obj.queue) + 1
      /\ Holds(obj'.queue, kind)
      /\ \A k : Holds(obj.queue, k) => Holds(obj'.queue, k)
  BY <1>1, AppendHolds
<1>3. TypeOK'
  BY <1>1, <1>2, Limits DEF Limits, ServiceInv, TypeOK, Objects, L!Object
<1>4. Pending(kind)' /\ \A k : Pending(k) => Pending(k)'
  BY <1>2 DEF Pending, Holds
<1>5. SourceAgrees'
  BY DEF ServiceInv, StateMatchesSource, SourceAgrees
<1>6. LossNeverSilent'
  BY <1>1, <1>4 DEF ServiceInv, StateMatchesSource, LossNeverSilent, SourceAgrees
<1>7. StopTakesHold'
  BY <1>4 DEF ServiceInv, StateMatchesSource, StopTakesHold
<1>8. TextModeAgrees'
  BY <1>1, <1>4 DEF ServiceInv, StateMatchesSource, TextModeAgrees
<1>9. LiveFrameOwned' /\ OrphanWanted'
  BY <1>4 DEF ServiceInv, LiveFrameOwned, OrphanWanted
<1>10. QED
  BY <1>3, <1>5, <1>6, <1>7, <1>8, <1>9 DEF ServiceInv, StateMatchesSource

\* Nothing but the link and the pipe behind the source changes.
LEMMA LinkOnly ==
  ASSUME ServiceInv, NEW linked \in BOOLEAN, NEW chunks \in Nat,
         svc' = svc, pump' \in {"idle", "draining"},
         obj' = L!Object(obj.queue, obj.alive, obj.streaming, obj.text, linked, chunks)
  PROVE  ServiceInv'
<1>1. /\ obj'.queue = obj.queue /\ obj'.alive = obj.alive
      /\ obj'.streaming = obj.streaming /\ obj'.text = obj.text
  BY DEF L!Object
<1>2. TypeOK'
  BY DEF ServiceInv, TypeOK, Objects, L!Object
<1>3. \A k : Pending(k)' <=> Pending(k)
  BY <1>1 DEF Pending
<1>4. SourceAgrees' /\ LossNeverSilent'
  BY <1>1, <1>3 DEF ServiceInv, StateMatchesSource, SourceAgrees, LossNeverSilent
<1>5. StopTakesHold' /\ TextModeAgrees'
  BY <1>1, <1>3 DEF ServiceInv, StateMatchesSource, StopTakesHold, TextModeAgrees
<1>6. LiveFrameOwned' /\ OrphanWanted'
  BY <1>3 DEF ServiceInv, LiveFrameOwned, OrphanWanted
<1>7. QED
  BY <1>2, <1>4, <1>5, <1>6 DEF ServiceInv, StateMatchesSource

\* The pump forgets the queue of a source that was torn down.
LEMMA Forgotten ==
  ASSUME Limits, ServiceInv, svc.source = "none", svc' = svc, obj' = L!NoObject,
         pump' \in {"idle", "draining"}
  PROVE  ServiceInv'
<1>1. L!NoObject \in Objects /\ Len(L!NoObject.queue) <= MaxQueue
  BY EmptySeq, Limits DEF Limits, L!NoObject, L!Object, Objects
<1>2. TypeOK'
  BY <1>1 DEF ServiceInv, TypeOK
<1>3. SourceAgrees' /\ LossNeverSilent'
  BY DEF ServiceInv, StateMatchesSource, SourceAgrees, LossNeverSilent
<1>4. StopTakesHold' /\ TextModeAgrees'
  BY DEF ServiceInv, StateMatchesSource, SourceAgrees, StopTakesHold, TextModeAgrees
<1>5. LiveFrameOwned' /\ OrphanWanted'
  BY DEF ServiceInv, LiveFrameOwned, OrphanWanted
<1>6. QED
  BY <1>2, <1>3, <1>4, <1>5 DEF ServiceInv, StateMatchesSource

\* Nothing the invariant reads changes.
LEMMA Unmoved == ServiceInv /\ UNCHANGED <<svc, obj, pump>> => ServiceInv'
  BY DEF ServiceInv, TypeOK, StateMatchesSource, SourceAgrees, LossNeverSilent,
       StopTakesHold,
         TextModeAgrees, LiveFrameOwned, OrphanWanted, Pending

-----------------------------------------------------------------------------
(* The steps *)

\* Commands of the user preserve the invariant.
LEMMA UserSteps ==
  ASSUME Limits
  PROVE  ServiceInv /\ L!User => ServiceInv'
<1> SUFFICES ASSUME ServiceInv, L!User PROVE ServiceInv'
  OBVIOUS
<1> USE DEF ServiceInv
<1>1. CASE L!Connect
  <2>1. svc' = L!Service("CONNECTED", "serial", TRUE, svc.want_streaming, svc.live)
        /\ obj' = L!Object(<<>>, TRUE, FALSE, TRUE, TRUE, 0) /\ pump' = "idle"
    BY <1>1 DEF L!Connect, L!FreshSerial
  <2>2. svc.source = "none"
    BY <1>1 DEF L!Connect, TypeOK, Services, StateMatchesSource, SourceAgrees
  <2>3. svc.live => svc.want_streaming
    BY <2>2 DEF OrphanWanted
  <2>4. svc.want_streaming \in BOOLEAN /\ svc.live \in BOOLEAN
    BY DEF TypeOK, Services
  <2>5. QED
    BY <2>1, <2>3, <2>4, Attached
<1>2. CASE L!Disconnect
  <2>1. svc' = L!Service("DISCONNECTED", "none", FALSE, FALSE, FALSE)
        /\ obj' = L!NoObject /\ pump' = "idle"
    BY <1>2 DEF L!Disconnect, L!Disconnected, L!Finished, L!Detached, TypeOK, Services, L!Service
  <2>2. L!NoObject \in Objects /\ Len(L!NoObject.queue) <= MaxQueue
    BY EmptySeq, Limits DEF Limits, L!NoObject, L!Object, Objects
  <2>3. QED
    BY <2>1, <2>2, GivenUp
<1>3. CASE L!StartStream
  <2>1. svc' = L!Service("STREAMING", "serial", svc.want_connected, TRUE, svc.live)
        /\ obj' = L!Object(obj.queue, obj.alive, TRUE, FALSE, obj.linked, obj.chunks)
        /\ pump' = "idle"
    BY <1>3, Fields DEF L!StartStream, L!Service, L!Object
  <2>2. svc.source = "serial" /\ svc.want_connected
    BY <1>3 DEF L!StartStream, StateMatchesSource, SourceAgrees
  <2>3. TypeOK'
    BY <2>1 DEF TypeOK, Services, Objects, L!Connections, L!Service, L!Object
  <2>4. \A k : Pending(k)' <=> Pending(k)
    BY <2>1 DEF Pending, L!Object
  <2>5. SourceAgrees'
    BY <2>1, <2>2 DEF SourceAgrees, L!Service
  <2>6. LossNeverSilent'
    BY <2>1, <2>2, <2>4 DEF StateMatchesSource, LossNeverSilent, L!Service, L!Object
  <2>7. StopTakesHold' /\ TextModeAgrees'
    BY <2>1 DEF StopTakesHold, TextModeAgrees, L!Service, L!Object
  <2>8. LiveFrameOwned' /\ OrphanWanted'
    BY <2>1 DEF LiveFrameOwned, OrphanWanted, L!Service
  <2>9. QED
    BY <2>3, <2>5, <2>6, <2>7, <2>8 DEF StateMatchesSource
<1>4. CASE L!StartStreamFails
  <2>1. CASE obj.linked
    <3>1. UNCHANGED <<svc, obj, pump>>
      BY <1>4, <2>1 DEF L!StartStreamFails, L!TimesOut
    <3>2. QED
      BY <3>1, Unmoved
  <2>2. CASE ~obj.linked
    <3>1. Len(obj.queue) < MaxQueue /\ svc.source = "serial" /\ UNCHANGED <<svc, pump>>
          /\ \E streaming, text \in BOOLEAN :
               obj' = L!Object(Append(obj.queue, "DISCONNECTED"), obj.alive, streaming, text,
                             obj.linked, obj.chunks)
      BY <1>4, <2>2, Fields DEF L!StartStreamFails, L!TimesOut, L!Emitted, L!Object, TypeOK, Objects
    <3>2. obj.alive \in BOOLEAN /\ obj.linked \in BOOLEAN /\ obj.chunks \in Nat
          /\ "DISCONNECTED" \in Kinds
      BY DEF TypeOK, Objects, Kinds
    <3>3. QED
      BY <3>1, <3>2, EventPut
  <2>3. QED
    BY <2>1, <2>2
<1>5. CASE L!StopStream
  <2>1. /\ svc.conn = "STREAMING" /\ svc.source = "serial" /\ svc.want_connected
        /\ Len(obj.queue) < MaxQueue /\ UNCHANGED pump
    BY <1>5 DEF L!StopStream, StateMatchesSource, SourceAgrees
  <2>2. CASE obj.linked \/ ~obj.streaming
    <3>1. svc' = L!Service("CONNECTED", "serial", svc.want_connected, FALSE, FALSE)
      BY <1>5, <2>1, <2>2, Fields DEF L!StopStream, L!Finished, L!Service
    <3>2. obj' = obj \/ obj' = L!Object(obj.queue, obj.alive, FALSE, TRUE, obj.linked, obj.chunks)
      BY <1>5, <2>2, Fields DEF L!StopStream, L!StreamStopped, L!AfterSend, L!Object
    <3>3. TypeOK'
      <4>1. svc' \in Services
        BY <2>1, <3>1 DEF TypeOK, Services, L!Connections, L!Service
      <4>2. CASE obj' = obj
        BY <2>1, <4>1, <4>2 DEF TypeOK
      <4>3. CASE obj' = L!Object(obj.queue, obj.alive, FALSE, TRUE, obj.linked, obj.chunks)
        <5>1. obj' \in Objects /\ obj'.queue = obj.queue
          BY <4>3 DEF TypeOK, Objects, L!Object
        <5>2. QED
          BY <2>1, <4>1, <5>1 DEF TypeOK
      <4>4. QED
        BY <3>2, <4>2, <4>3
    <3>4. /\ obj'.queue = obj.queue /\ obj'.alive = obj.alive
          /\ \/ obj'.streaming = obj.streaming /\ obj'.text = obj.text
             \/ obj'.streaming = FALSE /\ obj'.text = TRUE
      <4>1. CASE obj' = obj
        BY <4>1
      <4>2. CASE obj' = L!Object(obj.queue, obj.alive, FALSE, TRUE, obj.linked, obj.chunks)
        BY <4>2 DEF L!Object
      <4>3. QED
        BY <3>2, <4>1, <4>2
    <3>5. \A k : Pending(k)' <=> Pending(k)
      BY <3>4 DEF Pending
    <3>6. SourceAgrees' /\ StopTakesHold'
      BY <2>1, <3>1 DEF SourceAgrees, StopTakesHold, L!Service
    <3>7. LossNeverSilent'
      BY <2>1, <3>1, <3>4, <3>5 DEF StateMatchesSource, LossNeverSilent, L!Service
    <3>8. TextModeAgrees'
      BY <2>1, <3>4, <3>5 DEF StateMatchesSource, TextModeAgrees
    <3>9. LiveFrameOwned' /\ OrphanWanted'
      BY <3>1 DEF LiveFrameOwned, OrphanWanted, L!Service
    <3>10. QED
      BY <3>3, <3>6, <3>7, <3>8, <3>9 DEF StateMatchesSource
  <2>3. CASE ~obj.linked /\ obj.streaming
    <3>1. svc' = L!Service("STREAMING", "serial", svc.want_connected, FALSE, svc.live)
      BY <1>5, <2>1, <2>3, Fields DEF L!StopStream, L!Service
    <3>2. obj' = L!Object(Append(obj.queue, "DISCONNECTED"), obj.alive, FALSE, TRUE,
                        obj.linked, obj.chunks)
      BY <1>5, <2>3, Fields DEF L!StopStream, L!StreamStopped, L!AfterSend, L!Emitted, L!Object
    <3>3. obj.queue \in Seq(Kinds) /\ "DISCONNECTED" \in Kinds
      BY DEF TypeOK, Objects, Kinds
    <3>4. /\ obj'.queue \in Seq(Kinds) /\ Len(obj'.queue) <= MaxQueue
          /\ Holds(obj'.queue, "DISCONNECTED")
      BY <2>1, <3>2, <3>3, AppendHolds, LenProperties, Limits DEF Limits, L!Object
    <3>5. TypeOK'
      BY <2>1, <3>1, <3>2, <3>4 DEF TypeOK, Services, Objects, L!Connections, L!Service, L!Object
    <3>6. Pending("DISCONNECTED")'
      BY <3>4 DEF Pending, Holds
    <3>7. SourceAgrees'
      BY <2>1, <3>1 DEF SourceAgrees, L!Service
    <3>8. LossNeverSilent' /\ StopTakesHold' /\ TextModeAgrees'
      BY <3>1, <3>6 DEF LossNeverSilent, StopTakesHold, TextModeAgrees, L!Service
    <3>9. LiveFrameOwned' /\ OrphanWanted'
      BY <3>1, <3>6 DEF LiveFrameOwned, OrphanWanted, L!Service
    <3>10. QED
      BY <3>5, <3>7, <3>8, <3>9 DEF StateMatchesSource
  <2>4. QED
    BY <2>2, <2>3
<1>6. CASE L!SendCommand
  <2>1. /\ Len(obj.queue) < MaxQueue /\ UNCHANGED <<svc, pump>>
        /\ obj' = L!Object(Append(obj.queue, "DISCONNECTED"), obj.alive, obj.streaming, obj.text,
                         obj.linked, obj.chunks)
    BY <1>6, Fields DEF L!SendCommand, L!Emitted, L!Object
  <2>2. /\ obj.alive \in BOOLEAN /\ obj.streaming \in BOOLEAN /\ obj.text \in BOOLEAN
        /\ obj.linked \in BOOLEAN /\ obj.chunks \in Nat /\ "DISCONNECTED" \in Kinds
    BY DEF TypeOK, Objects, Kinds
  <2>3. QED
    BY <2>1, <2>2, EventPut
<1>7. CASE L!AttachReplay
  <2>1. obj' = L!Object(<<>>, TRUE, FALSE, TRUE, FALSE, 0) /\ pump' = "idle"
    BY <1>7 DEF L!AttachReplay, L!FreshReplay
  <2>2. svc' = L!Service("REPLAYING", "replay", svc.want_connected, svc.want_streaming, svc.live)
        \/ svc' = L!Service("REPLAYING", "replay", FALSE, FALSE, FALSE)
    BY <1>7, Fields DEF L!AttachReplay, L!Disconnected, L!Finished, L!Detached, L!Service
  <2>3. /\ svc.want_connected \in BOOLEAN /\ svc.want_streaming \in BOOLEAN
        /\ svc.live \in BOOLEAN /\ FALSE \in BOOLEAN
    BY DEF TypeOK, Services
  <2>4. PICK wantConnected \in BOOLEAN, wantStreaming \in BOOLEAN, live \in BOOLEAN :
          svc' = L!Service("REPLAYING", "replay", wantConnected, wantStreaming, live)
    BY <2>2, <2>3
  <2>5. /\ svc'.conn = "REPLAYING" /\ svc'.source = "replay" /\ svc' \in Services
        /\ obj' = L!FreshReplay /\ obj'.alive /\ obj'.queue = <<>>
    BY <2>1, <2>4 DEF Services, L!Connections, L!Service, L!FreshReplay, L!Object
  <2>6. L!FreshReplay \in Objects
    BY EmptySeq DEF L!FreshReplay, L!Object, Objects
  <2>7. TypeOK'
    <3>1. obj' \in Objects /\ svc' \in Services
      BY <2>5, <2>6
    <3>2. Len(<<>>) = 0 /\ 0 <= MaxQueue
      BY EmptySeq, Limits DEF Limits
    <3>3. Len(obj'.queue) <= MaxQueue
      BY <2>5, <3>2
    <3>4. QED
      BY <2>1, <3>1, <3>3 DEF TypeOK
  <2>8. SourceAgrees' /\ LossNeverSilent'
    BY <2>5 DEF SourceAgrees, LossNeverSilent
  <2>9. StopTakesHold' /\ TextModeAgrees'
    BY <2>5 DEF StopTakesHold, TextModeAgrees
  <2>10. LiveFrameOwned' /\ OrphanWanted'
    BY <2>5 DEF LiveFrameOwned, OrphanWanted
  <2>11. QED
    BY <2>7, <2>8, <2>9, <2>10 DEF StateMatchesSource
<1>8. CASE L!StopReplay
  <2>1. svc' = L!Service("DISCONNECTED", "none", svc.want_connected, svc.want_streaming, FALSE)
        /\ obj' = L!NoObject /\ pump' = "idle"
    BY <1>8, Fields DEF L!StopReplay, L!ReplayDetached, L!Finished, L!Detached, L!Service
  <2>2. L!NoObject \in Objects /\ Len(L!NoObject.queue) <= MaxQueue
    BY EmptySeq, Limits DEF Limits, L!NoObject, L!Object, Objects
  <2>3. svc.want_connected \in BOOLEAN /\ svc.want_streaming \in BOOLEAN
    BY DEF TypeOK, Services
  <2>4. QED
    BY <2>1, <2>2, <2>3, GivenUp
<1>9. QED
  BY <1>1, <1>2, <1>3, <1>4, <1>5, <1>6, <1>7, <1>8 DEF L!User

-----------------------------------------------------------------------------
(* Events *)

\* A subframe, handled by the service that is still attached or by one that
\* has lost the source the subframe came from.
LEMMA SubframeStep ==
  ASSUME Limits, ServiceInv, pump = "draining", obj.queue # <<>>, Head(obj.queue) = "SUBFRAME",
         UNCHANGED pump, NEW uploads \in BOOLEAN, L!HandleSubframe(uploads)
  PROVE  ServiceInv'
<1> DEFINE rest == Tail(obj.queue)
           wanted == svc.want_streaming \/ svc.conn = "REPLAYING"
<1>1. /\ svc' = L!Service(svc.conn, svc.source, svc.want_connected, svc.want_streaming, wanted)
      /\ \/ obj' = L!Object(rest, obj.alive, obj.streaming, obj.text, obj.linked, obj.chunks)
         \/ obj' = L!Object(Append(rest, "DISCONNECTED"), obj.alive, obj.streaming, obj.text,
                          obj.linked, obj.chunks)
  BY Fields DEF ServiceInv, L!HandleSubframe, L!AfterSend, L!Emitted, L!Service, L!Object
<1>2. /\ obj.queue \in Seq(Kinds) /\ "DISCONNECTED" \in Kinds
      /\ Len(obj.queue) \in Nat /\ Len(obj.queue) <= MaxQueue
  BY LenProperties DEF ServiceInv, TypeOK, Objects, Kinds
<1>3. /\ rest \in Seq(Kinds) /\ Len(rest) = Len(obj.queue) - 1
      /\ \A k : Holds(obj.queue, k) /\ k # "SUBFRAME" => Holds(rest, k)
  BY <1>2, TailHolds
<1> HIDE DEF rest, wanted
<1>4. /\ Append(rest, "DISCONNECTED") \in Seq(Kinds)
      /\ Len(Append(rest, "DISCONNECTED")) = Len(obj.queue)
      /\ \A k : Holds(rest, k) => Holds(Append(rest, "DISCONNECTED"), k)
  BY <1>2, <1>3, AppendHolds
<1>5. PICK q \in Seq(Kinds) :
        /\ obj' = L!Object(q, obj.alive, obj.streaming, obj.text, obj.linked, obj.chunks)
        /\ Len(q) <= MaxQueue
        /\ \A k : Holds(obj.queue, k) /\ k # "SUBFRAME" => Holds(q, k)
  <2>1. CASE obj' = L!Object(rest, obj.alive, obj.streaming, obj.text, obj.linked, obj.chunks)
    <3>1. Len(rest) <= MaxQueue
      BY <1>2, <1>3, Limits DEF Limits
    <3>2. QED
      BY <1>3, <2>1, <3>1
  <2>2. CASE obj' = L!Object(Append(rest, "DISCONNECTED"), obj.alive, obj.streaming, obj.text,
                           obj.linked, obj.chunks)
    BY <1>2, <1>3, <1>4, <2>2
  <2>3. QED
    BY <1>1, <2>1, <2>2
<1>6. /\ obj'.queue = q /\ obj'.alive = obj.alive
      /\ obj'.streaming = obj.streaming /\ obj'.text = obj.text
  BY <1>5 DEF L!Object
<1>7. TypeOK'
  <2>1. obj' \in Objects
    BY <1>5 DEF ServiceInv, TypeOK, Objects, L!Object
  <2>2. svc' \in Services
    BY <1>1 DEF ServiceInv, TypeOK, Services, L!Service, wanted
  <2>3. QED
    BY <1>5, <1>6, <2>1, <2>2 DEF ServiceInv, TypeOK
<1>8. \A k : Pending(k) /\ k # "SUBFRAME" => Pending(k)'
  BY <1>5, <1>6 DEF Pending, Holds
<1>9. SourceAgrees'
  BY <1>1 DEF ServiceInv, StateMatchesSource, SourceAgrees, L!Service
<1>10. LossNeverSilent'
  BY <1>1, <1>6, <1>8 DEF ServiceInv, StateMatchesSource, LossNeverSilent, L!Service
<1>11. StopTakesHold'
  BY <1>1, <1>8 DEF ServiceInv, StateMatchesSource, StopTakesHold, L!Service
<1>12. TextModeAgrees'
  BY <1>1, <1>6, <1>8 DEF ServiceInv, StateMatchesSource, TextModeAgrees, L!Service
<1>13. LiveFrameOwned' /\ OrphanWanted'
  BY <1>1 DEF ServiceInv, StateMatchesSource, SourceAgrees, LiveFrameOwned, OrphanWanted,
       L!Service,
              wanted
<1>14. QED
  BY <1>7, <1>9, <1>10, <1>11, <1>12, <1>13 DEF ServiceInv, StateMatchesSource

\* A loss, or the end of a replay: the source is torn down and the rest of
\* its queue is still handled.
LEMMA LossStep ==
  ASSUME Limits, ServiceInv, obj.queue # <<>>, UNCHANGED pump,
         L!HandleDisconnected \/ L!HandleReplayFinished
  PROVE  ServiceInv'
<1>1. obj' = L!Object(Tail(obj.queue), FALSE, obj.streaming, obj.text, FALSE, 0)
  BY Fields DEF ServiceInv, L!HandleDisconnected, L!HandleReplayFinished, L!Stopped, L!Object
<1>2. /\ obj.queue \in Seq(Kinds) /\ Len(obj.queue) \in Nat /\ Len(obj.queue) <= MaxQueue
  BY LenProperties DEF ServiceInv, TypeOK, Objects
<1>3. Tail(obj.queue) \in Seq(Kinds) /\ Len(Tail(obj.queue)) <= MaxQueue
  BY <1>2, TailHolds, Limits DEF Limits
<1>4. obj' \in Objects /\ Len(obj'.queue) <= MaxQueue
  BY <1>1, <1>3 DEF ServiceInv, TypeOK, Objects, L!Object
<1>5. pump' \in {"idle", "draining"} /\ svc.want_connected \in BOOLEAN
      /\ svc.want_streaming \in BOOLEAN
  BY DEF ServiceInv, TypeOK, Services
<1>6. CASE L!HandleDisconnected
  <2>1. svc' = L!Service(IF svc.want_connected THEN "RECONNECTING" ELSE "DISCONNECTED", "none",
                       svc.want_connected, svc.want_streaming, FALSE)
    BY <1>6, Fields DEF ServiceInv, L!HandleDisconnected, L!Finished, L!Detached, L!Service
  <2>2. CASE svc.want_connected
    BY <1>4, <1>5, <2>1, <2>2, GivenUp
  <2>3. CASE ~svc.want_connected
    BY <1>4, <1>5, <2>1, <2>3, GivenUp
  <2>4. QED
    BY <2>2, <2>3
<1>7. CASE L!HandleReplayFinished
  <2>1. svc' = L!Service("DISCONNECTED", "none", svc.want_connected, svc.want_streaming, FALSE)
    BY <1>7, Fields DEF ServiceInv, L!HandleReplayFinished, L!ReplayDetached, L!Finished,
         L!Detached, L!Service
  <2>2. QED
    BY <1>4, <1>5, <2>1, GivenUp
<1>8. QED
  BY <1>6, <1>7

\* So does every step of pump() and the retry at its end.
LEMMA PumpSteps ==
  ASSUME Limits
  PROVE  ServiceInv /\ L!Pump => ServiceInv'
<1> SUFFICES ASSUME ServiceInv, L!Pump PROVE ServiceInv'
  OBVIOUS
<1>1. /\ svc.conn \in L!Connections /\ svc.want_connected \in BOOLEAN
      /\ svc.want_streaming \in BOOLEAN /\ svc.live \in BOOLEAN
      /\ obj.linked \in BOOLEAN /\ obj.chunks \in Nat
  BY DEF ServiceInv, TypeOK, Services, Objects
<1>2. CASE L!PumpBegin \/ L!PumpEnd
  <2>1. svc' = svc /\ pump' \in {"idle", "draining"}
        /\ obj' = L!Object(obj.queue, obj.alive, obj.streaming, obj.text, obj.linked, obj.chunks)
    BY <1>2, Fields DEF ServiceInv, L!PumpBegin, L!PumpEnd
  <2>2. QED
    BY <1>1, <2>1, LinkOnly
<1>3. CASE L!HandleEvent
  <2>1. /\ pump = "draining" /\ obj.queue # <<>> /\ UNCHANGED pump
        /\ obj.queue \in Seq(Kinds)
    BY <1>3 DEF L!HandleEvent, ServiceInv, TypeOK, Objects
  <2>2. Head(obj.queue) \in Kinds
    BY <2>1, HeadTailProperties
  <2>3. CASE Head(obj.queue) = "SUBFRAME"
    <3>1. PICK uploads \in BOOLEAN : L!HandleSubframe(uploads)
      BY <1>3, <2>3 DEF L!HandleEvent
    <3>2. QED
      BY <2>1, <2>3, <3>1, SubframeStep
  <2>4. CASE Head(obj.queue) # "SUBFRAME"
    <3>1. L!HandleDisconnected \/ L!HandleReplayFinished
      BY <1>3, <2>2, <2>4 DEF L!HandleEvent, Kinds
    <3>2. QED
      BY <2>1, <3>1, LossStep
  <2>5. QED
    BY <2>3, <2>4
<1>4. CASE L!PumpLeaves \/ L!ReconnectFails
  <2>1. svc.source = "none" /\ svc' = svc /\ obj' = L!NoObject /\ pump' = "idle"
    BY <1>4 DEF L!PumpLeaves, L!ReconnectFails, L!ReconnectDue
  <2>2. QED
    BY <2>1, Forgotten
<1>5. CASE L!Reconnect \/ L!ReconnectWithoutStream
  <2>1. svc.live => svc.want_streaming
    BY <1>5 DEF L!Reconnect, L!ReconnectWithoutStream, L!ReconnectDue, ServiceInv, OrphanWanted
  <2>2. CASE L!Reconnect
    <3> DEFINE conn == IF svc.want_streaming THEN "STREAMING" ELSE "CONNECTED"
    <3>1. /\ svc' = L!Service(conn, "serial", TRUE, svc.want_streaming, svc.live)
          /\ obj' = L!Object(<<>>, TRUE, svc.want_streaming, ~svc.want_streaming, TRUE, 0)
          /\ pump' = "idle"
      BY <2>2 DEF L!Reconnect, L!FreshSerial, L!Object
    <3>2. conn \in {"CONNECTED", "STREAMING"} /\ (conn = "STREAMING" => svc.want_streaming)
      OBVIOUS
    <3>3. (~svc.want_streaming) \in BOOLEAN
      OBVIOUS
    <3> HIDE DEF conn
    <3>4. QED
      BY <1>1, <2>1, <3>1, <3>2, <3>3, Attached
  <2>3. CASE L!ReconnectWithoutStream
    <3>1. /\ svc' = L!Service("CONNECTED", "serial", TRUE, TRUE, svc.live)
          /\ obj' = L!Object(<<>>, TRUE, FALSE, TRUE, TRUE, 0) /\ pump' = "idle"
      BY <2>3 DEF L!ReconnectWithoutStream, L!FreshSerial
    <3>2. QED
      BY <1>1, <3>1, Attached
  <2>4. QED
    BY <1>5, <2>2, <2>3
<1>6. QED
  BY <1>2, <1>3, <1>4, <1>5 DEF L!Pump

-----------------------------------------------------------------------------
(* Readers, the device and the link *)

\* So do the reader threads.
LEMMA ReaderSteps ==
  ASSUME Limits
  PROVE  ServiceInv /\ L!Reader => ServiceInv'
<1> SUFFICES ASSUME ServiceInv, L!Reader PROVE ServiceInv'
  OBVIOUS
<1>1. /\ obj.alive \in BOOLEAN /\ obj.streaming \in BOOLEAN /\ obj.text \in BOOLEAN
      /\ obj.linked \in BOOLEAN /\ obj.chunks \in Nat
      /\ {"SUBFRAME", "DISCONNECTED", "FINISHED"} \subseteq Kinds
  BY DEF ServiceInv, TypeOK, Objects, Kinds
<1>2. UNCHANGED <<svc, pump>> /\ pump \in {"idle", "draining"}
  BY DEF L!Reader, L!ReadChunk, L!ReadFails, L!ReplayRecord, L!ReplayEnds, ServiceInv, TypeOK
<1>3. CASE L!ReadChunk
  <2>1. obj.chunks - 1 \in Nat /\ Len(obj.queue) < MaxQueue
    BY <1>1, <1>3 DEF L!ReadChunk
  <2>2. CASE obj.text
    <3>1. obj' = L!Object(obj.queue, obj.alive, obj.streaming, obj.text, obj.linked,
                        obj.chunks - 1)
      BY <1>3, <2>2, Fields DEF ServiceInv, L!ReadChunk, L!Object
    <3>2. QED
      BY <1>1, <1>2, <2>1, <3>1, LinkOnly
  <2>3. CASE ~obj.text
    <3>1. obj' = L!Object(Append(obj.queue, "SUBFRAME"), obj.alive, obj.streaming, obj.text,
                        obj.linked, obj.chunks - 1)
      BY <1>3, <2>3, Fields DEF ServiceInv, L!ReadChunk, L!Emitted, L!Object
    <3>2. QED
      BY <1>1, <1>2, <2>1, <3>1, EventPut
  <2>4. QED
    BY <2>2, <2>3
<1>4. CASE L!ReadFails
  <2>1. /\ svc.source = "serial" /\ Len(obj.queue) < MaxQueue
        /\ obj' = L!Object(Append(obj.queue, "DISCONNECTED"), FALSE, FALSE, obj.text,
                         obj.linked, obj.chunks)
    BY <1>4, Fields DEF ServiceInv, L!ReadFails, L!Emitted, L!Object
  <2>2. QED
    BY <1>1, <1>2, <2>1, EventPut
<1>5. CASE L!ReplayRecord
  <2>1. /\ Len(obj.queue) < MaxQueue
        /\ obj' = L!Object(Append(obj.queue, "SUBFRAME"), obj.alive, obj.streaming, obj.text,
                         obj.linked, obj.chunks)
    BY <1>5, Fields DEF ServiceInv, L!ReplayRecord, L!Emitted, L!Object
  <2>2. QED
    BY <1>1, <1>2, <2>1, EventPut
<1>6. CASE L!ReplayEnds
  <2>1. /\ svc.source = "replay" /\ Len(obj.queue) < MaxQueue
        /\ obj' = L!Object(Append(obj.queue, "FINISHED"), FALSE, obj.streaming, obj.text,
                         obj.linked, obj.chunks)
    BY <1>6, Fields DEF ServiceInv, L!ReplayEnds, L!Emitted, L!Object
  <2>2. QED
    BY <1>1, <1>2, <2>1, EventPut
<1>7. QED
  BY <1>3, <1>4, <1>5, <1>6 DEF L!Reader

\* So do the device and the link.
LEMMA WorldSteps == ServiceInv /\ (L!DeviceSends \/ L!LinkLost \/ L!LinkBack) => ServiceInv'
<1> SUFFICES ASSUME ServiceInv, L!DeviceSends \/ L!LinkLost \/ L!LinkBack PROVE ServiceInv'
  OBVIOUS
<1>1. obj.linked \in BOOLEAN /\ obj.chunks \in Nat /\ obj.chunks + 1 \in Nat
      /\ pump \in {"idle", "draining"}
  BY DEF ServiceInv, TypeOK, Objects
<1>2. CASE L!DeviceSends
  <2>1. /\ svc' = svc /\ pump' = pump
        /\ obj' = L!Object(obj.queue, obj.alive, obj.streaming, obj.text, obj.linked,
                         obj.chunks + 1)
    BY <1>2, Fields DEF ServiceInv, L!DeviceSends, L!Object
  <2>2. QED
    BY <1>1, <2>1, LinkOnly
<1>3. CASE L!LinkLost
  <2>1. /\ svc' = svc /\ pump' = pump
        /\ obj' = L!Object(obj.queue, obj.alive, obj.streaming, obj.text, FALSE, obj.chunks)
    BY <1>3, Fields DEF ServiceInv, L!LinkLost, L!Object
  <2>2. QED
    BY <1>1, <2>1, LinkOnly
<1>4. CASE L!LinkBack
  BY <1>4, Unmoved DEF L!LinkBack
<1>5. QED
  BY <1>2, <1>3, <1>4

-----------------------------------------------------------------------------
(* Results *)

\* The connection, the source owned, the wishes and what is queued agree in
\* every state of the life cycle of serial_service.py, for every bound on
\* the losses, the timeouts, the queue and the chunks in flight.
THEOREM ServiceInvariant ==
  ASSUME Limits
  PROVE  L!Spec => []ServiceInv
<1>1. L!Init => ServiceInv
  <2> SUFFICES ASSUME L!Init PROVE ServiceInv
    OBVIOUS
  <2>1. svc = L!Service("DISCONNECTED", "none", FALSE, FALSE, FALSE)
        /\ obj = L!NoObject /\ pump = "idle"
    BY DEF L!Init
  <2>2. L!NoObject \in Objects /\ Len(L!NoObject.queue) <= MaxQueue
    BY EmptySeq, Limits DEF Limits, L!NoObject, L!Object, Objects
  <2>3. TypeOK
    BY <2>1, <2>2 DEF TypeOK, Services, L!Connections, L!Service
  <2>4. SourceAgrees /\ LossNeverSilent
    BY <2>1 DEF SourceAgrees, LossNeverSilent, L!Service
  <2>5. StopTakesHold /\ TextModeAgrees
    BY <2>1 DEF StopTakesHold, TextModeAgrees, L!Service
  <2>6. LiveFrameOwned /\ OrphanWanted
    BY <2>1 DEF LiveFrameOwned, OrphanWanted, L!Service
  <2>7. QED
    BY <2>3, <2>4, <2>5, <2>6 DEF ServiceInv, StateMatchesSource
<1>2. ServiceInv /\ [L!Next]_L!vars => ServiceInv'
  <2>1. ServiceInv /\ UNCHANGED L!vars => ServiceInv'
    BY Unmoved DEF L!vars
  <2>2. QED
    BY <2>1, UserSteps, PumpSteps, ReaderSteps, WorldSteps DEF L!Next
<1>3. QED
  BY <1>1, <1>2, PTL DEF L!Spec

\* The state the service shows never contradicts its source: a reader does
\* not end without its report, a failed stop lasts only until that report is
\* handled, and words are read as words exactly while streaming.
THEOREM SourceConsistent ==
  ASSUME Limits
  PROVE  L!Spec => []StateMatchesSource
<1>1. ServiceInv => StateMatchesSource
  BY DEF ServiceInv
<1>2. QED
  BY <1>1, ServiceInvariant, PTL

\* A frame is live, and refuses edits, only while a wanted stream, a replay or
\* a loss still to be handled accounts for it.
THEOREM LiveOwned ==
  ASSUME Limits
  PROVE  L!Spec => []LiveFrameOwned
<1>1. ServiceInv => LiveFrameOwned
  BY DEF ServiceInv
<1>2. QED
  BY <1>1, ServiceInvariant, PTL
=============================================================================
