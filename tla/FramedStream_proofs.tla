------------------------ MODULE FramedStream_proofs ------------------------
(***************************************************************************)
(* Proofs about FramedStream, for any number of frames, faults, restarts   *)
(* and packets in flight.                                                  *)
(***************************************************************************)
EXTENDS FramedStream, FiniteSetTheorems, SequenceTheorems, TLAPS

\* The subframe that belongs in slot s of frame f.
Place(f, s) == [frame |-> f, slot |-> s - 1]

Waiting == {"PENDING", "MISSING"}

Kept == {"RECEIVED", "INVALID", "LATE"}

-----------------------------------------------------------------------------
(* The inductive invariant *)

\* x may be sent before y: in an earlier frame, or in the same one, in order
\* or in the one swap the device makes.
Precedes(x, y) ==
  \/ x.frame < y.frame
  \/ x.frame = y.frame /\ (x.slot < y.slot \/ (x.slot = 2 /\ y.slot = 1))

\* The subframes before the device's place.
IsSent(x) ==
  \/ x.frame < device.frame_id
  \/ /\ x.frame = device.frame_id
     /\ \E i \in 1 .. device.subframe_index : x.slot = device.order[i]

DeviceOK ==
  /\ device \in [frame_id : Nat, subframe_index : 0 .. 3, order : {InOrder, Swapped}]
  /\ device.subframe_index = 0 => device.order = InOrder

\* Packets on the line are of subframes that were sent, in their order; those
\* the parser will skip are the lost ones.
WireOK ==
  /\ wire \in Seq([words : Subframe, fate : Fates])
  /\ \A i \in DOMAIN wire : IsSent(wire[i].words)
  /\ \A i, j \in DOMAIN wire : i < j => Precedes(wire[i].words, wire[j].words)
  /\ \A i \in DOMAIN wire : wire[i].fate = "badCrc" <=> wire[i].words \in lost

\* A slot below the expected one was filled or given up, a slot above waits;
\* what a slot holds was sent in it.
AssemblerOK(a) ==
  /\ a.frame_index \in Nat /\ a.expected \in 1 .. 4
  /\ a.states \in [S!Slots -> S!SubframeStates]
  /\ DOMAIN a.words = S!Slots
  /\ \A s \in S!Slots : (a.states[s] = "PENDING") <=> (a.expected <= s)
  /\ \A s \in S!Slots : a.states[s] \notin Waiting => a.words[s] = Place(a.frame_index, s)

\* What the frame under way holds was sent.
HeldSent ==
  \A s \in S!Slots : asm.states[s] \notin Waiting => IsSent(Place(asm.frame_index, s))

\* The frame under way is not behind what is on the line, and a packet of it
\* finds its slot waiting.
InStep ==
  asm.expected # 1 =>
    /\ asm.frame_index <= device.frame_id
    /\ \A i \in DOMAIN wire :
         /\ wire[i].words.frame >= asm.frame_index
         /\ wire[i].words.frame = asm.frame_index =>
              asm.states[wire[i].words.slot + 1] \in Waiting

\* Nothing of a published frame is still to come.
PublishedOK ==
  \A f \in published :
    /\ f \in Nat /\ f < device.frame_id
    /\ \A i \in DOMAIN wire : f < wire[i].words.frame
    /\ asm.expected # 1 => f < asm.frame_index

OnWire(w, x) == \E i \in DOMAIN w : w[i].words = x

IsHeld(a, x) == x.frame = a.frame_index /\ a.states[x.slot + 1] \notin Waiting

\* A subframe that was sent is lost, on the line, held, or published.
Accounted ==
  \A x \in Subframe :
    IsSent(x) => x \in lost \/ OnWire(wire, x) \/ IsHeld(asm, x) \/ x.frame \in published

\* What is lost was sent, and no frame under way holds it.
LostOK ==
  /\ lost \subseteq Subframe /\ IsFiniteSet(lost)
  /\ \A x \in lost : IsSent(x) /\ ~IsHeld(asm, x)

IInv ==
  /\ DeviceOK /\ WireOK /\ AssemblerOK(asm) /\ HeldSent /\ InStep
  /\ PublishedOK /\ Accounted /\ LostOK
  /\ FrameIdentity /\ MissingIsLost

-----------------------------------------------------------------------------
(* take() on a packet that carries a frame id *)

\* The slots of a frame.
LEMMA FourSlots == S!Slots = {1, 2, 3, 4}
  BY DEF S!Slots

\* The states of frame f before a subframe of it is stored.
Base(a, f) ==
  IF a.expected # 1 /\ f = a.frame_index THEN a.states ELSE S!AllPending

\* The states after slot x is stored as st: slots jumped over are missing.
Stored(a, f, x, st) ==
  [s \in S!Slots |-> IF s = x THEN st
                     ELSE IF s < x /\ Base(a, f)[s] = "PENDING" THEN "MISSING"
                     ELSE Base(a, f)[s]]

\* The frame an arrival of frame f closes: what was pending is missing.
Closed(a) ==
  [s \in S!Slots |-> IF a.states[s] = "PENDING" THEN "MISSING" ELSE a.states[s]]

\* The arrival that words p stored in slot x of frame f make.
ArrivalOf(arr, a, f, x, p, st) ==
  /\ arr.frame_index = f
  /\ arr.words = [a.words EXCEPT ![x] = p]
  /\ arr.subframe_states = Stored(a, f, x, st)
  /\ arr.frame_completed = (x = 4)

\* The assembler after it.
AssemblerAfter(b, a, f, x, p, st) ==
  /\ b.words = [a.words EXCEPT ![x] = p]
  /\ x = 4 => b.frame_index = f + 1 /\ b.states = S!AllPending /\ b.expected = 1
  /\ x # 4 => /\ b.frame_index = f
              /\ b.states = Stored(a, f, x, st)
              /\ b.expected \in 2 .. 4
              /\ \A s \in S!Slots : b.states[s] = "PENDING" <=> b.expected <= s

\* The arrivals of one packet: the frame its id closes, if any, and itself.
ArrivalsAre(arrs, arr, a, id) ==
  IF a.expected # 1 /\ id # a.frame_index
  THEN Len(arrs) = 2 /\ DOMAIN arrs = {1, 2} /\ arrs[1] = S!ClosedArrival(a) /\ arrs[2] = arr
  ELSE Len(arrs) = 1 /\ DOMAIN arrs = {1} /\ arrs[1] = arr

\* The assembler that _store is called on.
Opened(a, in) ==
  LET b == S!Identified(a, in.id)
  IN  IF S!IsLate(b, in.sf) THEN S!Recovered(b) ELSE S!SkippedTo(b, in.sf)

\* A packet whose id is that of the frame under way, or later, is stored in
\* its slot of the frame of that id.
LEMMA OpenedForId ==
  ASSUME NEW a, AssemblerOK(a), NEW in, in.sf \in S!Slots, in.id \in Nat,
         a.expected # 1 /\ in.id = a.frame_index => a.states[in.sf] \in Waiting
  PROVE  LET o == Opened(a, in)
             b == S!Identified(a, in.id)
         IN  /\ o.frame_index = in.id /\ o.words = a.words
             /\ o.expected = IF a.expected # 1 /\ in.id = a.frame_index THEN a.expected ELSE 1
             /\ o.states = [s \in S!Slots |-> IF s < in.sf /\ Base(a, in.id)[s] = "PENDING"
                                              THEN "MISSING" ELSE Base(a, in.id)[s]]
             /\ ~S!IsLate(b, in.sf) => ~S!Restarts(b, in.sf)
<1> DEFINE b == S!Identified(a, in.id)
<1>1. /\ b.frame_index = in.id /\ b.words = a.words /\ b.states = Base(a, in.id)
      /\ b.expected = IF a.expected # 1 /\ in.id = a.frame_index THEN a.expected ELSE 1
  <2>1. in.id # NoId
    BY IdAssumption
  <2>2. CASE a.expected = 1
    <3>1. a.states = S!AllPending
      BY <2>2, FourSlots DEF AssemblerOK, S!AllPending
    <3>2. QED
      BY <2>1, <2>2, <3>1 DEF S!Identified, S!IdCloses, S!WithIndex, S!Assembler, Base
  <2>3. CASE a.expected # 1 /\ in.id = a.frame_index
    BY <2>1, <2>3 DEF S!Identified, S!IdCloses, Base
  <2>4. CASE a.expected # 1 /\ in.id # a.frame_index
    BY <2>1, <2>4 DEF S!Identified, S!IdCloses, S!WithIndex, S!Assembler, Base,
                      S!CloseIncomplete, S!FreshAssembler
  <2>5. QED
    BY <2>2, <2>3, <2>4
<1> HIDE DEF b
<1>2. \A s \in S!Slots : b.states[s] = "PENDING" <=> b.expected <= s
  BY <1>1, FourSlots DEF Base, AssemblerOK, S!AllPending
<1>3. b.expected \in 1 .. 4 /\ DOMAIN b.states = S!Slots /\ in.sf \in 1 .. 4
  BY <1>1, FourSlots DEF Base, AssemblerOK, S!AllPending
<1>4. b.states[in.sf] \in Waiting
  BY <1>1, FourSlots DEF Base, S!AllPending, Waiting
<1>5. ~S!Restarts(b, in.sf)
  BY <1>2, <1>3, <1>4, FourSlots DEF Waiting, S!Restarts
<1>6. CASE S!IsLate(b, in.sf)
  <2>1. Opened(a, in) = S!Recovered(b)
    BY <1>6 DEF Opened, b
  <2>2. in.sf < b.expected
    BY <1>6 DEF S!IsLate
  <2>3. b.states = [s \in S!Slots |-> IF s < in.sf /\ b.states[s] = "PENDING"
                                      THEN "MISSING" ELSE b.states[s]]
    <3>1. \A s \in S!Slots : ~(s < in.sf /\ b.states[s] = "PENDING")
      BY <2>2, <1>2, <1>3, FourSlots
    <3>2. b.states = [s \in S!Slots |-> b.states[s]]
      <4>1. b.states = a.states \/ b.states = S!AllPending
        BY <1>1 DEF Base
      <4>2. QED
        BY <4>1 DEF AssemblerOK, S!AllPending
    <3>3. QED
      BY <3>1, <3>2
  <2>4. S!Recovered(b).frame_index = b.frame_index /\ S!Recovered(b).words = b.words
        /\ S!Recovered(b).states = b.states /\ S!Recovered(b).expected = b.expected
    BY DEF S!Recovered, S!Assembler
  <2>5. QED
    BY <1>1, <1>5, <2>1, <2>3, <2>4 DEF b
<1>7. CASE ~S!IsLate(b, in.sf)
  <2>1. Opened(a, in) = S!SkippedTo(b, in.sf)
    BY <1>7 DEF Opened, b
  <2>2. S!SkippedTo(b, in.sf).frame_index = b.frame_index /\ S!SkippedTo(b, in.sf).words = b.words
        /\ S!SkippedTo(b, in.sf).expected = b.expected
    BY DEF S!SkippedTo, S!Assembler
  <2>3. b.states = [s \in S!Slots |-> b.states[s]]
    <3>1. b.states = a.states \/ b.states = S!AllPending
      BY <1>1 DEF Base
    <3>2. QED
      BY <3>1 DEF AssemblerOK, S!AllPending
  <2>4. CASE in.sf > b.expected
    <3>1. S!SkippedTo(b, in.sf).states =
            [s \in S!Slots |-> IF b.expected <= s /\ s < in.sf THEN "MISSING" ELSE b.states[s]]
      BY <2>4 DEF S!SkippedTo, S!Assembler
    <3>2. \A s \in S!Slots : (b.expected <= s /\ s < in.sf) = (s < in.sf /\ b.states[s] = "PENDING")
      BY <1>2
    <3>3. QED
      BY <1>1, <1>5, <2>1, <2>2, <3>1, <3>2 DEF b
  <2>5. CASE ~(in.sf > b.expected)
    <3>1. S!SkippedTo(b, in.sf).states = b.states
      BY <2>5 DEF S!SkippedTo
    <3>2. \A s \in S!Slots : ~(s < in.sf /\ b.states[s] = "PENDING")
      BY <1>2, <1>3, <2>5, FourSlots
    <3>3. b.states = [s \in S!Slots |-> IF s < in.sf /\ b.states[s] = "PENDING"
                                        THEN "MISSING" ELSE b.states[s]]
      BY <2>3, <3>2
    <3>4. QED
      BY <1>1, <1>5, <2>1, <2>2, <3>1, <3>3 DEF b
  <2>6. QED
    BY <2>4, <2>5
<1>8. QED
  BY <1>6, <1>7

\* What take() returns for it.
LEMMA TakeWithId ==
  ASSUME NEW a, AssemblerOK(a), NEW in, in.sf \in S!Slots, in.id \in Nat, in.damage = {},
         a.expected # 1 /\ in.id = a.frame_index => a.states[in.sf] \in Waiting
  PROVE  \E st \in Kept : \E arr :
           /\ ArrivalOf(arr, a, in.id, in.sf, in.payload, st)
           /\ AssemblerAfter(S!Take(a, in).asm, a, in.id, in.sf, in.payload, st)
           /\ ArrivalsAre(S!Take(a, in).arrivals, arr, a, in.id)
<1> DEFINE b      == S!Identified(a, in.id)
           o      == Opened(a, in)
           st     == IF S!IsLate(b, in.sf) /\ S!ReceivedState(in) = "RECEIVED"
                     THEN "LATE" ELSE S!ReceivedState(in)
           full   == S!Filled(o, in, st)
           arr    == S!Arrival(full, in.sf, st, S!FrameDone(full))
           closed == IF S!IdCloses(a, in.id) THEN <<S!ClosedArrival(a)>> ELSE <<>>
<1>1. S!Take(a, in) = S!StoreResult(o, in, st, closed)
  <2>1. ~S!IsLate(b, in.sf) => ~S!Restarts(b, in.sf)
    BY OpenedForId
  <2>2. CASE S!IsLate(b, in.sf)
    <3>1. o = S!Recovered(b) /\ st = IF S!ReceivedState(in) = "RECEIVED" THEN "LATE"
                                     ELSE S!ReceivedState(in)
      BY <2>2 DEF Opened
    <3>2. QED
      BY <2>2, <3>1 DEF S!Take
  <2>3. CASE ~S!IsLate(b, in.sf)
    <3>1. o = S!SkippedTo(b, in.sf) /\ st = S!ReceivedState(in)
      BY <2>3 DEF Opened
    <3>2. QED
      BY <2>1, <2>3, <3>1 DEF S!Take
  <2>4. QED
    BY <2>2, <2>3
<1>2. S!Take(a, in).asm = S!Completed(full) /\ S!Take(a, in).arrivals = Append(closed, arr)
  BY <1>1 DEF S!StoreResult
<1>3. st \in Kept
  BY DEF S!ReceivedState, Kept
<1>4. /\ o.frame_index = in.id /\ o.words = a.words
      /\ o.expected = IF a.expected # 1 /\ in.id = a.frame_index THEN a.expected ELSE 1
      /\ o.states = [s \in S!Slots |-> IF s < in.sf /\ Base(a, in.id)[s] = "PENDING"
                                       THEN "MISSING" ELSE Base(a, in.id)[s]]
  BY OpenedForId
<1> HIDE DEF o, st
<1>5. /\ full.frame_index = in.id
      /\ full.words = [a.words EXCEPT ![in.sf] = in.payload]
      /\ full.states = [o.states EXCEPT ![in.sf] = st]
      /\ full.expected = IF in.sf >= o.expected THEN in.sf + 1 ELSE o.expected
  BY <1>4 DEF S!Filled, S!Assembler
<1> HIDE DEF full
<1>6. full.states = Stored(a, in.id, in.sf, st)
  BY <1>4, <1>5 DEF Stored
<1>7. o.expected \in 1 .. 4 /\ in.sf \in 1 .. 4
  BY <1>4, FourSlots DEF AssemblerOK
<1>8. full.expected \in 2 .. 5 /\ (full.expected > 4 <=> in.sf = 4)
  <2>1. CASE in.sf >= o.expected
    BY <1>5, <1>7, <2>1
  <2>2. CASE ~(in.sf >= o.expected)
    BY <1>5, <1>7, <2>2
  <2>3. QED
    BY <2>1, <2>2
<1>9. S!FrameDone(full) = (in.sf = 4)
  BY <1>8 DEF S!FrameDone
<1>10. ArrivalOf(arr, a, in.id, in.sf, in.payload, st)
  BY <1>5, <1>6, <1>9 DEF ArrivalOf, S!Arrival
<1>11. AssemblerAfter(S!Completed(full), a, in.id, in.sf, in.payload, st)
  <2>1. CASE in.sf = 4
    BY <2>1, <1>5, <1>9 DEF AssemblerAfter, S!Completed, S!FreshAssembler, S!Assembler
  <2>2. CASE in.sf # 4
    <3>1. S!Completed(full) = full
      BY <2>2, <1>9 DEF S!Completed
    <3>2. full.expected \in 2 .. 4
      BY <1>8, <2>2
    <3>3. \A s \in S!Slots : Base(a, in.id)[s] = "PENDING" <=> o.expected <= s
      BY <1>4, FourSlots DEF Base, AssemblerOK, S!AllPending
    <3>4. ASSUME NEW s \in S!Slots
          PROVE  full.states[s] = "PENDING" <=> full.expected <= s
      <4>1. full.states[s] = IF s = in.sf THEN st
                             ELSE IF s < in.sf /\ Base(a, in.id)[s] = "PENDING" THEN "MISSING"
                             ELSE Base(a, in.id)[s]
        BY <1>6 DEF Stored
      <4>2. s \in 1 .. 4
        BY FourSlots
      <4>3. CASE s = in.sf
        BY <4>1, <4>3, <1>3, <1>5, <1>7 DEF Kept
      <4>4. CASE s < in.sf
        BY <4>1, <4>2, <4>4, <3>3, <1>5, <1>7
      <4>5. CASE s > in.sf
        BY <4>1, <4>2, <4>5, <3>3, <1>5, <1>7
      <4>6. QED
        BY <4>2, <4>3, <4>4, <4>5, <1>7
    <3>5. QED
      BY <2>2, <3>1, <3>2, <3>4, <1>5, <1>6 DEF AssemblerAfter
  <2>3. QED
    BY <2>1, <2>2
<1>12. ArrivalsAre(Append(closed, arr), arr, a, in.id)
  <2>1. S!IdCloses(a, in.id) = (a.expected # 1 /\ in.id # a.frame_index)
    BY IdAssumption DEF S!IdCloses
  <2> HIDE DEF arr
  <2>2. CASE S!IdCloses(a, in.id)
    <3>1. <<S!ClosedArrival(a)>> \in Seq({S!ClosedArrival(a), arr})
          /\ Len(<<S!ClosedArrival(a)>>) = 1 /\ <<S!ClosedArrival(a)>>[1] = S!ClosedArrival(a)
      OBVIOUS
    <3>2. closed = <<S!ClosedArrival(a)>>
      BY <2>2
    <3> HIDE DEF closed
    <3>3. Len(Append(closed, arr)) = 2 /\ DOMAIN Append(closed, arr) = 1 .. 2
          /\ Append(closed, arr)[1] = S!ClosedArrival(a) /\ Append(closed, arr)[2] = arr
      BY <3>1, <3>2, AppendProperties, LenProperties
    <3>4. 1 .. 2 = {1, 2}
      OBVIOUS
    <3>5. QED
      BY <2>1, <2>2, <3>3, <3>4 DEF ArrivalsAre
  <2>3. CASE ~S!IdCloses(a, in.id)
    <3>1. closed = <<>>
      BY <2>3
    <3>2. Append(<<>>, arr) = <<arr>> /\ Len(<<arr>>) = 1 /\ <<arr>>[1] = arr
          /\ DOMAIN <<arr>> = {1}
      OBVIOUS
    <3> HIDE DEF closed
    <3>3. QED
      BY <2>1, <2>3, <3>1, <3>2 DEF ArrivalsAre
  <2>4. QED
    BY <2>2, <2>3
<1>13. QED
  BY <1>2, <1>3, <1>10, <1>11, <1>12
-----------------------------------------------------------------------------
(* The place of a subframe *)

\* A subframe of the device's counting has a slot of the assembler's, and back.
LEMMA PlaceFacts ==
  /\ \A f \in Nat, s \in S!Slots :
       Place(f, s) \in Subframe /\ Place(f, s).frame = f /\ Place(f, s).slot + 1 = s
  /\ \A x \in Subframe :
       x.frame \in Nat /\ x.slot + 1 \in S!Slots /\ x = Place(x.frame, x.slot + 1)
<1>1. ASSUME NEW f \in Nat, NEW s \in S!Slots
      PROVE  Place(f, s) \in Subframe /\ Place(f, s).frame = f /\ Place(f, s).slot + 1 = s
  BY FourSlots DEF Place, Subframe, Slot
<1>2. ASSUME NEW x \in Subframe
      PROVE  x.frame \in Nat /\ x.slot + 1 \in S!Slots /\ x = Place(x.frame, x.slot + 1)
  <2>1. PICK f \in Nat, t \in Slot : x = [frame |-> f, slot |-> t]
    BY DEF Subframe
  <2>2. (t + 1) - 1 = t /\ t + 1 \in S!Slots
    BY FourSlots DEF Slot
  <2>3. QED
    BY <2>1, <2>2 DEF Place
<1>3. QED
  BY <1>1, <1>2

\* The last slot is sent last: once it was, the device is past the frame and
\* the whole frame was sent.
LEMMA LastSlotSent ==
  ASSUME DeviceOK, NEW f \in Nat, IsSent(Place(f, 4))
  PROVE  f < device.frame_id /\ \A s \in S!Slots : IsSent(Place(f, s))
<1>1. f < device.frame_id
  <2>1. SUFFICES ASSUME f = device.frame_id,
                        NEW i \in 1 .. device.subframe_index, 3 = device.order[i]
                 PROVE  FALSE
    BY DEF IsSent, Place
  <2>2. i \in {1, 2, 3}
    BY DEF DeviceOK
  <2>3. device.order = InOrder \/ device.order = Swapped
    BY DEF DeviceOK
  <2>4. QED
    BY <2>1, <2>2, <2>3 DEF InOrder, Swapped
<1>2. QED
  BY <1>1 DEF IsSent, Place

\* Order of sending: the last subframe of a frame precedes only later frames.
LEMMA PrecedesStrict ==
  ASSUME NEW x \in Subframe, NEW y \in Subframe, Precedes(x, y)
  PROVE  /\ x # y /\ x.frame <= y.frame
         /\ x.slot = 3 => x.frame < y.frame
  BY DEF Precedes, Subframe, Slot

-----------------------------------------------------------------------------
(* Counting the losses of a frame *)

LossesOf(l, g) == {x \in l : x.frame = g}

\* No more slots are in one state than there are.
LEMMA CountType ==
  ASSUME NEW states, NEW st
  PROVE  S!Count(states, st) \in 0 .. 4
  BY DEF S!Count

\* A frame whose missing slots are its losses has as many of them.
LEMMA CountsLosses ==
  ASSUME NEW l \in SUBSET Subframe, IsFiniteSet(l), NEW g \in Nat,
         NEW states, \A s \in S!Slots : states[s] = "MISSING" <=> Place(g, s) \in l
  PROVE  S!Count(states, "MISSING") = Cardinality(LossesOf(l, g))
<1> DEFINE One(s)  == IF states[s] = "MISSING" THEN 1 ELSE 0
           Upto(n) == {x \in l : x.frame = g /\ x.slot < n}
<1>1. S!Count(states, "MISSING") = One(1) + One(2) + One(3) + One(4)
  BY DEF S!Count
<1>2. Upto(0) = {}
  BY DEF Subframe, Slot
<1>3. ASSUME NEW n \in 0 .. 3, IsFiniteSet(Upto(n))
      PROVE  /\ IsFiniteSet(Upto(n + 1))
             /\ Cardinality(Upto(n + 1)) = Cardinality(Upto(n)) + One(n + 1)
  <2>1. n + 1 \in S!Slots /\ Place(g, n + 1) = [frame |-> g, slot |-> n]
    BY FourSlots DEF Place
  <2>2. Cardinality(Upto(n)) \in Nat
    BY <1>3, FS_CardinalityType
  <2>3. Place(g, n + 1) \notin Upto(n)
    BY <2>1
  <2>4. \A x \in l : x.frame = g /\ x.slot = n => x = Place(g, n + 1)
    BY <2>1, PlaceFacts
  <2>5. CASE Place(g, n + 1) \in l
    <3>1. Upto(n + 1) = Upto(n) \cup {Place(g, n + 1)}
      <4>1. ASSUME NEW x PROVE x \in Upto(n + 1) <=> x \in Upto(n) \cup {Place(g, n + 1)}
        BY <2>1, <2>4, <2>5 DEF Subframe, Slot
      <4>2. QED
        BY <4>1
    <3>2. One(n + 1) = 1
      BY <2>1, <2>5
    <3> HIDE DEF Upto, One
    <3>3. QED
      BY <1>3, <2>3, <3>1, <3>2, FS_AddElement
  <2>6. CASE Place(g, n + 1) \notin l
    <3>1. Upto(n + 1) = Upto(n)
      <4>1. ASSUME NEW x PROVE x \in Upto(n + 1) <=> x \in Upto(n)
        BY <2>1, <2>4, <2>6 DEF Subframe, Slot
      <4>2. QED
        BY <4>1
    <3>2. One(n + 1) = 0
      BY <2>1, <2>6
    <3> HIDE DEF Upto, One
    <3>3. QED
      BY <1>3, <2>2, <3>1, <3>2
  <2>7. QED
    BY <2>5, <2>6
<1>4. Upto(4) = LossesOf(l, g)
  BY DEF LossesOf, Subframe, Slot
<1>5. \A n \in 0 .. 4 : One(n) \in 0 .. 1
  OBVIOUS
<1> HIDE DEF Upto, One
<1>6. IsFiniteSet(Upto(0)) /\ Cardinality(Upto(0)) = 0
  BY <1>2, FS_EmptySet
<1>7. IsFiniteSet(Upto(1)) /\ Cardinality(Upto(1)) = One(1)
  BY <1>3, <1>5, <1>6
<1>8. IsFiniteSet(Upto(2)) /\ Cardinality(Upto(2)) = One(1) + One(2)
  BY <1>3, <1>7
<1>9. IsFiniteSet(Upto(3)) /\ Cardinality(Upto(3)) = One(1) + One(2) + One(3)
  BY <1>3, <1>8
<1>10. Cardinality(Upto(4)) = One(1) + One(2) + One(3) + One(4)
  BY <1>3, <1>9
<1>11. QED
  BY <1>1, <1>4, <1>10

\* The losses of one more frame.
LEMMA LossesAdd ==
  ASSUME NEW l, IsFiniteSet(l), NEW P, NEW g, g \notin P
  PROVE  /\ Cardinality({x \in l : x.frame \in P \cup {g}})
              = Cardinality({x \in l : x.frame \in P}) + Cardinality(LossesOf(l, g))
         /\ Cardinality({x \in l : x.frame \in P}) \in Nat
         /\ Cardinality(LossesOf(l, g)) \in Nat
<1> DEFINE A == {x \in l : x.frame \in P}
           B == LossesOf(l, g)
<1>1. IsFiniteSet(A) /\ IsFiniteSet(B)
  BY FS_Subset DEF LossesOf
<1>2. A \cap B = {} /\ {x \in l : x.frame \in P \cup {g}} = A \cup B
  BY DEF LossesOf
<1>3. Cardinality(A) \in Nat /\ Cardinality(B) \in Nat
  BY <1>1, FS_CardinalityType
<1>4. Cardinality(A \cup B) = Cardinality(A) + Cardinality(B)
  <2> HIDE DEF A, B
  <2>1. Cardinality(A \cap B) = 0
    BY <1>2, FS_EmptySet
  <2>2. Cardinality(A \cup B) = Cardinality(A) + Cardinality(B) - Cardinality(A \cap B)
    BY <1>1, FS_Union
  <2>3. QED
    BY <1>3, <2>1, <2>2
<1>5. QED
  BY <1>2, <1>3, <1>4
-----------------------------------------------------------------------------
(* One accepted packet *)

Closes(f) == asm.expected # 1 /\ f # asm.frame_index

\* What a step that takes the words of frame f, slot x from the line does.
Takes(f, x, st, arr) ==
  /\ f \in Nat /\ x \in S!Slots /\ st \in Kept
  /\ wire[1].words = Place(f, x) /\ 1 \in DOMAIN wire
  /\ Place(f, x) \notin lost
  /\ ArrivalOf(arr, asm, f, x, Place(f, x), st)
  /\ AssemblerAfter(asm', asm, f, x, Place(f, x), st)
  /\ ArrivalsAre(arrivals', arr, asm, f)
  /\ published' = published \cup (IF Closes(f) THEN {asm.frame_index} ELSE {})
                           \cup (IF x = 4 THEN {f} ELSE {})
  /\ diag'.dropped_subframes =
       diag.dropped_subframes + (IF Closes(f) THEN S!Count(Closed(asm), "MISSING") ELSE 0)
         + (IF x = 4 THEN S!Count(Stored(asm, f, x, st), "MISSING") ELSE 0)
  /\ UNCHANGED <<device, lost>>

\* The line after its first packet was read.
ReadOne ==
  /\ wire' \in Seq([words : Subframe, fate : Fates])
  /\ DOMAIN wire' = 1 .. Len(wire) - 1
  /\ \A i \in DOMAIN wire' : i + 1 \in DOMAIN wire /\ wire'[i] = wire[i + 1]

\* Processing a packet takes the first off the wire.
LEMMA ReadOneFacts ==
  ASSUME WireOK, ProcessPacket
  PROVE  ReadOne /\ 1 \in DOMAIN wire /\ Head(wire) = wire[1] /\ wire[1] \in [words : Subframe, fate : Fates]
<1> DEFINE T == [words : Subframe, fate : Fates]
<1>1. wire \in Seq(T) /\ wire # <<>> /\ wire' = Tail(wire)
  BY DEF WireOK, ProcessPacket
<1> HIDE DEF T
<1>2. Len(wire) \in Nat /\ DOMAIN wire = 1 .. Len(wire) /\ Len(wire) # 0
  BY <1>1, LenProperties, EmptySeq
<1>3. /\ Tail(wire) \in Seq(T) /\ Len(Tail(wire)) = Len(wire) - 1
      /\ \A i \in 1 .. Len(Tail(wire)) : Tail(wire)[i] = wire[i + 1]
  BY <1>1, HeadTailProperties
<1>4. DOMAIN Tail(wire) = 1 .. Len(wire) - 1
  BY <1>3, LenProperties
<1>5. Head(wire) = wire[1]
  BY <1>1
<1>6. wire[1] \in T
  BY <1>1, <1>2, LenProperties
<1>7. QED
  BY <1>1, <1>2, <1>3, <1>4, <1>5, <1>6 DEF ReadOne, T

\* A packet whose checksum is good is taken, in the frame and slot it was sent for.
LEMMA ProcessTakes ==
  ASSUME WireOK, AssemblerOK(asm), InStep, diag.dropped_subframes \in Nat,
         ProcessPacket, Head(wire).fate # "badCrc"
  PROVE  \E f, x, st, arr : Takes(f, x, st, arr)
<1>1. ReadOne /\ 1 \in DOMAIN wire /\ Head(wire) = wire[1]
      /\ wire[1] \in [words : Subframe, fate : Fates]
  BY ReadOneFacts
<1> DEFINE f  == wire[1].words.frame
           x  == wire[1].words.slot + 1
           in == Judged(wire[1])
           r  == S!Take(asm, in)
<1>2. f \in Nat /\ x \in S!Slots /\ wire[1].words = Place(f, x)
  BY <1>1, PlaceFacts
<1>3. in.sf = x /\ in.id = f /\ in.damage = {} /\ in.payload = Place(f, x)
  BY <1>2 DEF Judged
<1>4. asm.expected # 1 /\ f = asm.frame_index => asm.states[x] \in Waiting
  BY <1>1 DEF InStep
<1> HIDE DEF in
<1>5. PICK st, arr :
        /\ st \in Kept
        /\ ArrivalOf(arr, asm, f, x, Place(f, x), st)
        /\ AssemblerAfter(r.asm, asm, f, x, Place(f, x), st)
        /\ ArrivalsAre(r.arrivals, arr, asm, f)
  <2> HIDE DEF f, x
  <2>1. asm.expected # 1 /\ in.id = asm.frame_index => asm.states[in.sf] \in Waiting
    BY <1>3, <1>4
  <2>2. in.sf \in S!Slots /\ in.id \in Nat /\ in.damage = {}
    BY <1>2, <1>3
  <2>3. QED
    BY <2>1, <2>2, <1>3, TakeWithId
<1>6. /\ asm' = r.asm /\ arrivals' = r.arrivals
      /\ diag' = S!CountedAll(diag, r.arrivals)
      /\ published' = published \cup Completed(r.arrivals)
      /\ UNCHANGED <<device, lost>>
  BY <1>1 DEF ProcessPacket, in
<1>7. Place(f, x) \notin lost
  BY <1>1, <1>2 DEF WireOK
<1> HIDE DEF r, f, x
<1> DEFINE c == S!ClosedArrival(asm)
<1>8. c.frame_index = asm.frame_index /\ c.frame_completed = TRUE
      /\ c.subframe_states = Closed(asm)
  BY DEF S!ClosedArrival, S!Arrival, S!Forfeited, S!Assembler, Closed
<1>9. arr.frame_index = f /\ arr.frame_completed = (x = 4)
      /\ arr.subframe_states = Stored(asm, f, x, st)
  BY <1>5 DEF ArrivalOf
<1>10. ASSUME NEW d, NEW k
       PROVE  /\ k.frame_completed = TRUE =>
                   S!Counted(d, k).dropped_subframes
                     = d.dropped_subframes + S!Count(k.subframe_states, "MISSING")
              /\ k.frame_completed = FALSE =>
                   S!Counted(d, k).dropped_subframes = d.dropped_subframes + 0
  BY DEF S!Counted
<1>11. S!Count(Closed(asm), "MISSING") \in Nat /\ S!Count(Stored(asm, f, x, st), "MISSING") \in Nat
  BY CountType
<1> HIDE DEF c
<1>12. CASE Closes(f)
  <2>1. Len(r.arrivals) = 2 /\ DOMAIN r.arrivals = {1, 2}
        /\ r.arrivals[1] = c /\ r.arrivals[2] = arr
    BY <1>5, <1>12 DEF ArrivalsAre, Closes, c
  <2>2. Completed(r.arrivals) = {asm.frame_index} \cup (IF x = 4 THEN {f} ELSE {})
    BY <2>1, <1>8, <1>9 DEF Completed
  <2>3. diag' = S!Counted(S!Counted(diag, c), arr)
    BY <2>1, <1>6 DEF S!CountedAll
  <2>4. diag'.dropped_subframes =
          diag.dropped_subframes + S!Count(Closed(asm), "MISSING")
            + IF x = 4 THEN S!Count(Stored(asm, f, x, st), "MISSING") ELSE 0
    <3>1. S!Counted(diag, c).dropped_subframes
            = diag.dropped_subframes + S!Count(Closed(asm), "MISSING")
      BY <1>8, <1>10
    <3>2. CASE x = 4
      <4>1. arr.frame_completed = TRUE
        BY <3>2, <1>9
      <4>2. S!Counted(S!Counted(diag, c), arr).dropped_subframes
              = S!Counted(diag, c).dropped_subframes + S!Count(arr.subframe_states, "MISSING")
        BY <4>1, <1>10
      <4>3. QED
        BY <2>3, <3>1, <3>2, <4>2, <1>9
    <3>3. CASE x # 4
      <4>1. arr.frame_completed = FALSE
        BY <3>3, <1>9
      <4>2. S!Counted(S!Counted(diag, c), arr).dropped_subframes
              = S!Counted(diag, c).dropped_subframes + 0
        BY <4>1, <1>10
      <4>3. QED
        BY <2>3, <3>1, <3>3, <4>2
    <3>4. QED
      BY <3>2, <3>3
  <2>5. published' = published \cup {asm.frame_index} \cup (IF x = 4 THEN {f} ELSE {})
    BY <2>2, <1>6
  <2>6. Takes(f, x, st, arr)
    BY <1>1, <1>2, <1>5, <1>6, <1>7, <1>12, <2>4, <2>5 DEF Takes
  <2>7. QED
    BY <2>6
<1>13. CASE ~Closes(f)
  <2>1. Len(r.arrivals) = 1 /\ DOMAIN r.arrivals = {1} /\ r.arrivals[1] = arr
    BY <1>5, <1>13 DEF ArrivalsAre, Closes
  <2>2. Completed(r.arrivals) = IF x = 4 THEN {f} ELSE {}
    BY <2>1, <1>9 DEF Completed
  <2>3. diag' = S!Counted(diag, arr)
    BY <2>1, <1>6 DEF S!CountedAll
  <2>4. diag'.dropped_subframes =
          diag.dropped_subframes + 0
            + IF x = 4 THEN S!Count(Stored(asm, f, x, st), "MISSING") ELSE 0
    <3>1. CASE x = 4
      <4>1. arr.frame_completed = TRUE
        BY <3>1, <1>9
      <4>2. S!Counted(diag, arr).dropped_subframes
              = diag.dropped_subframes + S!Count(arr.subframe_states, "MISSING")
        BY <4>1, <1>10
      <4>3. QED
        BY <2>3, <3>1, <4>2, <1>9, <1>11
    <3>2. CASE x # 4
      <4>1. arr.frame_completed = FALSE
        BY <3>2, <1>9
      <4>2. S!Counted(diag, arr).dropped_subframes = diag.dropped_subframes + 0
        BY <4>1, <1>10
      <4>3. QED
        BY <2>3, <3>2, <4>2
    <3>3. QED
      BY <3>1, <3>2
  <2>5. published' = published \cup {} \cup (IF x = 4 THEN {f} ELSE {})
    BY <2>2, <1>6
  <2>6. Takes(f, x, st, arr)
    BY <1>1, <1>2, <1>5, <1>6, <1>7, <1>13, <2>4, <2>5 DEF Takes
  <2>7. QED
    BY <2>6
<1>14. QED
  BY <1>12, <1>13
-----------------------------------------------------------------------------
(* What an accepted packet preserves *)

\* The slots of frame f after the packet: the one it fills, and those the
\* frame under way already held.
LEMMA StoredFacts ==
  ASSUME AssemblerOK(asm), NEW f \in Nat, NEW x \in S!Slots, NEW st \in Kept
  PROVE  /\ Stored(asm, f, x, st) \in [S!Slots -> S!SubframeStates]
         /\ \A s \in S!Slots :
              Stored(asm, f, x, st)[s] \notin Waiting <=> s = x \/ IsHeld(asm, Place(f, s))
         /\ x = 4 => \A s \in S!Slots : Stored(asm, f, x, st)[s] # "PENDING"
<1>1. Base(asm, f) \in [S!Slots -> S!SubframeStates]
  BY DEF Base, AssemblerOK, S!AllPending, S!SubframeStates
<1>2. ASSUME NEW s \in S!Slots
      PROVE  Base(asm, f)[s] \notin Waiting <=> IsHeld(asm, Place(f, s))
  <2>1. Place(f, s).frame = f /\ Place(f, s).slot + 1 = s
    BY PlaceFacts
  <2>2. IsHeld(asm, Place(f, s)) <=> f = asm.frame_index /\ asm.states[s] \notin Waiting
    BY <2>1 DEF IsHeld
  <2>3. asm.expected = 1 => asm.states[s] \in Waiting
    BY FourSlots DEF AssemblerOK, Waiting
  <2>4. QED
    BY <2>2, <2>3 DEF Base, S!AllPending, Waiting
<1>3. ASSUME NEW s \in S!Slots
      PROVE  Stored(asm, f, x, st)[s] = IF s = x THEN st
                                        ELSE IF s < x /\ Base(asm, f)[s] = "PENDING" THEN "MISSING"
                                        ELSE Base(asm, f)[s]
  BY DEF Stored
<1>4. Stored(asm, f, x, st) \in [S!Slots -> S!SubframeStates]
  <2>1. \A s \in S!Slots : Stored(asm, f, x, st)[s] \in S!SubframeStates
    BY <1>1, <1>3 DEF Kept, S!SubframeStates
  <2>2. QED
    BY <2>1 DEF Stored
<1>5. ASSUME NEW s \in S!Slots
      PROVE  Stored(asm, f, x, st)[s] \notin Waiting <=> s = x \/ IsHeld(asm, Place(f, s))
  <2>1. CASE s = x
    BY <2>1, <1>3 DEF Kept, Waiting
  <2>2. CASE s # x
    BY <2>2, <1>2, <1>3 DEF Waiting
  <2>3. QED
    BY <2>1, <2>2
<1>6. ASSUME x = 4, NEW s \in S!Slots
      PROVE  Stored(asm, f, x, st)[s] # "PENDING"
  <2>1. s = x \/ s < x
    BY <1>6, FourSlots
  <2>2. QED
    BY <2>1, <1>3 DEF Kept
<1>7. QED
  BY <1>4, <1>5, <1>6

\* What the assembler holds after the packet.
LEMMA HeldAfter ==
  ASSUME AssemblerOK(asm), NEW f, NEW x, NEW st, NEW arr, Takes(f, x, st, arr)
  PROVE  /\ asm'.expected = 1 <=> x = 4
         /\ asm'.expected # 1 => asm'.frame_index = f
         /\ AssemblerOK(asm')
         /\ \A y \in Subframe :
              IsHeld(asm', y) <=> x # 4 /\ y.frame = f /\ (y = Place(f, x) \/ IsHeld(asm, y))
<1>1. f \in Nat /\ x \in S!Slots /\ st \in Kept /\ x \in 1 .. 4
  BY FourSlots DEF Takes
<1>2. AssemblerAfter(asm', asm, f, x, Place(f, x), st)
  BY DEF Takes
<1>3. CASE x = 4
  <2>1. asm'.frame_index = f + 1 /\ asm'.states = S!AllPending /\ asm'.expected = 1
        /\ DOMAIN asm'.words = S!Slots
    BY <1>2, <1>3 DEF AssemblerAfter, AssemblerOK
  <2>2. AssemblerOK(asm')
    BY <1>1, <2>1, FourSlots DEF AssemblerOK, S!AllPending, S!SubframeStates, Waiting
  <2>3. \A y \in Subframe : ~IsHeld(asm', y)
    BY <2>1, PlaceFacts DEF IsHeld, S!AllPending, Waiting
  <2>4. QED
    BY <1>3, <2>1, <2>2, <2>3
<1>4. CASE x # 4
  <2>1. /\ asm'.frame_index = f /\ asm'.states = Stored(asm, f, x, st)
        /\ asm'.expected \in 2 .. 4
        /\ asm'.words = [asm.words EXCEPT ![x] = Place(f, x)]
        /\ \A s \in S!Slots : asm'.states[s] = "PENDING" <=> asm'.expected <= s
    BY <1>2, <1>4 DEF AssemblerAfter
  <2>2. \A s \in S!Slots : asm'.states[s] \notin Waiting <=> s = x \/ IsHeld(asm, Place(f, s))
    BY <1>1, <2>1, StoredFacts
  <2>3. ASSUME NEW s \in S!Slots, asm'.states[s] \notin Waiting
        PROVE  asm'.words[s] = Place(f, s)
    <3>1. CASE s = x
      BY <1>1, <2>1, <3>1 DEF AssemblerOK
    <3>2. CASE s # x
      <4>1. IsHeld(asm, Place(f, s))
        BY <2>2, <2>3, <3>2
      <4>2. f = asm.frame_index /\ asm.states[s] \notin Waiting
        BY <1>1, <4>1, PlaceFacts DEF IsHeld
      <4>3. QED
        BY <1>1, <2>1, <3>2, <4>2 DEF AssemblerOK
    <3>3. QED
      BY <3>1, <3>2
  <2>4. AssemblerOK(asm')
    <3>1. asm'.states \in [S!Slots -> S!SubframeStates]
      BY <1>1, <2>1, StoredFacts
    <3>2. DOMAIN asm'.words = S!Slots
      BY <2>1 DEF AssemblerOK
    <3>3. QED
      BY <1>1, <2>1, <2>3, <3>1, <3>2 DEF AssemblerOK
  <2>5. ASSUME NEW y \in Subframe
        PROVE  IsHeld(asm', y) <=> y.frame = f /\ (y = Place(f, x) \/ IsHeld(asm, y))
    <3>1. y.slot + 1 \in S!Slots /\ y = Place(y.frame, y.slot + 1)
      BY PlaceFacts
    <3>2. y.frame = f => (y.slot + 1 = x <=> y = Place(f, x))
      BY <1>1, <3>1, PlaceFacts
    <3>3. QED
      BY <2>1, <2>2, <3>1, <3>2 DEF IsHeld
  <2>6. QED
    BY <1>4, <2>1, <2>4, <2>5
<1>5. QED
  BY <1>3, <1>4

\* Everything left on the line comes after the packet.
LEMMA LineAfter ==
  ASSUME WireOK, LostOK, PublishedOK, NEW f, NEW x, NEW st, NEW arr, Takes(f, x, st, arr), ReadOne
  PROVE  /\ IsSent(Place(f, x)) /\ Place(f, x) \in Subframe
         /\ \A i \in DOMAIN wire' : wire'[i].words \in Subframe /\ Precedes(Place(f, x), wire'[i].words)
         /\ \A y : OnWire(wire, y) <=> y = Place(f, x) \/ OnWire(wire', y)
<1>1. /\ f \in Nat /\ x \in S!Slots /\ wire[1].words = Place(f, x) /\ 1 \in DOMAIN wire
  BY DEF Takes
<1>2. DOMAIN wire = 1 .. Len(wire) /\ Len(wire) \in Nat /\ DOMAIN wire' = 1 .. Len(wire) - 1
      /\ \A i \in DOMAIN wire : wire[i].words \in Subframe
  <2>1. \A p \in [words : Subframe, fate : Fates] : p.words \in Subframe
    OBVIOUS
  <2>2. QED
    BY <2>1, LenProperties DEF WireOK, ReadOne
<1>3. \A i \in DOMAIN wire' : i + 1 \in DOMAIN wire /\ wire'[i] = wire[i + 1] /\ 1 < i + 1
  BY <1>2 DEF ReadOne
<1>4. \A i \in DOMAIN wire' : wire'[i].words \in Subframe /\ Precedes(Place(f, x), wire'[i].words)
  BY <1>1, <1>2, <1>3 DEF WireOK
<1>5. ASSUME NEW y
      PROVE  OnWire(wire, y) <=> y = Place(f, x) \/ OnWire(wire', y)
  <2>1. ASSUME NEW i \in DOMAIN wire, wire[i].words = y
        PROVE  y = Place(f, x) \/ OnWire(wire', y)
    <3>1. CASE i = 1
      BY <1>1, <2>1, <3>1
    <3>2. CASE i # 1
      <4>1. i - 1 \in DOMAIN wire' /\ (i - 1) + 1 = i
        BY <1>2, <3>2
      <4>2. QED
        BY <1>3, <2>1, <4>1 DEF OnWire
    <3>3. QED
      BY <3>1, <3>2
  <2>2. ASSUME NEW i \in DOMAIN wire', wire'[i].words = y
        PROVE  OnWire(wire, y)
    BY <1>3, <2>2 DEF OnWire
  <2>3. QED
    BY <1>1, <2>1, <2>2 DEF OnWire
<1>6. QED
  BY <1>1, <1>4, <1>5, PlaceFacts DEF WireOK
\* The frame that a packet closes: its missing slots are its losses.
LEMMA ClosedIsAccounted ==
  ASSUME DeviceOK, WireOK, AssemblerOK(asm), InStep, PublishedOK, Accounted, LostOK,
         NEW f, NEW x, NEW st, NEW arr, Takes(f, x, st, arr), ReadOne, Closes(f)
  PROVE  /\ asm.frame_index \in Nat /\ asm.frame_index < f /\ f <= device.frame_id
         /\ asm.frame_index \notin published
         /\ \A s \in S!Slots :
              /\ Closed(asm)[s] # "PENDING"
              /\ Closed(asm)[s] = "MISSING" <=> Place(asm.frame_index, s) \in lost
              /\ Closed(asm)[s] # "MISSING" => Closed(asm)[s] = asm.states[s]
<1> DEFINE g == asm.frame_index
<1>1. /\ f \in Nat /\ wire[1].words = Place(f, x) /\ 1 \in DOMAIN wire
      /\ asm.expected # 1 /\ f # g
      /\ x \in S!Slots
  BY DEF Takes, Closes
<1>2. g \in Nat /\ Place(f, x).frame = f
  BY <1>1, PlaceFacts DEF AssemblerOK
<1>3. g < f
  <2>1. f >= g
    BY <1>1, <1>2 DEF InStep
  <2>2. QED
    BY <1>1, <1>2, <2>1
<1>4. f <= device.frame_id /\ device.frame_id \in Nat
  <2>1. IsSent(Place(f, x))
    BY <1>1 DEF WireOK
  <2>2. QED
    BY <1>1, <1>2, <2>1 DEF IsSent, DeviceOK
<1>5. g \notin published
  BY <1>1, <1>2 DEF PublishedOK
<1>6. ASSUME NEW s \in S!Slots
      PROVE  asm.states[s] \in Waiting <=> Place(g, s) \in lost
  <2>1. Place(g, s) \in Subframe /\ Place(g, s).frame = g /\ Place(g, s).slot + 1 = s
    BY <1>2, PlaceFacts
  <2>2. IsSent(Place(g, s))
    BY <1>2, <1>3, <1>4, <1>1, <2>1 DEF IsSent
  <2>3. ~OnWire(wire, Place(g, s))
    <3>1. Place(g, s) # Place(f, x)
      BY <1>1, <1>2, <2>1
    <3>2. ~OnWire(wire', Place(g, s))
      <4>1. SUFFICES ASSUME NEW i \in DOMAIN wire', wire'[i].words = Place(g, s)
                     PROVE  FALSE
        BY DEF OnWire
      <4>2. Precedes(Place(f, x), Place(g, s)) /\ Place(f, x) \in Subframe
        BY <4>1, LineAfter
      <4>3. f <= g
        BY <4>2, <2>1, <1>2, PrecedesStrict
      <4>4. QED
        BY <4>3, <1>1, <1>2, <1>3
    <3>3. QED
      BY <3>1, <3>2, LineAfter
  <2>4. IsHeld(asm, Place(g, s)) <=> asm.states[s] \notin Waiting
    BY <2>1 DEF IsHeld
  <2>5. QED
    BY <1>5, <2>1, <2>2, <2>3, <2>4 DEF Accounted, LostOK
<1>7. \A s \in S!Slots : Closed(asm)[s] = IF asm.states[s] = "PENDING" THEN "MISSING" ELSE asm.states[s]
  BY DEF Closed
<1>8. QED
  BY <1>2, <1>3, <1>4, <1>5, <1>6, <1>7 DEF Waiting

\* The frame that a packet completes: its missing slots are its losses.
LEMMA DoneIsAccounted ==
  ASSUME DeviceOK, WireOK, AssemblerOK(asm), InStep, PublishedOK, Accounted, LostOK,
         NEW f, NEW st, NEW arr, Takes(f, 4, st, arr), ReadOne
  PROVE  /\ f \in Nat /\ f < device.frame_id /\ f \notin published
         /\ \A s \in S!Slots :
              /\ Stored(asm, f, 4, st)[s] # "PENDING"
              /\ Stored(asm, f, 4, st)[s] = "MISSING" <=> Place(f, s) \in lost
<1>1. /\ f \in Nat /\ wire[1].words = Place(f, 4) /\ 1 \in DOMAIN wire /\ st \in Kept
      /\ Place(f, 4) \notin lost /\ 4 \in S!Slots
  BY FourSlots DEF Takes
<1>2. IsSent(Place(f, 4))
  BY <1>1 DEF WireOK
<1>3. f < device.frame_id /\ \A s \in S!Slots : IsSent(Place(f, s))
  BY <1>1, <1>2, LastSlotSent
<1>4. f \notin published
  BY <1>1, PlaceFacts DEF PublishedOK
<1>5. ASSUME NEW s \in S!Slots
      PROVE  Stored(asm, f, 4, st)[s] \in Waiting <=> Place(f, s) \in lost
  <2>1. Stored(asm, f, 4, st)[s] \notin Waiting <=> s = 4 \/ IsHeld(asm, Place(f, s))
    BY <1>1, StoredFacts
  <2>2. Place(f, s) \in Subframe /\ Place(f, s).frame = f /\ Place(f, s).slot + 1 = s
    BY <1>1, PlaceFacts
  <2>3. CASE s = 4
    BY <1>1, <2>1, <2>3
  <2>4. CASE s # 4
    <3>1. Place(f, s) # Place(f, 4)
      BY <1>1, <2>2, <2>4, PlaceFacts
    <3>2. ~OnWire(wire', Place(f, s))
      <4>1. SUFFICES ASSUME NEW i \in DOMAIN wire', wire'[i].words = Place(f, s)
                     PROVE  FALSE
        BY DEF OnWire
      <4>2. Precedes(Place(f, 4), Place(f, s)) /\ Place(f, 4) \in Subframe
        BY <4>1, LineAfter
      <4>3. Place(f, 4).slot = 3 /\ Place(f, 4).frame = f
        BY DEF Place
      <4>4. f < f
        BY <4>2, <4>3, <2>2, PrecedesStrict
      <4>5. QED
        BY <4>4, <1>1
    <3>3. ~OnWire(wire, Place(f, s))
      BY <3>1, <3>2, LineAfter
    <3>4. QED
      BY <1>3, <1>4, <2>1, <2>2, <2>4, <3>3 DEF Accounted, LostOK
  <2>5. QED
    BY <2>3, <2>4
<1>6. \A s \in S!Slots : Stored(asm, f, 4, st)[s] # "PENDING"
  BY <1>1, StoredFacts
<1>7. QED
  BY <1>1, <1>3, <1>4, <1>5, <1>6 DEF Waiting

\* The drop counter grows by the losses of the frame a packet closes or completes.
LEMMA TakesKeepsCount ==
  ASSUME IInv, NEW f, NEW x, NEW st, NEW arr, Takes(f, x, st, arr), ReadOne
  PROVE  DroppedCounted'
<1> DEFINE g  == asm.frame_index
           P1 == published \cup (IF Closes(f) THEN {g} ELSE {})
           P2 == P1 \cup (IF x = 4 THEN {f} ELSE {})
           Sum(P) == Cardinality({l \in lost : l.frame \in P})
           c1 == IF Closes(f) THEN S!Count(Closed(asm), "MISSING") ELSE 0
           c2 == IF x = 4 THEN S!Count(Stored(asm, f, x, st), "MISSING") ELSE 0
<1> USE DEF IInv
<1>1. published' = P2 /\ diag'.dropped_subframes = diag.dropped_subframes + c1 + c2
      /\ lost' = lost
  BY DEF Takes
<1>2. diag.dropped_subframes = Sum(published) /\ lost \in SUBSET Subframe /\ IsFiniteSet(lost)
  BY DEF MissingIsLost, DroppedCounted, LostOK
<1>3. ASSUME NEW P, NEW h, h \notin P
      PROVE  /\ Sum(P \cup {h}) = Sum(P) + Cardinality(LossesOf(lost, h))
             /\ Cardinality(LossesOf(lost, h)) \in Nat
  BY <1>2, <1>3, LossesAdd
<1>4. ASSUME NEW P PROVE Sum(P) \in Nat
  <2>1. IsFiniteSet({l \in lost : l.frame \in P})
    BY <1>2, FS_Subset
  <2>2. QED
    BY <2>1, FS_CardinalityType
<1>5. DroppedCounted' <=> diag'.dropped_subframes = Sum(P2)
  BY <1>1 DEF DroppedCounted
<1> HIDE DEF Sum, IInv
<1>6. Sum(P1) = Sum(published) + c1 /\ c1 \in Nat
  <2>1. CASE Closes(f)
    <3>1. g \in Nat /\ g \notin published
          /\ \A s \in S!Slots : Closed(asm)[s] = "MISSING" <=> Place(g, s) \in lost
      BY <2>1, ClosedIsAccounted DEF IInv
    <3>2. S!Count(Closed(asm), "MISSING") = Cardinality(LossesOf(lost, g))
      BY <1>2, <3>1, CountsLosses
    <3>3. P1 = published \cup {g} /\ c1 = Cardinality(LossesOf(lost, g))
      BY <2>1, <3>2
    <3> HIDE DEF P1, c1
    <3>4. QED
      BY <1>3, <3>1, <3>3
  <2>2. CASE ~Closes(f)
    <3>1. P1 = published /\ c1 = 0
      BY <2>2
    <3> HIDE DEF P1, c1
    <3>2. QED
      BY <3>1, <1>4
  <2>3. QED
    BY <2>1, <2>2
<1>7. Sum(P2) = Sum(P1) + c2 /\ c2 \in Nat
  <2>1. CASE x = 4
    <3>1. f \in Nat /\ f \notin published
          /\ \A s \in S!Slots : Stored(asm, f, x, st)[s] = "MISSING" <=> Place(f, s) \in lost
      BY <2>1, DoneIsAccounted DEF IInv
    <3>2. f \notin P1
      BY <3>1 DEF Closes
    <3>3. S!Count(Stored(asm, f, x, st), "MISSING") = Cardinality(LossesOf(lost, f))
      BY <1>2, <3>1, CountsLosses
    <3>4. P2 = P1 \cup {f} /\ c2 = Cardinality(LossesOf(lost, f))
      BY <2>1, <3>3
    <3> HIDE DEF P1, P2, c2
    <3>5. QED
      BY <1>3, <3>2, <3>4
  <2>2. CASE x # 4
    <3>1. P2 = P1 /\ c2 = 0
      BY <2>2
    <3> HIDE DEF P1, P2, c2
    <3>2. QED
      BY <3>1, <1>4
  <2>3. QED
    BY <2>1, <2>2
<1>8. diag.dropped_subframes = Sum(published) /\ Sum(published) \in Nat
  BY <1>2, <1>4 DEF Sum
<1> HIDE DEF P1, P2, c1, c2
<1>9. QED
  BY <1>1, <1>5, <1>6, <1>7, <1>8

\* The arrivals of the packet say what was sent, and what was lost.
LEMMA TakesArrivals ==
  ASSUME IInv, NEW f, NEW x, NEW st, NEW arr, Takes(f, x, st, arr), ReadOne
  PROVE  FrameIdentity' /\ MissingIsLost'
<1> DEFINE g == asm.frame_index
           Told(a) ==
             \A s \in S!Slots :
               /\ a.subframe_states[s] \notin {"PENDING", "MISSING"} => a.words[s] = Place(a.frame_index, s)
               /\ a.frame_completed =>
                    (a.subframe_states[s] \in {"MISSING", "PENDING"} <=> Place(a.frame_index, s) \in lost)
<1> USE DEF IInv
<1>1. f \in Nat /\ x \in S!Slots /\ st \in Kept /\ lost' = lost
  BY DEF Takes
<1>2. Told(arr)
  <2>1. /\ arr.frame_index = f /\ arr.words = [asm.words EXCEPT ![x] = Place(f, x)]
        /\ arr.subframe_states = Stored(asm, f, x, st) /\ arr.frame_completed = (x = 4)
    BY DEF Takes, ArrivalOf
  <2>2. ASSUME NEW s \in S!Slots, Stored(asm, f, x, st)[s] \notin Waiting
        PROVE  arr.words[s] = Place(f, s)
    <3>1. CASE s = x
      BY <1>1, <2>1, <3>1 DEF AssemblerOK
    <3>2. CASE s # x
      <4>1. IsHeld(asm, Place(f, s))
        BY <1>1, <2>2, <3>2, StoredFacts
      <4>2. f = asm.frame_index /\ asm.states[s] \notin Waiting
        BY <1>1, <4>1, PlaceFacts DEF IsHeld
      <4>3. QED
        BY <1>1, <2>1, <3>2, <4>2 DEF AssemblerOK
    <3>3. QED
      BY <3>1, <3>2
  <2>3. ASSUME NEW s \in S!Slots, x = 4
        PROVE  Stored(asm, f, x, st)[s] \in Waiting <=> Place(f, s) \in lost
    <3>1. Takes(f, 4, st, arr)
      BY <2>3
    <3>2. QED
      BY <2>3, <3>1, DoneIsAccounted DEF Waiting
  <2>4. QED
    BY <2>1, <2>2, <2>3 DEF Waiting
<1>3. ASSUME Closes(f) PROVE Told(S!ClosedArrival(asm))
  <2>1. /\ S!ClosedArrival(asm).frame_index = g /\ S!ClosedArrival(asm).words = asm.words
        /\ S!ClosedArrival(asm).subframe_states = Closed(asm)
    BY DEF S!ClosedArrival, S!Arrival, S!Forfeited, S!Assembler, Closed
  <2>2. \A s \in S!Slots :
          /\ Closed(asm)[s] # "PENDING"
          /\ Closed(asm)[s] = "MISSING" <=> Place(g, s) \in lost
          /\ Closed(asm)[s] # "MISSING" => Closed(asm)[s] = asm.states[s]
    BY <1>3, ClosedIsAccounted
  <2>3. ASSUME NEW s \in S!Slots, Closed(asm)[s] \notin Waiting
        PROVE  asm.words[s] = Place(g, s)
    BY <2>2, <2>3 DEF AssemblerOK, Waiting
  <2>4. QED
    BY <2>1, <2>2, <2>3 DEF Waiting
<1>4. \A i \in DOMAIN arrivals' : Told(arrivals'[i])
  <2>1. ArrivalsAre(arrivals', arr, asm, f)
    BY DEF Takes
  <2>2. CASE Closes(f)
    <3>1. DOMAIN arrivals' = {1, 2} /\ arrivals'[1] = S!ClosedArrival(asm) /\ arrivals'[2] = arr
      BY <2>1, <2>2 DEF ArrivalsAre, Closes
    <3> HIDE DEF Told
    <3>2. QED
      BY <1>2, <1>3, <2>2, <3>1
  <2>3. CASE ~Closes(f)
    <3>1. DOMAIN arrivals' = {1} /\ arrivals'[1] = arr
      BY <2>1, <2>3 DEF ArrivalsAre, Closes
    <3> HIDE DEF Told
    <3>2. QED
      BY <1>2, <3>1
  <2>4. QED
    BY <2>2, <2>3
<1>5. DroppedCounted'
  BY TakesKeepsCount
<1>6. FrameIdentity'
  BY <1>4 DEF FrameIdentity, Place
<1>7. MissingIsLost'
  BY <1>1, <1>4, <1>5 DEF MissingIsLost, Place
<1>8. QED
  BY <1>6, <1>7

\* An accepted packet leaves device, line, assembler and books in step.
LEMMA TakesKeeps ==
  ASSUME IInv, NEW f, NEW x, NEW st, NEW arr, Takes(f, x, st, arr), ReadOne
  PROVE  IInv'
<1> DEFINE g == asm.frame_index
<1> USE DEF IInv
<1>1. /\ f \in Nat /\ x \in S!Slots /\ wire[1].words = Place(f, x) /\ 1 \in DOMAIN wire
      /\ Place(f, x) \notin lost /\ device' = device /\ lost' = lost
      /\ published' = published \cup (IF Closes(f) THEN {g} ELSE {})
                               \cup (IF x = 4 THEN {f} ELSE {})
  BY DEF Takes
<1>2. \A y : IsSent(y)' <=> IsSent(y)
  BY <1>1 DEF IsSent
<1>3. /\ IsSent(Place(f, x)) /\ Place(f, x) \in Subframe
      /\ \A i \in DOMAIN wire' : wire'[i].words \in Subframe /\ Precedes(Place(f, x), wire'[i].words)
      /\ \A y : OnWire(wire, y) <=> y = Place(f, x) \/ OnWire(wire', y)
  BY LineAfter
<1>4. Place(f, x).frame = f /\ Place(f, x).slot + 1 = x
  BY <1>1, PlaceFacts
<1>5. /\ asm'.expected = 1 <=> x = 4
      /\ asm'.expected # 1 => asm'.frame_index = f
      /\ AssemblerOK(asm')
      /\ \A y \in Subframe :
           IsHeld(asm', y) <=> x # 4 /\ y.frame = f /\ (y = Place(f, x) \/ IsHeld(asm, y))
  BY HeldAfter
<1>6. f <= device.frame_id /\ device.frame_id \in Nat
  BY <1>1, <1>3, <1>4 DEF IsSent, DeviceOK
<1>7. ASSUME NEW i \in DOMAIN wire'
      PROVE  /\ wire'[i].words \in Subframe /\ wire'[i].words.frame \in Nat
             /\ wire'[i].words # Place(f, x)
             /\ f <= wire'[i].words.frame /\ (x = 4 => f < wire'[i].words.frame)
             /\ ~IsHeld(asm, wire'[i].words)
  <2>1. wire'[i].words \in Subframe /\ Precedes(Place(f, x), wire'[i].words)
    BY <1>3
  <2>2. /\ Place(f, x) # wire'[i].words /\ f <= wire'[i].words.frame
        /\ x = 4 => f < wire'[i].words.frame
    BY <1>1, <1>3, <1>4, <2>1, PrecedesStrict, FourSlots DEF Place
  <2>3. wire'[i].words.frame \in Nat
    BY <2>1, PlaceFacts
  <2>4. i + 1 \in DOMAIN wire /\ wire'[i] = wire[i + 1]
    BY DEF ReadOne
  <2>5. ~IsHeld(asm, wire'[i].words)
    <3>1. CASE asm.expected = 1
      <4>1. wire'[i].words.slot + 1 \in S!Slots
        BY <2>1, PlaceFacts
      <4>2. asm.states[wire'[i].words.slot + 1] = "PENDING"
        BY <3>1, <4>1, FourSlots DEF AssemblerOK
      <4>3. QED
        BY <4>2 DEF IsHeld, Waiting
    <3>2. CASE asm.expected # 1
      BY <2>4, <3>2 DEF InStep, IsHeld
    <3>3. QED
      BY <3>1, <3>2
  <2>6. QED
    BY <2>1, <2>2, <2>3, <2>5
<1>8. DeviceOK'
  BY <1>1 DEF DeviceOK
<1>9. WireOK'
  <2>1. wire' \in Seq([words : Subframe, fate : Fates])
    BY DEF ReadOne
  <2>2. \A i \in DOMAIN wire' : i + 1 \in DOMAIN wire /\ wire'[i] = wire[i + 1]
    BY DEF ReadOne
  <2>3. \A i, j \in DOMAIN wire' : i < j => i + 1 < j + 1
    <3>1. DOMAIN wire' = 1 .. Len(wire')
      BY <2>1, LenProperties
    <3>2. QED
      BY <3>1
  <2>4. \A i \in DOMAIN wire' : IsSent(wire'[i].words)
    BY <2>2 DEF WireOK
  <2>5. \A i, j \in DOMAIN wire' : i < j => Precedes(wire'[i].words, wire'[j].words)
    BY <2>2, <2>3 DEF WireOK
  <2>6. \A i \in DOMAIN wire' : wire'[i].fate = "badCrc" <=> wire'[i].words \in lost'
    BY <1>1, <2>2 DEF WireOK
  <2>7. QED
    BY <1>1, <2>1, <2>4, <2>5, <2>6 DEF WireOK, IsSent
<1>10. HeldSent'
  <2>1. ASSUME NEW s \in S!Slots, asm'.states[s] \notin Waiting
        PROVE  IsSent(Place(asm'.frame_index, s))
    <3>1. asm'.frame_index \in Nat
      BY <1>5 DEF AssemblerOK
    <3>2. Place(asm'.frame_index, s) \in Subframe /\ IsHeld(asm', Place(asm'.frame_index, s))
      BY <2>1, <3>1, PlaceFacts DEF IsHeld
    <3>3. CASE Place(asm'.frame_index, s) = Place(f, x)
      BY <1>3, <3>3
    <3>4. CASE IsHeld(asm, Place(asm'.frame_index, s))
      <4>1. g = asm'.frame_index /\ asm.states[s] \notin Waiting
        BY <3>1, <3>4, PlaceFacts DEF IsHeld
      <4>2. QED
        BY <4>1 DEF HeldSent
    <3>5. QED
      BY <1>5, <3>2, <3>3, <3>4
  <2>2. QED
    BY <1>2, <2>1 DEF HeldSent
<1>11. InStep'
  <2>1. SUFFICES ASSUME asm'.expected # 1
                 PROVE  /\ asm'.frame_index <= device'.frame_id
                        /\ \A i \in DOMAIN wire' :
                             /\ wire'[i].words.frame >= asm'.frame_index
                             /\ wire'[i].words.frame = asm'.frame_index =>
                                  asm'.states[wire'[i].words.slot + 1] \in Waiting
    BY DEF InStep
  <2>2. asm'.frame_index = f
    BY <1>5, <2>1
  <2>3. ASSUME NEW i \in DOMAIN wire', wire'[i].words.frame = f
        PROVE  asm'.states[wire'[i].words.slot + 1] \in Waiting
    <3>1. ~IsHeld(asm', wire'[i].words)
      BY <1>5, <1>7
    <3>2. QED
      BY <2>2, <2>3, <3>1 DEF IsHeld
  <2>4. QED
    BY <1>1, <1>6, <1>7, <2>2, <2>3
<1>12. PublishedOK'
  <2>1. ASSUME NEW h \in published'
        PROVE  /\ h \in Nat /\ h < device.frame_id
               /\ \A i \in DOMAIN wire' : h < wire'[i].words.frame
               /\ x # 4 => h < f
    <3>1. CASE h \in published
      <4>1. h \in Nat /\ h < device.frame_id /\ h < f
        BY <1>1, <1>4, <3>1 DEF PublishedOK
      <4>2. QED
        BY <1>1, <1>7, <4>1
    <3>2. CASE Closes(f) /\ h = g
      <4>1. h \in Nat /\ h < f
        BY <3>2, ClosedIsAccounted
      <4>2. QED
        BY <1>1, <1>6, <1>7, <4>1
    <3>3. CASE x = 4 /\ h = f
      <4>1. Takes(f, 4, st, arr)
        BY <3>3
      <4>2. f < device.frame_id
        BY <4>1, DoneIsAccounted
      <4>3. QED
        BY <1>1, <1>7, <3>3, <4>2
    <3>4. QED
      BY <1>1, <3>1, <3>2, <3>3
  <2>2. QED
    BY <1>1, <1>5, <2>1 DEF PublishedOK
<1>13. Accounted'
  <2>1. SUFFICES ASSUME NEW y \in Subframe, IsSent(y)
                 PROVE  y \in lost \/ OnWire(wire', y) \/ IsHeld(asm', y) \/ y.frame \in published'
    BY <1>1, <1>2 DEF Accounted
  <2>2. y \in lost \/ OnWire(wire, y) \/ IsHeld(asm, y) \/ y.frame \in published
    BY <2>1 DEF Accounted
  <2>3. CASE y = Place(f, x)
    BY <1>1, <1>3, <1>4, <1>5, <2>3
  <2>4. CASE IsHeld(asm, y)
    <3>1. y.frame = g /\ asm.expected # 1
      <4>1. y.slot + 1 \in S!Slots
        BY PlaceFacts
      <4>2. QED
        BY <2>4, <4>1, FourSlots DEF IsHeld, AssemblerOK, Waiting
    <3>2. CASE f # g
      BY <1>1, <3>1, <3>2 DEF Closes
    <3>3. CASE f = g
      BY <1>1, <1>5, <2>4, <3>1, <3>3
    <3>4. QED
      BY <3>2, <3>3
  <2>5. CASE y \in lost \/ OnWire(wire', y) \/ y.frame \in published
    BY <1>1, <2>5
  <2>6. QED
    BY <1>3, <2>2, <2>3, <2>4, <2>5
<1>14. LostOK'
  <2>1. ASSUME NEW y \in lost PROVE IsSent(y) /\ ~IsHeld(asm', y)
    BY <1>1, <1>5, <2>1 DEF LostOK
  <2>2. QED
    BY <1>1, <1>2, <2>1 DEF LostOK
<1>15. QED
  BY <1>5, <1>8, <1>9, <1>10, <1>11, <1>12, <1>13, <1>14, TakesArrivals

-----------------------------------------------------------------------------
\* The parser skips a packet: it is lost already.
LEMMA SkipKeeps ==
  ASSUME IInv, ProcessPacket, Head(wire).fate = "badCrc"
  PROVE  IInv'
<1> USE DEF IInv
<1>1. ReadOne /\ 1 \in DOMAIN wire /\ Head(wire) = wire[1]
  BY ReadOneFacts
<1>2. UNCHANGED <<device, lost, asm, diag, published>> /\ arrivals' = <<>>
  BY DEF ProcessPacket
<1>3. wire[1].words \in lost
  BY <1>1 DEF WireOK
<1>4. /\ wire' \in Seq([words : Subframe, fate : Fates])
      /\ \A i \in DOMAIN wire' : i + 1 \in DOMAIN wire /\ wire'[i] = wire[i + 1]
  BY <1>1 DEF ReadOne
<1>5. \A i, j \in DOMAIN wire' : i < j => i + 1 < j + 1
  <2>1. DOMAIN wire' = 1 .. Len(wire')
    BY <1>4, LenProperties
  <2>2. QED
    BY <2>1
<1>6. DeviceOK' /\ AssemblerOK(asm') /\ HeldSent'
  BY <1>2 DEF DeviceOK, AssemblerOK, HeldSent, IsSent
<1>7. WireOK'
  BY <1>2, <1>4, <1>5 DEF WireOK, IsSent
<1>8. InStep' /\ PublishedOK'
  BY <1>2, <1>4 DEF InStep, PublishedOK
<1>9. ASSUME NEW y, OnWire(wire, y) PROVE y \in lost \/ OnWire(wire', y)
  <2>1. PICK i \in DOMAIN wire : wire[i].words = y
    BY <1>9 DEF OnWire
  <2>2. CASE i = 1
    BY <1>3, <2>1, <2>2
  <2>3. CASE i # 1
    <3>1. DOMAIN wire = 1 .. Len(wire) /\ Len(wire) \in Nat
      BY LenProperties DEF WireOK
    <3>2. i - 1 \in DOMAIN wire' /\ i - 1 + 1 = i
      BY <1>1, <2>3, <3>1 DEF ReadOne
    <3>3. QED
      BY <1>4, <2>1, <3>2 DEF OnWire
  <2>4. QED
    BY <2>2, <2>3
<1>10. Accounted' /\ LostOK'
  BY <1>2, <1>9 DEF Accounted, LostOK, IsSent, IsHeld
<1>11. FrameIdentity' /\ MissingIsLost'
  <2>1. DOMAIN arrivals' = {}
    BY <1>2
  <2>2. DroppedCounted'
    BY <1>2 DEF MissingIsLost, DroppedCounted
  <2>3. QED
    BY <2>1, <2>2 DEF FrameIdentity, MissingIsLost
<1>12. QED
  BY <1>6, <1>7, <1>8, <1>10, <1>11

\* A packet read, whatever its fate.
LEMMA ProcessKeeps ==
  ASSUME IInv, ProcessPacket PROVE IInv'
<1>1. CASE Head(wire).fate = "badCrc"
  BY <1>1, SkipKeeps
<1>2. CASE Head(wire).fate # "badCrc"
  <2>1. diag.dropped_subframes \in Nat
    <3>1. IsFiniteSet({l \in lost : l.frame \in published})
      BY FS_Subset DEF IInv, LostOK
    <3>2. QED
      BY <3>1, FS_CardinalityType DEF IInv, MissingIsLost, DroppedCounted
  <2>2. PICK f, x, st, arr : Takes(f, x, st, arr)
    BY <1>2, <2>1, ProcessTakes DEF IInv
  <2>3. ReadOne
    BY ReadOneFacts DEF IInv
  <2>4. QED
    BY <2>2, <2>3, TakesKeeps
<1>3. QED
  BY <1>1, <1>2

-----------------------------------------------------------------------------
\* The device sends one more subframe, after all it has sent.
Sends(x) ==
  /\ x \in Subframe /\ x.frame = device.frame_id /\ ~IsSent(x)
  /\ \A y \in Subframe : IsSent(y) => Precedes(y, x)
  /\ DeviceOK' /\ device.frame_id <= device'.frame_id
  /\ \A y \in Subframe : IsSent(y)' <=> IsSent(y) \/ y = x

\* A turn of the device sends, or drops, the subframe whose turn it is.
LEMMA EmitSends ==
  ASSUME DeviceOK, NEW swap \in BOOLEAN, NEW drop, NEW fate, EmitSubframe(swap, drop, fate)
  PROVE  LET order == IF swap THEN Swapped ELSE device.order
         IN  Sends([frame |-> device.frame_id, slot |-> order[device.subframe_index + 1]])
<1> DEFINE order == IF swap THEN Swapped ELSE device.order
           id == device.frame_id
           k == device.subframe_index
           x == [frame |-> id, slot |-> order[k + 1]]
<1>1. /\ id \in Nat /\ k \in 0 .. 3 /\ device.order \in {InOrder, Swapped}
      /\ k = 0 => device.order = InOrder
      /\ device = [frame_id |-> id, subframe_index |-> k, order |-> device.order]
  BY DEF DeviceOK
<1>2. swap => k = 0
  BY DEF EmitSubframe
<1>3. order \in {InOrder, Swapped}
  BY <1>1
<1>4. device' = Advanced([frame_id |-> id, subframe_index |-> k, order |-> order])
  <2>1. [device EXCEPT !.order = IF swap THEN Swapped ELSE @] = [device EXCEPT !.order = order]
    OBVIOUS
  <2>2. [device EXCEPT !.order = order] = [frame_id |-> id, subframe_index |-> k, order |-> order]
    BY <1>1
  <2>3. device' = Advanced([device EXCEPT !.order = IF swap THEN Swapped ELSE @])
    BY DEF EmitSubframe
  <2>4. QED
    BY <2>1, <2>2, <2>3
<1>5. /\ k < 3 => device' = [frame_id |-> id, subframe_index |-> k + 1, order |-> order]
      /\ k = 3 => device' = [frame_id |-> id + 1, subframe_index |-> 0, order |-> InOrder]
  BY <1>1, <1>4 DEF Advanced
<1>6. \A i \in 1 .. 4 : /\ order[i] \in Slot
                        /\ order = InOrder => order[i] = i - 1
                        /\ order = Swapped => order[i] = CASE i = 1 -> 0 [] i = 2 -> 2 [] i = 3 -> 1 [] i = 4 -> 3
  BY <1>3 DEF InOrder, Swapped, Slot
<1>7. ASSUME NEW i \in 1 .. k PROVE device.order[i] = order[i]
  BY <1>1, <1>2
<1> HIDE DEF order
<1>8. x \in Subframe /\ x.frame = id /\ x.slot = order[k + 1] /\ k + 1 \in 1 .. 4
  BY <1>1, <1>6 DEF Subframe
<1>9. ASSUME NEW y \in Subframe
      PROVE  IsSent(y) <=> y.frame < id \/ (y.frame = id /\ \E i \in 1 .. k : y.slot = order[i])
  BY <1>7 DEF IsSent
<1>10. \A i \in 1 .. k : i \in 1 .. 4 /\ order[i] # order[k + 1]
                        /\ (order[i] < order[k + 1] \/ (order[i] = 2 /\ order[k + 1] = 1))
  BY <1>1, <1>3, <1>6
<1>11. ~IsSent(x)
  BY <1>1, <1>8, <1>9, <1>10
<1>12. ASSUME NEW y \in Subframe, IsSent(y) PROVE Precedes(y, x)
  BY <1>8, <1>9, <1>10, <1>12 DEF Precedes
<1>13. DeviceOK' /\ id <= device'.frame_id
  BY <1>1, <1>3, <1>5 DEF DeviceOK
<1>14. ASSUME NEW y \in Subframe PROVE IsSent(y)' <=> IsSent(y) \/ y = x
  <2>1. y.frame \in Nat /\ y.slot \in Slot /\ (y = x <=> y.frame = id /\ y.slot = order[k + 1])
    BY <1>8 DEF Subframe
  <2>2. CASE k < 3
    <3>1. IsSent(y)' <=> y.frame < id \/ (y.frame = id /\ \E i \in 1 .. k + 1 : y.slot = order[i])
      BY <1>5, <2>2 DEF IsSent
    <3>2. (\E i \in 1 .. k + 1 : y.slot = order[i])
            <=> (\E i \in 1 .. k : y.slot = order[i]) \/ y.slot = order[k + 1]
      BY <1>1
    <3>3. QED
      BY <1>1, <1>9, <2>1, <3>1, <3>2
  <2>3. CASE k = 3
    <3>1. IsSent(y)' <=> y.frame <= id
      BY <1>1, <1>5, <2>1, <2>3 DEF IsSent
    <3>2. (\E i \in 1 .. 3 : y.slot = order[i]) \/ y.slot = order[4]
      BY <1>3, <1>6, <2>1 DEF Slot
    <3>3. QED
      BY <1>1, <1>9, <2>1, <2>3, <3>1, <3>2
  <2>4. QED
    BY <1>1, <2>2, <2>3
<1>15. QED
  BY <1>8, <1>11, <1>12, <1>13, <1>14 DEF Sends, order

\* A subframe sent, lost or put on the line, is accounted for.
LEMMA EmitKeeps ==
  ASSUME IInv, NEW swap \in BOOLEAN, NEW drop \in BOOLEAN, NEW fate \in Fates,
         EmitSubframe(swap, drop, fate)
  PROVE  IInv'
<1> USE DEF IInv
<1> DEFINE order == IF swap THEN Swapped ELSE device.order
           T == [words : Subframe, fate : Fates]
<1>1. PICK x : /\ Sends(x)
               /\ wire' = IF drop THEN wire ELSE Append(wire, [words |-> x, fate |-> fate])
               /\ lost' = IF drop \/ fate = "badCrc" THEN lost \cup {x} ELSE lost
  <2> DEFINE d == [device EXCEPT !.order = IF swap THEN Swapped ELSE @]
             x == [frame |-> d.frame_id, slot |-> d.order[d.subframe_index + 1]]
  <2>1. x = [frame |-> device.frame_id, slot |-> order[device.subframe_index + 1]]
    BY DEF DeviceOK
  <2>2. Sends(x)
    BY <2>1, EmitSends
  <2>3. QED
    BY <2>2 DEF EmitSubframe
<1>2. UNCHANGED <<asm, diag, published>> /\ arrivals' = <<>>
  BY DEF EmitSubframe
<1>3. /\ x \in Subframe /\ x.frame = device.frame_id /\ ~IsSent(x) /\ device.frame_id \in Nat
      /\ \A y \in Subframe : IsSent(y) => Precedes(y, x)
      /\ \A y \in Subframe : IsSent(y)' <=> IsSent(y) \/ y = x
  BY <1>1 DEF Sends, DeviceOK
<1>4. DeviceOK' /\ AssemblerOK(asm') /\ device.frame_id <= device'.frame_id
      /\ device'.frame_id \in Nat
  <2>1. DeviceOK' /\ device.frame_id <= device'.frame_id
    BY <1>1 DEF Sends
  <2>2. QED
    BY <1>2, <2>1 DEF AssemblerOK, DeviceOK
<1>5. /\ DOMAIN wire = 1 .. Len(wire) /\ Len(wire) \in Nat
      /\ \A i \in DOMAIN wire : wire[i] \in T /\ wire[i].words \in Subframe /\ wire[i].words # x
  <2>1. DOMAIN wire = 1 .. Len(wire) /\ Len(wire) \in Nat
    BY LenProperties DEF WireOK
  <2>2. \A p \in T : p.words \in Subframe
    OBVIOUS
  <2>3. \A i \in DOMAIN wire : wire[i] \in T
    BY LenProperties DEF WireOK
  <2> HIDE DEF T
  <2>4. \A i \in DOMAIN wire : wire[i].words # x
    BY <1>3 DEF WireOK
  <2>5. QED
    BY <2>1, <2>2, <2>3, <2>4
<1>6. /\ wire' \in Seq(T)
      /\ \A i \in DOMAIN wire' : \/ i \in DOMAIN wire /\ wire'[i] = wire[i]
                                 \/ ~drop /\ i = Len(wire) + 1 /\ wire'[i] = [words |-> x, fate |-> fate]
      /\ \A i \in DOMAIN wire : i \in DOMAIN wire' /\ wire'[i] = wire[i]
      /\ ~drop => OnWire(wire', x)
  <2>1. wire \in Seq(T)
    BY DEF WireOK
  <2>2. CASE drop
    <3>1. wire' = wire
      BY <1>1, <2>2
    <3>2. QED
      BY <2>1, <2>2, <3>1
  <2>3. CASE ~drop
    <3> DEFINE p == [words |-> x, fate |-> fate]
    <3>1. wire' = Append(wire, p) /\ p \in T /\ p.words = x
      BY <1>1, <1>3, <2>3
    <3> HIDE DEF p, T
    <3>2. /\ wire' \in Seq(T) /\ DOMAIN wire' = 1 .. Len(wire) + 1
          /\ \A i \in 1 .. Len(wire) : wire'[i] = wire[i]
          /\ wire'[Len(wire) + 1] = p
      BY <2>1, <3>1, AppendProperties, LenProperties
    <3>3. OnWire(wire', x)
      BY <1>5, <3>1, <3>2 DEF OnWire
    <3>4. QED
      BY <1>5, <2>3, <3>2, <3>3 DEF p
  <2>4. QED
    BY <2>2, <2>3
<1>7. ASSUME NEW i \in DOMAIN wire'
      PROVE  /\ wire'[i].words \in Subframe
             /\ IsSent(wire'[i].words) \/ wire'[i].words = x
             /\ wire'[i].words = x \/ (i \in DOMAIN wire /\ wire'[i] = wire[i])
  <2>1. CASE i \in DOMAIN wire /\ wire'[i] = wire[i]
    BY <1>5, <2>1 DEF WireOK
  <2>2. CASE wire'[i] = [words |-> x, fate |-> fate]
    BY <1>3, <2>2
  <2>3. QED
    BY <1>6, <2>1, <2>2
<1>8. WireOK'
  <2>1. ASSUME NEW i \in DOMAIN wire', NEW j \in DOMAIN wire', i < j
        PROVE  Precedes(wire'[i].words, wire'[j].words)
    <3>1. i \in DOMAIN wire /\ wire'[i] = wire[i]
      BY <1>5, <1>6, <2>1
    <3>2. CASE j \in DOMAIN wire /\ wire'[j] = wire[j]
      BY <2>1, <3>1, <3>2 DEF WireOK
    <3>3. CASE wire'[j].words = x
      BY <1>3, <1>5, <3>1, <3>3 DEF WireOK
    <3>4. QED
      BY <1>7, <3>2, <3>3
  <2>2. ASSUME NEW i \in DOMAIN wire' PROVE wire'[i].fate = "badCrc" <=> wire'[i].words \in lost'
    <3>1. CASE i \in DOMAIN wire /\ wire'[i] = wire[i]
      BY <1>1, <1>5, <3>1 DEF WireOK
    <3>2. CASE ~drop /\ wire'[i] = [words |-> x, fate |-> fate]
      <4>1. x \notin lost
        BY <1>3 DEF LostOK
      <4>2. QED
        BY <1>1, <3>2, <4>1
    <3>3. QED
      BY <1>6, <3>1, <3>2
  <2>3. ASSUME NEW y, OnWire(wire', y) PROVE IsSent(y)'
    BY <1>3, <1>7, <2>3 DEF OnWire
  <2>4. \A i \in DOMAIN wire' : OnWire(wire', wire'[i].words)
    BY DEF OnWire
  <2> HIDE DEF T
  <2>5. QED
    BY <1>6, <2>1, <2>2, <2>3, <2>4 DEF WireOK, IsSent, T
<1>9. ASSUME NEW s \in S!Slots, asm.states[s] \notin Waiting
      PROVE  /\ IsSent(Place(asm.frame_index, s)) /\ Place(asm.frame_index, s) \in Subframe
             /\ Place(asm.frame_index, s) # x
  BY <1>3, <1>9, PlaceFacts DEF HeldSent, AssemblerOK
<1>10. ~IsHeld(asm, x)
  <2>1. x.slot + 1 \in S!Slots /\ x = Place(x.frame, x.slot + 1)
    BY <1>3, PlaceFacts
  <2>2. QED
    BY <1>9, <2>1 DEF IsHeld
<1>11. HeldSent'
  <2>1. ASSUME NEW s \in S!Slots, asm.states[s] \notin Waiting
        PROVE  IsSent(Place(asm.frame_index, s))'
    BY <1>2, <1>3, <1>9, <2>1
  <2>2. QED
    BY <1>2, <2>1 DEF HeldSent
<1>12. InStep'
  <2>1. SUFFICES ASSUME asm.expected # 1
                 PROVE  /\ asm.frame_index <= device'.frame_id
                        /\ \A i \in DOMAIN wire' :
                             /\ wire'[i].words.frame >= asm.frame_index
                             /\ wire'[i].words.frame = asm.frame_index =>
                                  asm.states[wire'[i].words.slot + 1] \in Waiting
    BY <1>2 DEF InStep
  <2>2. asm.frame_index <= device.frame_id /\ asm.frame_index \in Nat
    BY <2>1 DEF InStep, AssemblerOK
  <2>3. asm.frame_index <= device'.frame_id
    BY <1>3, <1>4, <2>2
  <2>4. ASSUME NEW i \in DOMAIN wire'
        PROVE  /\ wire'[i].words.frame >= asm.frame_index
               /\ wire'[i].words.frame = asm.frame_index =>
                    asm.states[wire'[i].words.slot + 1] \in Waiting
    <3>1. CASE i \in DOMAIN wire /\ wire'[i] = wire[i]
      BY <2>1, <3>1 DEF InStep
    <3>2. CASE wire'[i].words = x
      BY <1>3, <1>10, <2>2, <3>2 DEF IsHeld
    <3>3. QED
      BY <1>7, <3>1, <3>2
  <2>5. QED
    BY <2>3, <2>4
<1>13. PublishedOK'
  <2>1. ASSUME NEW f \in published
        PROVE  /\ f \in Nat /\ f < device'.frame_id
               /\ \A i \in DOMAIN wire' : f < wire'[i].words.frame
    <3>1. f \in Nat /\ f < device.frame_id
      BY DEF PublishedOK
    <3>2. f < device'.frame_id
      BY <1>3, <1>4, <3>1
    <3>3. QED
      BY <1>3, <1>7, <3>1, <3>2 DEF PublishedOK
  <2>2. QED
    BY <1>2, <2>1 DEF PublishedOK
<1>14. Accounted'
  <2>1. ASSUME NEW y \in Subframe, IsSent(y) \/ y = x
        PROVE  y \in lost' \/ OnWire(wire', y) \/ IsHeld(asm, y) \/ y.frame \in published
    <3>1. CASE IsSent(y)
      <4>1. y \in lost \/ OnWire(wire, y) \/ IsHeld(asm, y) \/ y.frame \in published
        BY <3>1 DEF Accounted
      <4>2. OnWire(wire, y) => OnWire(wire', y)
        BY <1>6 DEF OnWire
      <4>3. QED
        BY <1>1, <4>1, <4>2
    <3>2. CASE y = x
      BY <1>1, <1>6, <3>2
    <3>3. QED
      BY <2>1, <3>1, <3>2
  <2>2. QED
    BY <1>2, <1>3, <2>1 DEF Accounted
<1>15. LostOK'
  <2>1. lost' \subseteq Subframe /\ IsFiniteSet(lost')
    BY <1>1, <1>3, FS_AddElement DEF LostOK
  <2>2. ASSUME NEW y \in lost' PROVE IsSent(y)' /\ ~IsHeld(asm, y)
    <3>1. y \in lost \/ y = x
      BY <1>1
    <3>2. QED
      BY <1>3, <1>10, <3>1 DEF LostOK
  <2>3. QED
    BY <1>2, <2>1, <2>2 DEF LostOK
<1>16. FrameIdentity' /\ MissingIsLost'
  <2>1. DOMAIN arrivals' = {}
    BY <1>2
  <2>2. device.frame_id \notin published
    BY <1>3 DEF PublishedOK
  <2>3. {l \in lost' : l.frame \in published} = {l \in lost : l.frame \in published}
    BY <1>1, <1>3, <2>2
  <2>4. DroppedCounted'
    BY <1>2, <2>3 DEF MissingIsLost, DroppedCounted
  <2>5. QED
    BY <2>1, <2>4 DEF FrameIdentity, MissingIsLost
<1>17. QED
  BY <1>4, <1>8, <1>11, <1>12, <1>13, <1>14, <1>15, <1>16

-----------------------------------------------------------------------------
\* A stop and a start: what the frame under way held, and what is skipped on
\* the line, is lost, all of it of frames that were not published.
LEMMA RestartKeeps ==
  ASSUME IInv, NEW n \in 0 .. Len(wire), Restart(n)
  PROVE  IInv'
<1> USE DEF IInv
<1> DEFINE Skipped == {wire[i].words : i \in 1 .. n}
           T == [words : Subframe, fate : Fates]
<1>1. /\ wire' = SubSeq(wire, n + 1, Len(wire)) /\ asm' = S!ResetTo(asm, 0)
      /\ lost' = lost \cup Held(asm) \cup Skipped
      /\ UNCHANGED <<device, diag, published>> /\ arrivals' = <<>>
  BY DEF Restart
<1>2. /\ wire \in Seq(T) /\ Len(wire) \in Nat /\ n \in Nat /\ n <= Len(wire)
      /\ DOMAIN wire = 1 .. Len(wire)
      /\ \A i \in DOMAIN wire : wire[i].words \in Subframe
  <2>1. wire \in Seq(T) /\ Len(wire) \in Nat /\ DOMAIN wire = 1 .. Len(wire)
    BY LenProperties DEF WireOK
  <2>2. \A p \in T : p.words \in Subframe
    OBVIOUS
  <2>3. \A i \in DOMAIN wire : wire[i] \in T
    BY <2>1, LenProperties
  <2> HIDE DEF T
  <2>4. QED
    BY <2>1, <2>2, <2>3
<1> HIDE DEF T
<1>3. /\ wire' \in Seq(T) /\ DOMAIN wire' = 1 .. Len(wire) - n
      /\ \A i \in DOMAIN wire' : n + i \in DOMAIN wire /\ wire'[i] = wire[n + i]
  <2>1. \A i \in (n + 1) .. Len(wire) : wire[i] \in T
    BY <1>2, LenProperties
  <2>2. /\ SubSeq(wire, n + 1, Len(wire)) \in Seq(T)
        /\ DOMAIN SubSeq(wire, n + 1, Len(wire)) = 1 .. Len(wire) - n
        /\ \A i \in 1 .. Len(wire) - n : SubSeq(wire, n + 1, Len(wire))[i] = wire[n + i]
    BY <1>2, <2>1
  <2>3. QED
    BY <1>1, <1>2, <2>2
<1>4. /\ asm'.frame_index = 0 /\ asm'.expected = 1 /\ asm'.states = S!AllPending
      /\ asm'.words = asm.words
  BY <1>1 DEF S!ResetTo, S!FreshAssembler, S!Assembler
<1>5. AssemblerOK(asm') /\ \A y \in Subframe : ~IsHeld(asm', y)
  <2>1. AssemblerOK(asm')
    BY <1>4, FourSlots DEF AssemblerOK, S!AllPending, S!SubframeStates, Waiting
  <2>2. QED
    BY <1>4, <2>1, PlaceFacts DEF IsHeld, S!AllPending, Waiting
<1>6. ASSUME NEW y \in Subframe
      PROVE  y \in Held(asm) <=> IsHeld(asm, y)
  <2>1. y.slot + 1 \in S!Slots /\ y = Place(y.frame, y.slot + 1)
    BY PlaceFacts
  <2>2. ASSUME NEW s \in S!Slots
        PROVE  y = Place(asm.frame_index, s) <=> y.frame = asm.frame_index /\ y.slot + 1 = s
    <3>1. asm.frame_index \in Nat
      BY DEF AssemblerOK
    <3>2. QED
      BY <2>1, <3>1, PlaceFacts
  <2>3. QED
    BY <2>1, <2>2 DEF Held, IsHeld, Place, Waiting
<1>7. ASSUME NEW y \in Held(asm)
      PROVE  /\ y \in Subframe /\ IsSent(y) /\ y.frame \notin published
             /\ \A i \in DOMAIN wire : wire[i].words # y
  <2>1. PICK s \in S!Slots : asm.states[s] \notin Waiting /\ y = Place(asm.frame_index, s)
    BY DEF Held, Place, Waiting
  <2>2. asm.frame_index \in Nat /\ asm.expected # 1
    BY <2>1, FourSlots DEF AssemblerOK, Waiting
  <2>3. y \in Subframe /\ y.frame = asm.frame_index /\ y.slot + 1 = s
    BY <2>1, <2>2, PlaceFacts
  <2>4. IsSent(y)
    BY <2>1 DEF HeldSent
  <2>5. y.frame \notin published
    BY <2>2, <2>3 DEF PublishedOK
  <2>6. \A i \in DOMAIN wire : wire[i].words # y
    BY <2>1, <2>2, <2>3 DEF InStep
  <2>7. QED
    BY <2>3, <2>4, <2>5, <2>6
<1>8. ASSUME NEW y \in Skipped
      PROVE  y \in Subframe /\ IsSent(y) /\ y.frame \notin published
  <2>1. PICK i \in 1 .. n : y = wire[i].words
    OBVIOUS
  <2>2. i \in DOMAIN wire
    BY <1>2
  <2>3. y.frame \in Nat
    BY <1>2, <2>1, <2>2, PlaceFacts
  <2>4. y.frame \notin published
    BY <2>1, <2>2, <2>3 DEF PublishedOK
  <2>5. QED
    BY <1>2, <2>1, <2>2, <2>4 DEF WireOK
<1>9. IsFiniteSet(Held(asm)) /\ IsFiniteSet(Skipped)
  <2>1. IsFiniteSet(Held(asm))
    <3> DEFINE filled == {t \in S!Slots : asm.states[t] \notin {"PENDING", "MISSING"}}
               of == [s \in filled |-> [frame |-> asm.frame_index, slot |-> s - 1]]
    <3>1. IsFiniteSet(S!Slots)
      <4>1. PICK k \in Int : k = 4
        OBVIOUS
      <4>2. IsFiniteSet(1 .. k)
        BY FS_Interval
      <4>3. QED
        BY <4>1, <4>2 DEF S!Slots
    <3>2. IsFiniteSet(filled)
      BY <3>1, FS_Subset
    <3>3. of \in Surjection(filled, Held(asm))
      BY DEF Held, Surjection
    <3> HIDE DEF filled, of
    <3>4. QED
      BY <3>2, <3>3, FS_Surjection
  <2>2. IsFiniteSet(Skipped)
    <3> DEFINE of == [i \in 1 .. n |-> wire[i].words]
    <3>1. of \in Surjection(1 .. n, Skipped)
      BY DEF Surjection
    <3>2. IsFiniteSet(1 .. n)
      BY <1>2, FS_Interval
    <3> HIDE DEF of, Skipped
    <3>3. QED
      BY <3>1, <3>2, FS_Surjection
  <2>3. QED
    BY <2>1, <2>2
<1>10. DeviceOK' /\ HeldSent' /\ InStep'
  <2>1. DeviceOK' /\ InStep'
    BY <1>1, <1>4 DEF DeviceOK, InStep
  <2>2. \A s \in S!Slots : asm'.states[s] \in Waiting
    BY <1>4 DEF S!AllPending, Waiting
  <2>3. QED
    BY <2>1, <2>2 DEF HeldSent
<1>11. WireOK'
  <2>1. ASSUME NEW i \in DOMAIN wire', NEW j \in DOMAIN wire', i < j
        PROVE  Precedes(wire'[i].words, wire'[j].words)
    <3>1. n + i < n + j
      BY <1>2, <1>3, <2>1
    <3>2. QED
      BY <1>3, <3>1 DEF WireOK
  <2>2. ASSUME NEW i \in DOMAIN wire'
        PROVE  /\ IsSent(wire'[i].words)
               /\ wire'[i].fate = "badCrc" <=> wire'[i].words \in lost'
    <3> DEFINE y == wire[n + i].words
    <3>1. n + i \in DOMAIN wire /\ wire'[i] = wire[n + i] /\ y \in Subframe
      BY <1>2, <1>3
    <3>2. y \notin Held(asm)
      BY <1>7, <3>1
    <3>3. y \notin Skipped
      <4>1. SUFFICES ASSUME NEW k \in 1 .. n, y = wire[k].words PROVE FALSE
        OBVIOUS
      <4>2. k \in DOMAIN wire /\ k < n + i
        BY <1>2, <1>3
      <4>3. Precedes(wire[k].words, y)
        BY <3>1, <4>2 DEF WireOK
      <4>4. QED
        BY <3>1, <4>1, <4>3, PrecedesStrict
    <3>4. IsSent(y) /\ (wire'[i].fate = "badCrc" <=> y \in lost)
      BY <3>1 DEF WireOK
    <3> HIDE DEF Skipped
    <3>5. QED
      BY <1>1, <3>1, <3>2, <3>3, <3>4
  <2>3. QED
    BY <1>1, <1>3, <2>1, <2>2 DEF WireOK, IsSent, T
<1>12. PublishedOK'
  <2>1. \A i \in DOMAIN wire' : \E j \in DOMAIN wire : wire'[i] = wire[j]
    BY <1>3
  <2>2. QED
    BY <1>1, <1>4, <2>1 DEF PublishedOK
<1>13. Accounted'
  <2>1. ASSUME NEW y, OnWire(wire, y) PROVE y \in Skipped \/ OnWire(wire', y)
    <3>1. PICK i \in DOMAIN wire : wire[i].words = y
      BY <2>1 DEF OnWire
    <3>2. CASE i <= n
      BY <1>2, <3>1, <3>2
    <3>3. CASE i > n
      <4>1. i - n \in DOMAIN wire' /\ n + (i - n) = i
        BY <1>2, <1>3, <3>3
      <4>2. QED
        BY <1>3, <3>1, <4>1 DEF OnWire
    <3>4. QED
      BY <1>2, <3>2, <3>3
  <2>2. ASSUME NEW y \in Subframe, IsSent(y)
        PROVE  y \in lost' \/ OnWire(wire', y) \/ y.frame \in published
    <3>1. y \in lost \/ OnWire(wire, y) \/ IsHeld(asm, y) \/ y.frame \in published
      BY <2>2 DEF Accounted
    <3> HIDE DEF Skipped
    <3>2. QED
      BY <1>1, <1>6, <2>1, <3>1
  <2>3. QED
    BY <1>1, <2>2 DEF Accounted, IsSent
<1>14. LostOK'
  <2> HIDE DEF Skipped
  <2>1. lost' \subseteq Subframe
    BY <1>1, <1>7, <1>8 DEF LostOK
  <2>2. IsFiniteSet(lost')
    <3>1. IsFiniteSet(lost \cup Held(asm))
      BY <1>9, FS_Union DEF LostOK
    <3>2. QED
      BY <1>1, <1>9, <3>1, FS_Union
  <2>3. \A y \in lost' : IsSent(y)
    BY <1>1, <1>7, <1>8 DEF LostOK
  <2>4. QED
    BY <1>1, <1>5, <2>1, <2>2, <2>3 DEF LostOK, IsSent
<1>15. FrameIdentity' /\ MissingIsLost'
  <2>1. DOMAIN arrivals' = {}
    BY <1>1
  <2> HIDE DEF Skipped
  <2>2. {l \in lost' : l.frame \in published} = {l \in lost : l.frame \in published}
    BY <1>1, <1>7, <1>8
  <2>3. DroppedCounted'
    BY <1>1, <2>2 DEF MissingIsLost, DroppedCounted
  <2>4. QED
    BY <2>1, <2>3 DEF FrameIdentity, MissingIsLost
<1>16. QED
  BY <1>5, <1>10, <1>11, <1>12, <1>13, <1>14, <1>15

-----------------------------------------------------------------------------
\* Before the first packet nothing is sent, lost, held or published.
LEMMA InitIInv == Init => IInv
<1> SUFFICES ASSUME Init PROVE IInv
  OBVIOUS
<1>1. /\ device = [frame_id |-> 0, subframe_index |-> 0, order |-> InOrder]
      /\ wire = <<>> /\ asm = S!NewAssembler(0) /\ diag = S!ZeroDiag
      /\ arrivals = <<>> /\ lost = {} /\ published = {}
  BY DEF Init
<1>2. /\ asm.frame_index = 0 /\ asm.expected = 1 /\ asm.states = S!AllPending
      /\ DOMAIN asm.words = S!Slots
  BY <1>1 DEF S!NewAssembler, S!FreshAssembler, S!Assembler
<1>3. \A y \in Subframe : ~IsSent(y)
  BY <1>1 DEF IsSent, Subframe
<1>4. DeviceOK
  BY <1>1 DEF DeviceOK
<1>5. DOMAIN wire = {} /\ wire \in Seq([words : Subframe, fate : Fates]) /\ DOMAIN arrivals = {}
  BY <1>1
<1>6. AssemblerOK(asm) /\ HeldSent /\ InStep
  BY <1>2, FourSlots DEF AssemblerOK, HeldSent, InStep, S!AllPending, S!SubframeStates, Waiting
<1>7. WireOK /\ PublishedOK
  BY <1>1, <1>5 DEF WireOK, PublishedOK
<1>8. Accounted /\ LostOK
  BY <1>1, <1>3, FS_EmptySet DEF Accounted, LostOK
<1>9. FrameIdentity /\ MissingIsLost
  <2>1. {l \in lost : l.frame \in published} = {}
    BY <1>1
  <2>2. DroppedCounted
    BY <1>1, <2>1, FS_EmptySet DEF DroppedCounted, S!ZeroDiag
  <2>3. QED
    BY <1>5, <2>2 DEF FrameIdentity, MissingIsLost
<1>10. QED
  BY <1>4, <1>6, <1>7, <1>8, <1>9 DEF IInv

\* What stutters keeps the invariant.
LEMMA StutterKeeps == IInv /\ UNCHANGED vars => IInv'
<1> SUFFICES ASSUME IInv, UNCHANGED vars PROVE IInv'
  OBVIOUS
<1> USE DEF IInv, vars
<1>1. DeviceOK' /\ WireOK' /\ AssemblerOK(asm)' /\ HeldSent'
  BY DEF DeviceOK, WireOK, AssemblerOK, HeldSent, IsSent
<1>2. InStep' /\ PublishedOK' /\ Accounted' /\ LostOK'
  BY DEF InStep, PublishedOK, Accounted, LostOK, IsSent, IsHeld, OnWire
<1>3. FrameIdentity' /\ MissingIsLost'
  BY DEF FrameIdentity, MissingIsLost, DroppedCounted
<1>4. QED
  BY <1>1, <1>2, <1>3

\* Device, line, assembler and books of the framed mode stay in step: a
\* subframe that was sent is lost, on its way, held by the frame under way or
\* published, and the frame under way is never behind the line.
THEOREM FramedInStep == Spec => []IInv
<1>1. IInv /\ [Next]_vars => IInv'
  <2> SUFFICES ASSUME IInv, [Next]_vars PROVE IInv'
    OBVIOUS
  <2>1. ASSUME NEW swap \in BOOLEAN, NEW drop \in BOOLEAN, NEW fate \in Fates,
               EmitSubframe(swap, drop, fate)
        PROVE  IInv'
    BY <2>1, EmitKeeps
  <2>2. CASE ProcessPacket
    BY <2>2, ProcessKeeps
  <2>3. ASSUME NEW n \in 0 .. Len(wire), Restart(n) PROVE IInv'
    BY <2>3, RestartKeeps
  <2>4. CASE UNCHANGED vars
    BY <2>4, StutterKeeps
  <2>5. QED
    BY <2>1, <2>2, <2>3, <2>4 DEF Next
<1>2. QED
  BY InitIInv, <1>1, PTL DEF Spec

\* A frame of the PC is a frame of the device, whatever is lost, spoiled,
\* swapped or restarted on the way (subframe_assembler.py, take).
THEOREM FramesKeepIdentity == Spec => []FrameIdentity
<1>1. IInv => FrameIdentity
  BY DEF IInv
<1>2. QED
  BY <1>1, FramedInStep, PTL

\* A slot of a published frame is missing if and only if its subframe was
\* lost, and the drop counter counts exactly those (diagnostics.py).
THEOREM NoFalseAlarm == Spec => []MissingIsLost
<1>1. IInv => MissingIsLost
  BY DEF IInv
<1>2. QED
  BY <1>1, FramedInStep, PTL
=============================================================================
