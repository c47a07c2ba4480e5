------------------------ MODULE LiveDecoding_proofs ------------------------
(***************************************************************************)
(* Proofs about LiveDecoding, for any dataframes, any subframes, and every *)
(* bound on the history, the clock and what the user does: a static frame  *)
(* is shown decoded by the active dataframe, a sample stays selected, the  *)
(* table of a stream agrees with its frame, each series of the history is  *)
(* the unbroken end of what was published, within its bounds, and the      *)
(* graph draws one unit on an axis.                                        *)
(***************************************************************************)
EXTENDS LiveDecoding, FiniteSetTheorems, WellFoundedInduction, TLAPS

\* Every subframe of the frame under way has a slot, so that the slots of a
\* stream are never taken for those of a static frame.
SlotsKept == DOMAIN stream.slots = Subframes

\* The shape of the stream record.
IsStream(s) ==
  s = [state |-> s.state, t |-> s.t, wps |-> s.wps, next |-> s.next,
       words |-> s.words, slots |-> s.slots]

\* The inductive invariant.
IInv == IsStream(stream) /\ SlotsKept /\ StaticViewDecoded

\* A frame with a slot for every subframe is live.
LEMMA LiveFrame ==
  ASSUME NEW words, NEW wps, NEW slots, DOMAIN slots = Subframes
  PROVE  Live(Frame(words, wps, slots))
<1>1. PICK sf \in Subframes : TRUE
  BY LiveAssumption
<1>2. slots # <<>>
  <2>1. DOMAIN <<>> = {}
    OBVIOUS
  <2>2. QED
    BY <1>1, <2>1
<1>3. QED
  BY <1>2 DEF Live, Frame, Static

\* The end of the stream makes the frame static and decodes it.
LEMMA StaticPublished ==
  ASSUME NEW d, dataframe' = d, Publish(Redecoded(d, frame'))
  PROVE  StaticViewDecoded'
  BY DEF StaticViewDecoded, Publish

\* An arrival: the frame is live, or static and decoded again.
LEMMA DeliverStep ==
  ASSUME NEW sf, NEW state, NEW words, NEW slots, NEW end,
         DOMAIN slots = Subframes, Deliver(sf, state, words, slots, end)
  PROVE  StaticViewDecoded'
<1>1. CASE stream.state = "stopping"
  <2>1. Publish(Redecoded(dataframe, frame')) /\ dataframe' = dataframe
    BY <1>1 DEF Deliver
  <2>2. QED
    BY <2>1, StaticPublished
<1>2. CASE stream.state # "stopping"
  <2>1. frame' = Frame(words, stream.wps, slots)
    BY <1>2 DEF Deliver
  <2>2. Live(frame')
    BY <2>1, LiveFrame
  <2>3. QED
    BY <2>2 DEF StaticViewDecoded, Live
<1>3. QED
  BY <1>1, <1>2

\* What the invariant reads does not change.
LEMMA Unmoved == IInv /\ UNCHANGED <<dataframe, frame, stream, engineering>> => IInv'
  BY DEF IInv, IsStream, SlotsKept, StaticViewDecoded, Live

\* Every step preserves the invariant.
LEMMA StepKeeps == IInv /\ [Next]_vars => IInv'
<1> SUFFICES ASSUME IInv, [Next]_vars PROVE IInv'
  OBVIOUS
<1>1. ASSUME NEW d \in Dataframes, SetDataframe(d) PROVE IInv'
  <2>1. /\ dataframe' = d /\ frame' = frame /\ stream' = stream
        /\ engineering' = StaticView(d, frame, engineering)
    BY <1>1 DEF SetDataframe, Publish
  <2>2. StaticViewDecoded'
    BY <2>1 DEF StaticViewDecoded, StaticView, Live
  <2>3. QED
    BY <2>1, <2>2 DEF IInv, IsStream, SlotsKept
<1>2. ASSUME NewFrame \/ \E sf \in Subframes : SetWord(sf) PROVE IInv'
  <2>1. dataframe' = dataframe /\ stream' = stream /\ Publish(Redecoded(dataframe, frame'))
    BY <1>2 DEF NewFrame, SetWord
  <2>2. StaticViewDecoded'
    BY <2>1, StaticPublished
  <2>3. QED
    BY <2>1, <2>2 DEF IInv, IsStream, SlotsKept
<1>3. ASSUME NEW start, StartStream(start) PROVE IInv'
  <2>1. \E wps, words : stream' = Started(start, wps, words)
    BY <1>3 DEF StartStream
  <2>2. UNCHANGED <<dataframe, frame, engineering>>
    BY <1>3 DEF StartStream
  <2>3. IsStream(stream')
    BY <2>1 DEF IsStream, Started
  <2>4. SlotsKept'
    BY <2>1 DEF SlotsKept, Started, Pending
  <2>5. StaticViewDecoded'
    BY <2>2 DEF IInv, StaticViewDecoded, Live
  <2>6. QED
    BY <2>3, <2>4, <2>5 DEF IInv, IsStream
<1>4. ASSUME StopStream PROVE IInv'
  <2>1. PICK state : stream' = [stream EXCEPT !.state = state]
    BY <1>4 DEF StopStream
  <2>2. stream' = [state |-> state, t |-> stream.t, wps |-> stream.wps, next |-> stream.next,
                   words |-> stream.words, slots |-> stream.slots]
    BY <2>1 DEF IInv, IsStream
  <2>3. IsStream(stream') /\ SlotsKept'
    BY <2>2 DEF IInv, IsStream, SlotsKept
  <2>4. dataframe' = dataframe
    BY <1>4 DEF StopStream
  <2>5. CASE Live(frame)
    <3>1. Publish(Redecoded(dataframe, frame'))
      BY <1>4, <2>5 DEF StopStream
    <3>2. QED
      BY <2>3, <2>4, <3>1, StaticPublished DEF IInv, IsStream
  <2>6. CASE ~Live(frame)
    <3>1. UNCHANGED <<frame, engineering>>
      BY <1>4, <2>6 DEF StopStream
    <3>2. StaticViewDecoded'
      BY <2>4, <3>1 DEF IInv, StaticViewDecoded, Live
    <3>3. QED
      BY <2>3, <3>2 DEF IInv, IsStream
  <2>7. QED
    BY <2>5, <2>6
<1>5. ASSUME NEW state, Arrival(state) PROVE IInv'
  <2> DEFINE begun == IF stream.next = FirstSubframe THEN Pending ELSE stream.slots
             slots == [begun EXCEPT ![stream.next] = state]
             words == IF state = "MISSING" THEN stream.words
                      ELSE [stream.words EXCEPT ![stream.next] = now + SubframeTicks]
             end == stream.t + SubframeTicks
             after == IF stream.state = "stopping" THEN "off" ELSE stream.state
  <2>1. DOMAIN slots = Subframes
    BY DEF IInv, SlotsKept, Pending
  <2>2. Deliver(stream.next, state, words, slots, end)
    BY <1>5 DEF Arrival
  <2>3. stream' = [stream EXCEPT !.t = end, !.next = Next1(stream.next), !.words = words,
                                 !.slots = slots, !.state = after]
    BY <1>5 DEF Arrival
  <2> HIDE DEF slots, words, end, after
  <2>4. stream' = [state |-> after, t |-> end, wps |-> stream.wps, next |-> Next1(stream.next),
                   words |-> words, slots |-> slots]
    BY <2>3 DEF IInv, IsStream
  <2>5. IsStream(stream') /\ SlotsKept'
    BY <2>1, <2>4 DEF IsStream, SlotsKept
  <2>6. StaticViewDecoded'
    BY <2>1, <2>2, DeliverStep
  <2>7. QED
    BY <2>5, <2>6 DEF IInv, IsStream
<1>6. ASSUME NEW sf \in Subframes, LateArrival(sf) PROVE IInv'
  <2> DEFINE slots == [stream.slots EXCEPT ![sf] = "LATE"]
             words == [stream.words EXCEPT ![sf] = now + 1]
  <2>1. DOMAIN slots = Subframes
    BY DEF IInv, SlotsKept
  <2>2. Deliver(sf, "LATE", words, slots, stream.t)
    BY <1>6 DEF LateArrival
  <2>3. stream' = [stream EXCEPT !.words = words, !.slots = slots]
    BY <1>6 DEF LateArrival
  <2> HIDE DEF slots, words
  <2>4. stream' = [state |-> stream.state, t |-> stream.t, wps |-> stream.wps,
                   next |-> stream.next, words |-> words, slots |-> slots]
    BY <2>3 DEF IInv, IsStream
  <2>5. IsStream(stream') /\ SlotsKept'
    BY <2>1, <2>4 DEF IsStream, SlotsKept
  <2>6. StaticViewDecoded'
    BY <2>1, <2>2, DeliverStep
  <2>7. QED
    BY <2>5, <2>6 DEF IInv, IsStream
<1>7. ASSUME NEW key, SelectSample(key) PROVE IInv'
  BY <1>7, Unmoved DEF SelectSample
<1>8. ASSUME NEW id, SelectParameter(id) \/ CheckOverlay(id) PROVE IInv'
  BY <1>8, Unmoved DEF SelectParameter, CheckOverlay, AtGraph
<1>9. CASE Pause \/ Resume \/ ClearHistory \/ Refresh
  BY <1>9, Unmoved DEF Pause, Resume, ClearHistory, Refresh, AtGraph
<1>10. CASE UNCHANGED vars
  BY <1>10, Unmoved DEF vars
<1>11. QED
  BY <1>1, <1>2, <1>3, <1>4, <1>5, <1>6, <1>7, <1>8, <1>9, <1>10 DEF Next

\* It holds when the program starts.
LEMMA InitIInv == Init => IInv
<1> SUFFICES ASSUME Init PROVE IInv
  OBVIOUS
<1>1. stream = Started(0, FirstDataframe.wps, Blank)
  BY DEF Init
<1>2. IsStream(stream)
  BY <1>1 DEF IsStream, Started
<1>3. SlotsKept
  BY <1>1 DEF SlotsKept, Started, Pending
<1>4. StaticViewDecoded
  BY DEF Init, StaticViewDecoded, Redecoded
<1>5. QED
  BY <1>2, <1>3, <1>4 DEF IInv

\* The Parameters table shows a frame that is not being received decoded by
\* the active dataframe, whatever changed last and in whatever order the
\* frame, one of its words, the dataframe and the stream changed.
THEOREM StaticViewCorrect == Spec => []StaticViewDecoded
<1>1. IInv => StaticViewDecoded
  BY DEF IInv
<1>2. QED
  BY <1>1, InitIInv, StepKeeps, PTL DEF Spec

\* Whatever replaces the rows of the Parameters table, a decoded subframe,
\* another dataframe or the end of the stream, the selected sample stays
\* selected if it still has a row.
THEOREM SelectionKept == Spec => SelectionFollowsSample
<1> DEFINE Follows == engineering' # engineering /\ table \in Keys(engineering') => table' = table
<1>1. ASSUME NEW values, Publish(values) PROVE Follows
  BY <1>1 DEF Publish, SelectionKeptBy
<1>2. ASSUME NEW sf, NEW state, NEW words, NEW slots, NEW end,
             Deliver(sf, state, words, slots, end)
      PROVE  Follows
  <2>1. (\E values : Publish(values)) \/ UNCHANGED <<engineering, table>>
    BY <1>2 DEF Deliver
  <2>2. QED
    BY <2>1, <1>1
<1>3. Next => Follows
  <2> SUFFICES ASSUME Next PROVE Follows
    OBVIOUS
  <2> HIDE DEF Follows
  <2>1. ASSUME engineering' = engineering PROVE Follows
    BY <2>1 DEF Follows
  <2>2. ASSUME NEW d \in Dataframes, SetDataframe(d) PROVE Follows
    BY <1>1, <2>2 DEF SetDataframe
  <2>3. ASSUME NewFrame \/ \E sf \in Subframes : SetWord(sf) PROVE Follows
    BY <1>1, <2>3 DEF NewFrame, SetWord
  <2>4. ASSUME NEW start, StartStream(start) PROVE Follows
    BY <2>1, <2>4 DEF StartStream
  <2>5. ASSUME StopStream PROVE Follows
    <3>1. (\E values : Publish(values)) \/ UNCHANGED <<engineering, table>>
      BY <2>5 DEF StopStream
    <3>2. QED
      BY <1>1, <2>1, <3>1
  <2>6. ASSUME NEW state, Arrival(state) PROVE Follows
    BY <1>2, <2>6 DEF Arrival
  <2>7. ASSUME NEW sf \in Subframes, LateArrival(sf) PROVE Follows
    BY <1>2, <2>7 DEF LateArrival
  <2>8. ASSUME NEW key, SelectSample(key) PROVE Follows
    BY <2>1, <2>8 DEF SelectSample
  <2>9. ASSUME NEW id, SelectParameter(id) \/ CheckOverlay(id) PROVE Follows
    BY <2>1, <2>9 DEF SelectParameter, CheckOverlay, AtGraph
  <2>10. CASE Pause \/ Resume \/ ClearHistory \/ Refresh
    BY <2>1, <2>10 DEF Pause, Resume, ClearHistory, Refresh, AtGraph
  <2>11. QED
    BY <2>2, <2>3, <2>4, <2>5, <2>6, <2>7, <2>8, <2>9, <2>10 DEF Next
<1>4. [Next]_vars => [Follows]_vars
  BY <1>3
<1>5. QED
  BY <1>4, PTL DEF Spec, SelectionFollowsSample

-----------------------------------------------------------------------------
(* The table during a stream. *)

\* A value decoded from a subframe by a parameter of the dataframe.
OfDataframe(v, d) ==
  \E p \in Parameters(d) :
    \/ v = ErrorValue(p)
    \/ \E o \in DOMAIN p.occurrences :
         /\ v.subframe \in p.occurrences[o].subframes \cap Subframes
         /\ v = Value(p, o, v.subframe, [sf \in Subframes |-> v.word])

\* Values that take one place in the order.
AtOnePlace(d, v, w) ==
  /\ Position(d, v.id) = Position(d, w.id)
  /\ v.occurrence = w.occurrence /\ v.subframe = w.subframe

\* Before orders values by three numbers.
LEMMA BeforeOrders ==
  ASSUME NEW d, NEW S,
         \A v \in S : /\ Position(d, v.id) \in Nat
                      /\ v.occurrence \in Nat /\ v.subframe \in Nat
  PROVE  /\ \A v \in S : ~Before(d, v, v)
         /\ \A u, v, w \in S : Before(d, u, v) /\ Before(d, v, w) => Before(d, u, w)
         /\ \A v, w \in S : Before(d, v, w) \/ Before(d, w, v) \/ AtOnePlace(d, v, w)
<1>1. ASSUME NEW v \in S PROVE ~Before(d, v, v)
  BY <1>1 DEF Before
<1>2. ASSUME NEW u \in S, NEW v \in S, NEW w \in S, Before(d, u, v), Before(d, v, w)
      PROVE  Before(d, u, w)
  BY <1>2 DEF Before
<1>3. ASSUME NEW v \in S, NEW w \in S, ~Before(d, v, w), ~Before(d, w, v)
      PROVE  AtOnePlace(d, v, w)
  BY <1>3 DEF Before, AtOnePlace
<1>4. QED
  BY <1>1, <1>2, <1>3

\* The rows of a table that is sorted are the values sorted: every place from
\* 1 to their number is the rank of one of them.
LEMMA SortedPicks ==
  ASSUME NEW d, NEW S, IsFiniteSet(S),
         \A v \in S : /\ Position(d, v.id) \in Nat
                      /\ v.occurrence \in Nat /\ v.subframe \in Nat,
         \A v, w \in S : AtOnePlace(d, v, w) => v = w,
         NEW i \in DOMAIN Sorted(d, S)
  PROVE  Sorted(d, S)[i] \in S
<1> DEFINE n == Cardinality(S)
           Below(v) == {w \in S : Before(d, w, v)}
           rank == [v \in S |-> Cardinality(Below(v)) + 1]
<1>1. n \in Nat /\ i \in 1..n
  BY FS_CardinalityType DEF Sorted
<1>2. ASSUME NEW v \in S PROVE IsFiniteSet(Below(v)) /\ Cardinality(Below(v)) \in Nat
  <2>1. IsFiniteSet(Below(v))
    BY FS_Subset
  <2>2. QED
    BY <2>1, FS_CardinalityType
<1>3. ASSUME NEW v \in S, NEW T, IsFiniteSet(T), Below(v) \subseteq T, v \in T
      PROVE  Cardinality(Below(v)) < Cardinality(T)
  <2>1. v \notin Below(v)
    BY BeforeOrders
  <2>2. Cardinality(Below(v)) <= Cardinality(T) /\ Cardinality(T) # Cardinality(Below(v))
    BY <1>3, <2>1, FS_Subset
  <2>3. Cardinality(T) \in Nat
    <3>1. IsFiniteSet(T)
      BY <1>3
    <3>2. QED
      BY <3>1, FS_CardinalityType
  <2>4. Cardinality(Below(v)) \in Nat
    BY <1>2
  <2> HIDE DEF Below
  <2>5. QED
    BY <2>2, <2>3, <2>4
<1>4. ASSUME NEW v \in S, NEW w \in S, Before(d, v, w) PROVE rank[v] # rank[w]
  <2>1. Below(v) \subseteq Below(w) /\ v \in Below(w)
    BY <1>4, BeforeOrders
  <2>2. Cardinality(Below(v)) < Cardinality(Below(w))
    BY <1>2, <1>3, <2>1
  <2>3. Cardinality(Below(v)) \in Nat /\ Cardinality(Below(w)) \in Nat
    BY <1>2
  <2>4. rank[v] = Cardinality(Below(v)) + 1 /\ rank[w] = Cardinality(Below(w)) + 1
    OBVIOUS
  <2> HIDE DEF Below, rank
  <2>5. QED
    BY <2>2, <2>3, <2>4
<1>5. ASSUME NEW v \in S PROVE rank[v] \in 1..n
  <2>1. Cardinality(Below(v)) < n
    BY <1>3
  <2>2. Cardinality(Below(v)) \in Nat
    BY <1>2
  <2>3. rank[v] = Cardinality(Below(v)) + 1
    OBVIOUS
  <2> HIDE DEF Below, rank, n
  <2>4. QED
    BY <1>1, <2>1, <2>2, <2>3
<1>6. ASSUME NEW v \in S, NEW w \in S, v # w PROVE rank[v] # rank[w]
  BY <1>4, <1>6, BeforeOrders
<1>7. rank \in Injection(S, 1..n)
  <2>1. rank \in [S -> 1..n]
    BY <1>5
  <2>2. QED
    BY <1>6, <2>1 DEF Injection, IsInjective
<1>8. IsFiniteSet(1..n) /\ Cardinality(1..n) = n
  <2> HIDE DEF n
  <2>1. 1 \in Int /\ n \in Int
    BY <1>1
  <2>2. QED
    BY <1>1, <2>1, FS_Interval
<1>9. rank \in Surjection(S, 1..n)
  <2> HIDE DEF rank
  <2>1. Cardinality(S) = Cardinality(1..n)
    BY <1>8
  <2> HIDE DEF n
  <2>2. QED
    BY <1>7, <1>8, <2>1, FS_Injection
<1>10. PICK v \in S : rank[v] = i
  BY <1>1, <1>9 DEF Surjection
<1>11. Cardinality({w \in S : Before(d, w, v)}) = i - 1
  <2>1. rank[v] = Cardinality(Below(v)) + 1
    OBVIOUS
  <2>2. Cardinality(Below(v)) \in Nat
    BY <1>2
  <2> HIDE DEF rank, Below
  <2>3. Cardinality(Below(v)) = i - 1
    BY <1>1, <1>10, <2>1, <2>2
  <2>4. QED
    BY <2>3 DEF Below
<1>12. Sorted(d, S)[i] = CHOOSE u \in S : Cardinality({w \in S : Before(d, w, u)}) = i - 1
  BY <1>1 DEF Sorted
<1>13. QED
  BY <1>11, <1>12

-----------------------------------------------------------------------------
\* A parameter of a dataframe is found at its own place, and nowhere else.
LEMMA PlaceOf ==
  ASSUME NEW d \in Dataframes, NEW p \in Parameters(d)
  PROVE  /\ Position(d, p.id) \in Nat
         /\ \A q \in Parameters(d) : Position(d, q.id) = Position(d, p.id) => q = p
<1>1. ASSUME NEW q \in Parameters(d)
      PROVE  Position(d, q.id) \in DOMAIN d.parameters /\ d.parameters[Position(d, q.id)] = q
  <2>1. PICK i \in DOMAIN d.parameters : d.parameters[i] = q
    BY <1>1 DEF Parameters
  <2> DEFINE at == {j \in DOMAIN d.parameters : d.parameters[j].id = q.id}
  <2>2. i \in at
    BY <2>1
  <2>3. \A j \in at : j = i
    BY <2>1, DataframesAssumption
  <2>4. at = {i}
    BY <2>2, <2>3
  <2>5. Position(d, q.id) = CHOOSE j \in at : TRUE
    BY <2>4 DEF Position
  <2>6. Position(d, q.id) = i
    BY <2>4, <2>5
  <2>7. QED
    BY <2>1, <2>6
<1>2. d.parameters \in Seq(Parameters(d))
  BY DataframesAssumption
<1>3. DOMAIN d.parameters \subseteq Nat
  BY <1>2
<1>4. QED
  BY <1>1, <1>3

\* What a decoded value is made of.
LEMMA ValueParts ==
  ASSUME NEW d \in Dataframes, NEW v, OfDataframe(v, d)
  PROVE  \E p \in Parameters(d) :
           /\ v.id = p.id
           /\ \/ v = ErrorValue(p) /\ v.occurrence = 0 /\ v.subframe = 0
              \/ /\ v.occurrence \in DOMAIN p.occurrences
                 /\ DOMAIN p.occurrences \subseteq Nat \ {0}
                 /\ p.occurrences # <<>>
                 /\ v.subframe \in p.occurrences[v.occurrence].subframes \cap Subframes
                 /\ v = Value(p, v.occurrence, v.subframe, [sf \in Subframes |-> v.word])
<1>1. PICK p \in Parameters(d) :
        \/ v = ErrorValue(p)
        \/ \E o \in DOMAIN p.occurrences :
             /\ v.subframe \in p.occurrences[o].subframes \cap Subframes
             /\ v = Value(p, o, v.subframe, [sf \in Subframes |-> v.word])
  BY DEF OfDataframe
<1>2. CASE v = ErrorValue(p)
  BY <1>2 DEF ErrorValue
<1>3. ASSUME NEW o \in DOMAIN p.occurrences,
             v.subframe \in p.occurrences[o].subframes \cap Subframes,
             v = Value(p, o, v.subframe, [sf \in Subframes |-> v.word])
      PROVE  /\ v.id = p.id /\ v.occurrence = o
             /\ DOMAIN p.occurrences \subseteq Nat \ {0} /\ p.occurrences # <<>>
  <2>1. v.id = p.id /\ v.occurrence = o
    BY <1>3 DEF Value
  <2>2. \E T : p.occurrences \in Seq(T)
    BY DataframesAssumption
  <2>3. DOMAIN p.occurrences \subseteq Nat \ {0}
    BY <2>2
  <2>4. DOMAIN <<>> = {}
    OBVIOUS
  <2>5. p.occurrences # <<>>
    BY <1>3, <2>4
  <2>6. QED
    BY <2>1, <2>3, <2>5
<1>4. QED
  BY <1>1, <1>2, <1>3

\* The numbers a value is ordered by, and what they tell apart.
LEMMA ValuesOrdered ==
  ASSUME NEW d \in Dataframes, NEW v, OfDataframe(v, d)
  PROVE  /\ Position(d, v.id) \in Nat /\ v.occurrence \in Nat
         /\ v.subframe \in Nat /\ v.subframe \in Subframes \cup {0}
<1>1. PICK p \in Parameters(d) :
        /\ v.id = p.id
        /\ \/ v.occurrence = 0 /\ v.subframe = 0
           \/ /\ v.occurrence \in DOMAIN p.occurrences
              /\ DOMAIN p.occurrences \subseteq Nat \ {0}
              /\ v.subframe \in Subframes
  BY ValueParts
<1>2. Subframes \subseteq Nat
  BY LiveAssumption
<1>3. Position(d, v.id) \in Nat
  BY <1>1, PlaceOf
<1>4. v.occurrence \in Nat
  BY <1>1
<1>5. v.subframe \in Subframes \cup {0}
  BY <1>1
<1>6. v.subframe \in Nat
  <2>1. 0 \in Nat
    OBVIOUS
  <2>2. QED
    BY <1>2, <1>5, <2>1, Zenon
<1>7. QED
  BY <1>3, <1>4, <1>5, <1>6

\* Values of a dataframe at one place have one key; only the word can differ.
LEMMA SamePlace ==
  ASSUME NEW d \in Dataframes, NEW v, OfDataframe(v, d), NEW w, OfDataframe(w, d),
         AtOnePlace(d, v, w)
  PROVE  Key(v) = Key(w) /\ (v.word = w.word => v = w)
<1>1. PICK p \in Parameters(d) :
           /\ v.id = p.id
           /\ \/ v = ErrorValue(p) /\ v.occurrence = 0 /\ v.subframe = 0
              \/ /\ v.occurrence \in DOMAIN p.occurrences
                 /\ DOMAIN p.occurrences \subseteq Nat \ {0}
                 /\ p.occurrences # <<>>
                 /\ v.subframe \in p.occurrences[v.occurrence].subframes \cap Subframes
                 /\ v = Value(p, v.occurrence, v.subframe, [sf \in Subframes |-> v.word])
  BY ValueParts
<1>2. PICK q \in Parameters(d) :
           /\ w.id = q.id
           /\ \/ w = ErrorValue(q) /\ w.occurrence = 0 /\ w.subframe = 0
              \/ /\ w.occurrence \in DOMAIN q.occurrences
                 /\ DOMAIN q.occurrences \subseteq Nat \ {0}
                 /\ q.occurrences # <<>>
                 /\ w.subframe \in q.occurrences[w.occurrence].subframes \cap Subframes
                 /\ w = Value(q, w.occurrence, w.subframe, [sf \in Subframes |-> w.word])
  BY ValueParts
<1>3. p = q
  BY <1>1, <1>2, PlaceOf DEF AtOnePlace
<1>4. Key(v) = Key(w)
  BY <1>1, <1>2, <1>3 DEF Key, AtOnePlace
<1>5. ASSUME v.word = w.word PROVE v = w
  BY <1>1, <1>2, <1>3, <1>5 DEF AtOnePlace
<1>6. QED
  BY <1>4, <1>5

-----------------------------------------------------------------------------
\* The rows of the table are values of the dataframe.
LEMMA RowsAreValues ==
  ASSUME NEW d \in Dataframes, NEW S, IsFiniteSet(S),
         \A v \in S : OfDataframe(v, d),
         \A v, w \in S : Key(v) = Key(w) => v = w
  PROVE  \A i \in DOMAIN Sorted(d, S) : Sorted(d, S)[i] \in S
<1>1. \A v \in S : /\ Position(d, v.id) \in Nat
                   /\ v.occurrence \in Nat /\ v.subframe \in Nat
  BY ValuesOrdered
<1>2. ASSUME NEW v \in S, NEW w \in S, AtOnePlace(d, v, w) PROVE v = w
  BY <1>2, SamePlace
<1>3. QED
  BY <1>1, <1>2, SortedPicks

\* The subframe decoded: a finite set of values of the dataframe, all with
\* the words of that subframe.
LEMMA DecodedFacts ==
  ASSUME NEW d \in Dataframes, NEW sf \in Subframes, NEW words
  PROVE  /\ IsFiniteSet(DecodeSubframe(words, d, sf))
         /\ \A v \in DecodeSubframe(words, d, sf) :
              /\ OfDataframe(v, d)
              /\ v.subframe = 0 \/ (v.subframe = sf /\ v.word = words[sf])
<1> DEFINE Of(p) == IF p.occurrences = <<>> THEN IF sf = 1 THEN {ErrorValue(p)} ELSE {}
                    ELSE DecodedIn(p, sf, words)
<1>1. ASSUME NEW p \in Parameters(d), NEW v \in Of(p)
      PROVE  /\ OfDataframe(v, d)
             /\ v.subframe = 0 \/ (v.subframe = sf /\ v.word = words[sf])
  <2>1. CASE p.occurrences = <<>>
    <3>1. v = ErrorValue(p)
      BY <2>1
    <3>2. v.subframe = 0
      BY <3>1 DEF ErrorValue
    <3>3. OfDataframe(v, d)
      BY <3>1 DEF OfDataframe
    <3>4. QED
      BY <3>2, <3>3
  <2>2. CASE p.occurrences # <<>>
    <3>1. PICK o \in DOMAIN p.occurrences :
            sf \in p.occurrences[o].subframes /\ v = Value(p, o, sf, words)
      BY <2>2 DEF DecodedIn
    <3>2. v.subframe = sf /\ v.word = words[sf]
      BY <3>1 DEF Value
    <3>3. Value(p, o, sf, words) = Value(p, o, sf, [s \in Subframes |-> v.word])
      BY <3>2 DEF Value
    <3>4. v.subframe \in p.occurrences[o].subframes \cap Subframes
      BY <3>1, <3>2
    <3>5. v = Value(p, o, v.subframe, [s \in Subframes |-> v.word])
      BY <3>1, <3>2, <3>3
    <3>6. OfDataframe(v, d)
      BY <3>4, <3>5 DEF OfDataframe
    <3>7. QED
      BY <3>2, <3>6
  <2>3. QED
    BY <2>1, <2>2
<1>2. ASSUME NEW p \in Parameters(d) PROVE IsFiniteSet(Of(p))
  <2>1. CASE p.occurrences = <<>>
    BY <2>1, FS_EmptySet, FS_Singleton
  <2>2. CASE p.occurrences # <<>>
    <3> DEFINE here == {k \in DOMAIN p.occurrences : sf \in p.occurrences[k].subframes}
               value == [o \in here |-> Value(p, o, sf, words)]
    <3>1. PICK T : p.occurrences \in Seq(T)
      BY DataframesAssumption
    <3>2. DOMAIN p.occurrences = 1..Len(p.occurrences) /\ Len(p.occurrences) \in Nat
      BY <3>1
    <3>3. IsFiniteSet(DOMAIN p.occurrences)
      BY <3>2, FS_Interval
    <3>4. IsFiniteSet(here)
      BY <3>3, FS_Subset
    <3>5. value \in Surjection(here, DecodedIn(p, sf, words))
      BY DEF DecodedIn, Surjection
    <3> HIDE DEF here, value
    <3>6. IsFiniteSet(DecodedIn(p, sf, words))
      BY <3>4, <3>5, FS_Surjection
    <3>7. QED
      BY <2>2, <3>6
  <2>3. QED
    BY <2>1, <2>2
<1>3. DecodeSubframe(words, d, sf) = UNION {Of(p) : p \in Parameters(d)}
  BY DEF DecodeSubframe
<1> HIDE DEF Of
<1>4. IsFiniteSet({Of(p) : p \in Parameters(d)})
  <2> DEFINE of == [i \in DOMAIN d.parameters |-> Of(d.parameters[i])]
  <2>1. d.parameters \in Seq(Parameters(d))
    BY DataframesAssumption
  <2>2. DOMAIN d.parameters = 1..Len(d.parameters) /\ Len(d.parameters) \in Nat
    BY <2>1
  <2>3. IsFiniteSet(DOMAIN d.parameters)
    BY <2>2, FS_Interval
  <2>4. of \in Surjection(DOMAIN d.parameters, {Of(p) : p \in Parameters(d)})
    BY DEF Parameters, Surjection
  <2> HIDE DEF of
  <2>5. QED
    BY <2>3, <2>4, FS_Surjection
<1>5. IsFiniteSet(UNION {Of(p) : p \in Parameters(d)})
  <2>1. \A T \in {Of(p) : p \in Parameters(d)} : IsFiniteSet(T)
    BY <1>2
  <2>2. QED
    BY <1>4, <2>1, FS_UNION
<1>6. QED
  BY <1>1, <1>3, <1>5

-----------------------------------------------------------------------------
\* Values as StreamingService keeps them: one for each place, each decoded by
\* the dataframe.
ValuesOf(d, values) ==
  /\ IsFiniteSet(values)
  /\ \A v \in values : OfDataframe(v, d)
  /\ \A v, w \in values : Key(v) = Key(w) => v = w

\* The value of a subframe that has been received is the one its words give.
AsReceived(values, slots, words) ==
  \A v \in values :
    v.subframe # 0 /\ Decodable(slots[v.subframe]) => v.word = words[v.subframe]

\* The values of the subframe just decoded take the place of the old ones,
\* all of them: what is left of the old values is of other subframes.
LEMMA MergedFacts ==
  ASSUME NEW d \in Dataframes, NEW sf \in Subframes, NEW words,
         NEW old, ValuesOf(d, old)
  PROVE  LET values == Merged(old, DecodeSubframe(words, d, sf))
         IN  /\ ValuesOf(d, values)
             /\ \A v \in values : \/ v.subframe = 0
                                  \/ (v.subframe = sf /\ v.word = words[sf])
                                  \/ (v \in old /\ v.subframe # sf)
<1> DEFINE new == DecodeSubframe(words, d, sf)
           kept == {v \in old : \A w \in new : Key(w) # Key(v)}
<1>1. /\ IsFiniteSet(new)
      /\ \A v \in new : OfDataframe(v, d)
      /\ \A v \in new : v.subframe = 0 \/ (v.subframe = sf /\ v.word = words[sf])
  BY DecodedFacts
<1>2. /\ IsFiniteSet(old)
      /\ \A v \in old : OfDataframe(v, d)
      /\ \A v, w \in old : Key(v) = Key(w) => v = w
  BY DEF ValuesOf
<1>3. Merged(old, new) = kept \cup new
  BY DEF Merged
<1>4. IsFiniteSet(kept \cup new)
  <2>1. IsFiniteSet(kept)
    BY <1>2, FS_Subset
  <2> HIDE DEF kept, new
  <2>2. QED
    BY <1>1, <2>1, FS_Union
<1>5. ASSUME NEW v \in new, NEW w \in new, Key(v) = Key(w) PROVE v = w
  <2>1. OfDataframe(v, d) /\ OfDataframe(w, d)
    BY <1>1
  <2>2. AtOnePlace(d, v, w)
    BY <1>5 DEF Key, AtOnePlace
  <2>3. CASE v.subframe = 0
    <3>1. PICK p \in Parameters(d) : v.id = p.id /\ v = ErrorValue(p)
      <4>1. 0 \notin Subframes
        BY LiveAssumption
      <4>2. QED
        BY <2>1, <2>3, <4>1, ValueParts
    <3>2. PICK q \in Parameters(d) : w.id = q.id /\ w = ErrorValue(q)
      <4>1. 0 \notin Subframes
        BY LiveAssumption
      <4>2. w.subframe = 0
        BY <2>2, <2>3 DEF AtOnePlace
      <4>3. QED
        BY <2>1, <4>1, <4>2, ValueParts
    <3>3. p = q
      BY <2>2, <3>1, <3>2, PlaceOf DEF AtOnePlace
    <3>4. QED
      BY <3>1, <3>2, <3>3
  <2>4. CASE v.subframe # 0
    <3>1. v.word = w.word
      BY <1>1, <2>2, <2>4 DEF AtOnePlace
    <3>2. QED
      BY <2>1, <2>2, <3>1, SamePlace
  <2>5. QED
    BY <2>3, <2>4
<1>6. \A v, w \in kept \cup new : Key(v) = Key(w) => v = w
  <2>1. ASSUME NEW v \in kept, NEW w \in new PROVE Key(v) # Key(w)
    BY DEF kept
  <2>2. ASSUME NEW v \in kept, NEW w \in kept, Key(v) = Key(w) PROVE v = w
    BY <1>2, <2>2
  <2> HIDE DEF kept, new
  <2>3. QED
    BY <1>5, <2>1, <2>2
<1>7. ASSUME NEW v \in kept PROVE v.subframe = 0 \/ (v \in old /\ v.subframe # sf)
  <2> SUFFICES ASSUME v.subframe # 0, v.subframe = sf PROVE FALSE
    OBVIOUS
  <2>1. OfDataframe(v, d)
    BY <1>2
  <2>2. PICK p \in Parameters(d) :
          /\ v.id = p.id
          /\ v.occurrence \in DOMAIN p.occurrences
          /\ p.occurrences # <<>>
          /\ v.subframe \in p.occurrences[v.occurrence].subframes
    BY <2>1, ValueParts
  <2> DEFINE w == Value(p, v.occurrence, sf, words)
  <2>3. w \in DecodedIn(p, sf, words)
    BY <2>2 DEF DecodedIn
  <2>4. w \in new
    BY <2>2, <2>3 DEF DecodeSubframe
  <2>5. Key(w) = Key(v)
    BY <2>2 DEF Value, Key
  <2>6. QED
    BY <2>4, <2>5
<1>8. \A v \in kept \cup new : OfDataframe(v, d)
  BY <1>1, <1>2
<1>9. ValuesOf(d, kept \cup new)
  BY <1>4, <1>6, <1>8 DEF ValuesOf
<1>10. QED
  BY <1>1, <1>3, <1>7, <1>9

\* Decoding a subframe leaves the values as they were received.
LEMMA MergedReceived ==
  ASSUME NEW d \in Dataframes, NEW sf \in Subframes, NEW old, ValuesOf(d, old),
         NEW slots, NEW words, AsReceived(old, slots, words),
         NEW slots2, NEW words2,
         \A s \in Subframes \ {sf} :
           words2[s] = words[s] /\ (Decodable(slots2[s]) => Decodable(slots[s]))
  PROVE  AsReceived(Merged(old, DecodeSubframe(words2, d, sf)), slots2, words2)
<1> DEFINE values == Merged(old, DecodeSubframe(words2, d, sf))
<1> SUFFICES ASSUME NEW v \in values, v.subframe # 0, Decodable(slots2[v.subframe])
             PROVE  v.word = words2[v.subframe]
  BY DEF AsReceived
<1>1. \/ v.subframe = 0
      \/ (v.subframe = sf /\ v.word = words2[sf])
      \/ (v \in old /\ v.subframe # sf)
  BY MergedFacts
<1>2. CASE v \in old /\ v.subframe # sf
  <2>1. OfDataframe(v, d)
    BY <1>2 DEF ValuesOf
  <2>2. v.subframe \in Subframes \ {sf}
    BY <1>2, <2>1, ValuesOrdered
  <2>3. v.word = words[v.subframe]
    BY <1>2, <2>2 DEF AsReceived
  <2>4. QED
    BY <2>2, <2>3
<1>3. QED
  BY <1>1, <1>2

\* The same when the subframe is not decoded, being damaged or missing.
LEMMA NotReceived ==
  ASSUME NEW d \in Dataframes, NEW sf \in Subframes, NEW old, ValuesOf(d, old),
         NEW slots, NEW words, AsReceived(old, slots, words),
         NEW slots2, NEW words2, ~Decodable(slots2[sf]),
         \A s \in Subframes \ {sf} :
           words2[s] = words[s] /\ (Decodable(slots2[s]) => Decodable(slots[s]))
  PROVE  AsReceived(old, slots2, words2)
<1> SUFFICES ASSUME NEW v \in old, v.subframe # 0, Decodable(slots2[v.subframe])
             PROVE  v.word = words2[v.subframe]
  BY DEF AsReceived
<1>1. OfDataframe(v, d)
  BY DEF ValuesOf
<1>2. v.subframe \in Subframes \ {sf}
  BY <1>1, ValuesOrdered
<1>3. v.word = words[v.subframe]
  BY <1>2 DEF AsReceived
<1>4. QED
  BY <1>2, <1>3

-----------------------------------------------------------------------------
\* The latest values are of the active dataframe, and if the stream has its
\* rate, of the words the stream holds.
LatestDecoded ==
  /\ dataframe \in Dataframes
  /\ ValuesOf(dataframe, latest)
  /\ stream.wps = dataframe.wps => AsReceived(latest, stream.slots, stream.words)

\* A frame that is live is the one the stream fills.
StreamShown ==
  /\ stream.next \in Subframes /\ DOMAIN stream.words = Subframes
  /\ Live(frame) => stream.state = "on" /\ frame = Frame(stream.words, stream.wps, stream.slots)

\* Once a subframe has been decoded the table shows the latest values.
TableShown ==
  /\ "decoded" \in DOMAIN past
  /\ past.decoded => Live(frame) /\ engineering = Sorted(dataframe, latest)

\* The inductive invariant of the live view, on top of IInv.
TableInv == LatestDecoded /\ StreamShown /\ TableShown

\* What the invariant is for.
LEMMA TableInvAgrees == TableInv => TableAgreesWithFrame
<1> SUFFICES ASSUME TableInv, Live(frame), past.decoded, frame.wps = dataframe.wps,
                    NEW i \in DOMAIN engineering
             PROVE  LET v == engineering[i] IN
                    /\ \E p \in Parameters(dataframe) :
                         \/ v = ErrorValue(p)
                         \/ \E o \in DOMAIN p.occurrences :
                              /\ v.subframe \in p.occurrences[o].subframes
                              /\ v = Value(p, o, v.subframe, [sf \in Subframes |-> v.word])
                    /\ v.subframe # 0 /\ Decodable(frame.states[v.subframe])
                         => v.word = frame.words[v.subframe]
  BY DEF TableAgreesWithFrame
<1> DEFINE v == engineering[i]
<1>1. engineering = Sorted(dataframe, latest)
  BY DEF TableInv, TableShown
<1>2. v \in latest
  BY <1>1, RowsAreValues DEF TableInv, LatestDecoded, ValuesOf
<1>3. OfDataframe(v, dataframe)
  BY <1>2 DEF TableInv, LatestDecoded, ValuesOf
<1>4. /\ frame.words = stream.words /\ frame.states = stream.slots
      /\ stream.wps = dataframe.wps
  BY DEF TableInv, StreamShown, Frame
<1>5. AsReceived(latest, stream.slots, stream.words)
  BY <1>4 DEF TableInv, LatestDecoded
<1>6. v.subframe # 0 /\ Decodable(frame.states[v.subframe]) => v.word = frame.words[v.subframe]
  BY <1>2, <1>4, <1>5 DEF AsReceived
<1>7. QED
  BY <1>3, <1>6 DEF OfDataframe

\* Nothing has been decoded: no value to be wrong.
LEMMA NoValues ==
  ASSUME NEW d PROVE ValuesOf(d, {}) /\ \A slots, words : AsReceived({}, slots, words)
  BY FS_EmptySet DEF ValuesOf, AsReceived

\* The subframe after one of the frame is one of the frame.
LEMMA NextInFrame == FirstSubframe \in Subframes /\ \A sf : Next1(sf) \in Subframes
<1>1. \E s \in Subframes : \A r \in Subframes : s <= r
  <2>1. Subframes \subseteq 1..4 /\ Subframes # {}
    BY LiveAssumption
  <2>2. CASE 1 \in Subframes
    BY <2>1, <2>2
  <2>3. CASE 1 \notin Subframes /\ 2 \in Subframes
    BY <2>1, <2>3
  <2>4. CASE 1 \notin Subframes /\ 2 \notin Subframes /\ 3 \in Subframes
    BY <2>1, <2>4
  <2>5. CASE 1 \notin Subframes /\ 2 \notin Subframes /\ 3 \notin Subframes
    <3>1. \A r \in Subframes : r = 4
      BY <2>1, <2>5
    <3>2. PICK s \in Subframes : TRUE
      BY <2>1
    <3>3. \A r \in Subframes : s <= r
      BY <3>1
    <3>4. QED
      BY <3>3
  <2>6. QED
    BY <2>2, <2>3, <2>4, <2>5
<1>2. FirstSubframe \in Subframes
  BY <1>1 DEF FirstSubframe
<1>3. QED
  BY <1>2 DEF Next1

\* The history bit after the changes an action makes to it.
LEMMA PastBits ==
  ASSUME NEW p, "decoded" \in DOMAIN p
  PROVE  /\ "decoded" \in DOMAIN Changed(p) /\ Changed(p).decoded = p.decoded
         /\ "decoded" \in DOMAIN Stale(p) /\ ~Stale(p).decoded
         /\ \A b : /\ "decoded" \in DOMAIN [p EXCEPT !.mixed = b]
                   /\ [p EXCEPT !.mixed = b].decoded = p.decoded
         /\ \A b : /\ "decoded" \in DOMAIN [p EXCEPT !.backward = b]
                   /\ [p EXCEPT !.backward = b].decoded = p.decoded
         /\ \A b : /\ "decoded" \in DOMAIN [p EXCEPT !.decoded = b]
                   /\ [p EXCEPT !.decoded = b].decoded = b
<1>1. "decoded" \in DOMAIN Changed(p) /\ Changed(p).decoded = p.decoded
  BY DEF Changed
<1>2. \A b : /\ "decoded" \in DOMAIN [p EXCEPT !.decoded = b]
             /\ [p EXCEPT !.decoded = b].decoded = b
  OBVIOUS
<1>3. "decoded" \in DOMAIN Stale(p) /\ ~Stale(p).decoded
  <2>1. PICK no : no = FALSE
    OBVIOUS
  <2>2. Stale(p) = [p EXCEPT !.decoded = no]
    BY <2>1, Zenon DEF Stale
  <2>3. "decoded" \in DOMAIN Stale(p) /\ Stale(p).decoded = no
    BY <1>2, <2>2
  <2>4. QED
    BY <2>1, <2>3, Zenon
<1>4. \A b : /\ "decoded" \in DOMAIN [p EXCEPT !.mixed = b]
             /\ [p EXCEPT !.mixed = b].decoded = p.decoded
  OBVIOUS
<1>5. \A b : /\ "decoded" \in DOMAIN [p EXCEPT !.backward = b]
             /\ [p EXCEPT !.backward = b].decoded = p.decoded
  OBVIOUS
<1>6. QED
  BY <1>1, <1>2, <1>3, <1>4, <1>5

-----------------------------------------------------------------------------
\* What the invariant reads does not change.
LEMMA TableUnmoved ==
  ASSUME TableInv, UNCHANGED <<dataframe, frame, stream, latest, engineering>>,
         "decoded" \in DOMAIN past', past'.decoded = past.decoded
  PROVE  TableInv'
<1>1. LatestDecoded'
  BY DEF TableInv, LatestDecoded
<1>2. StreamShown'
  BY DEF TableInv, StreamShown, Live
<1>3. TableShown'
  <2>1. ASSUME past'.decoded PROVE Live(frame)' /\ engineering' = Sorted(dataframe', latest')
    <3>1. past.decoded
      BY <2>1
    <3>2. QED
      BY <3>1 DEF TableInv, TableShown, Live
  <2>2. QED
    BY <2>1 DEF TableShown
<1>4. QED
  BY <1>1, <1>2, <1>3 DEF TableInv

\* A static frame, or another dataframe: nothing is claimed until the next
\* subframe is decoded.
LEMMA NothingShown ==
  ASSUME NEW p, "decoded" \in DOMAIN p, past' = Stale(p) PROVE TableShown'
<1>1. "decoded" \in DOMAIN past' /\ ~past'.decoded
  BY PastBits
<1>2. QED
  BY <1>1 DEF TableShown

\* At the start nothing has been decoded.
LEMMA InitTable == Init => TableInv
<1> SUFFICES ASSUME Init PROVE TableInv
  OBVIOUS
<1>1. latest = {} /\ dataframe = FirstDataframe /\ frame = NoFrame
  BY DEF Init
<1>2. LatestDecoded
  BY <1>1, NoValues, LiveAssumption DEF LatestDecoded
<1>3. StreamShown
  <2>1. stream = Started(0, FirstDataframe.wps, Blank)
    BY DEF Init
  <2>2. stream.next = FirstSubframe /\ DOMAIN stream.words = Subframes
    BY <2>1 DEF Started, Blank
  <2>3. ~Live(frame)
    BY <1>1 DEF Live, NoFrame, Frame, Static
  <2>4. QED
    BY <2>2, <2>3, NextInFrame DEF StreamShown
<1>4. TableShown
  <2>1. PICK no : no = FALSE
    OBVIOUS
  <2>2. past = [decoded |-> no, backward |-> no, mixed |-> no, changes |-> MaxChanges]
    BY <2>1, Zenon DEF Init
  <2>3. "decoded" \in DOMAIN past /\ past.decoded = no
    BY <2>2
  <2>4. QED
    BY <2>1, <2>3, Zenon DEF TableShown
<1>5. QED
  BY <1>2, <1>3, <1>4 DEF TableInv

\* Another dataframe empties the latest values.
LEMMA SetDataframeTable ==
  ASSUME TableInv, NEW d \in Dataframes, SetDataframe(d) PROVE TableInv'
<1>1. /\ dataframe' = d /\ latest' = {} /\ frame' = frame /\ stream' = stream
      /\ past' = [Stale(Changed(past)) EXCEPT !.mixed = @ \/ MixesUnits(d)]
  BY DEF SetDataframe, LatestAfterDataframe
<1>2. LatestDecoded'
  BY <1>1, NoValues DEF LatestDecoded
<1>3. StreamShown'
  BY <1>1 DEF TableInv, StreamShown, Live
<1>4. TableShown'
  <2>1. "decoded" \in DOMAIN Stale(Changed(past)) /\ ~Stale(Changed(past)).decoded
    BY PastBits DEF TableInv, TableShown
  <2>2. PICK b : past' = [Stale(Changed(past)) EXCEPT !.mixed = b]
    BY <1>1
  <2>3. /\ "decoded" \in DOMAIN past'
        /\ past'.decoded = Stale(Changed(past)).decoded
    BY <2>1, <2>2, PastBits
  <2>4. QED
    BY <2>1, <2>3 DEF TableShown
<1>5. QED
  BY <1>2, <1>3, <1>4 DEF TableInv

\* A new static frame, or an edited word of it, is not a frame of the stream.
LEMMA StaticFrameTable ==
  ASSUME TableInv, NewFrame \/ \E sf \in Subframes : SetWord(sf) PROVE TableInv'
<1>1. /\ dataframe' = dataframe /\ latest' = latest /\ stream' = stream
      /\ past' = Stale(Changed(past))
  BY DEF NewFrame, SetWord
<1>2. LatestDecoded'
  BY <1>1 DEF TableInv, LatestDecoded
<1>3. ~Live(frame')
  <2>1. CASE NewFrame
    BY <2>1 DEF NewFrame, Frame, Live, Static
  <2>2. ASSUME NEW sf \in Subframes, SetWord(sf) PROVE ~Live(frame')
    <3>1. PICK words : frame' = [frame EXCEPT !.words = words]
      BY <2>2 DEF SetWord
    <3>2. frame'.states = frame.states
      BY <3>1
    <3>3. ~Live(frame)
      BY <2>2 DEF SetWord
    <3>4. QED
      BY <3>2, <3>3 DEF Live
  <2>3. QED
    BY <2>1, <2>2
<1>4. StreamShown'
  BY <1>1, <1>3 DEF TableInv, StreamShown, Live
<1>5. TableShown'
  <2>1. "decoded" \in DOMAIN Changed(past)
    BY PastBits DEF TableInv, TableShown
  <2>2. QED
    BY <1>1, <2>1, NothingShown
<1>6. QED
  BY <1>2, <1>4, <1>5 DEF TableInv

\* A stream that starts has no slot received; the frame shown is static.
LEMMA StartTable ==
  ASSUME TableInv, NEW start, StartStream(start) PROVE TableInv'
<1> DEFINE words == IF start # now THEN Blank ELSE stream.words
<1>1. /\ stream' = Started(start, dataframe.wps, words)
      /\ stream.state = "off"
      /\ UNCHANGED <<dataframe, frame, latest, engineering>>
      /\ past' = [Changed(past) EXCEPT !.backward = @ \/ EndsAfter(start + SubframeTicks)]
  BY DEF StartStream
<1>2. DOMAIN words = Subframes
  BY DEF TableInv, StreamShown, Blank
<1> HIDE DEF words
<1>3. /\ stream'.next = FirstSubframe /\ stream'.words = words
      /\ stream'.slots = Pending
  BY <1>1 DEF Started
<1>4. LatestDecoded'
  <2>1. ValuesOf(dataframe, latest)
    BY DEF TableInv, LatestDecoded
  <2>2. AsReceived(latest, Pending, words)
    <3>1. ASSUME NEW v \in latest, v.subframe # 0 PROVE ~Decodable(Pending[v.subframe])
      <4>1. OfDataframe(v, dataframe)
        BY <2>1 DEF ValuesOf
      <4>2. v.subframe \in Subframes
        BY <3>1, <4>1, ValuesOrdered DEF TableInv, LatestDecoded
      <4>3. QED
        BY <4>2 DEF Pending, Decodable
    <3>2. QED
      BY <3>1 DEF AsReceived
  <2>3. QED
    BY <1>1, <1>3, <2>1, <2>2 DEF LatestDecoded, TableInv
<1>5. ~Live(frame')
  BY <1>1 DEF TableInv, StreamShown, Live
<1>6. StreamShown'
  BY <1>2, <1>3, <1>5, NextInFrame DEF StreamShown, Live
<1>7. TableShown'
  <2>1. PICK b : past' = [Changed(past) EXCEPT !.backward = b]
    BY <1>1
  <2>2. /\ "decoded" \in DOMAIN past'
        /\ past'.decoded = past.decoded
    BY <2>1, PastBits DEF TableInv, TableShown
  <2>3. ~past.decoded
    BY <1>1, <1>5 DEF TableInv, TableShown, Live
  <2>4. QED
    BY <2>2, <2>3 DEF TableShown
<1>8. QED
  BY <1>4, <1>6, <1>7 DEF TableInv

\* A frame that has just been made static is not live.
LEMMA MadeStatic ==
  ASSUME NEW words, NEW wps, NEW slots
  PROVE  ~Live([Frame(words, wps, slots) EXCEPT !.states = Static])
  BY DEF Live, Frame

\* The end of the stream makes the frame static.
LEMMA StopTable ==
  ASSUME IInv, TableInv, StopStream PROVE TableInv'
<1>1. PICK state : stream' = [stream EXCEPT !.state = state]
  BY DEF StopStream
<1>2. stream' = [state |-> state, t |-> stream.t, wps |-> stream.wps, next |-> stream.next,
                 words |-> stream.words, slots |-> stream.slots]
  BY <1>1 DEF IInv, IsStream
<1>3. /\ stream'.wps = stream.wps /\ stream'.next = stream.next
      /\ stream'.words = stream.words /\ stream'.slots = stream.slots
  BY <1>2
<1>4. dataframe' = dataframe /\ latest' = latest
  BY DEF StopStream
<1>5. LatestDecoded'
  BY <1>3, <1>4 DEF TableInv, LatestDecoded
<1>6. ~Live(frame') /\ TableShown'
  <2>1. CASE Live(frame)
    <3>1. frame' = [frame EXCEPT !.states = Static] /\ past' = Stale(past)
      BY <2>1 DEF StopStream
    <3>2. frame = Frame(stream.words, stream.wps, stream.slots)
      BY <2>1 DEF TableInv, StreamShown
    <3>3. ~Live(frame')
      BY <3>1, <3>2, MadeStatic
    <3>4. TableShown'
      BY <3>1, NothingShown DEF TableInv, TableShown
    <3>5. QED
      BY <3>3, <3>4
  <2>2. CASE ~Live(frame)
    <3>1. UNCHANGED <<frame, past>>
      BY <2>2 DEF StopStream
    <3>2. "decoded" \in DOMAIN past /\ ~past.decoded
      BY <2>2 DEF TableInv, TableShown
    <3>3. TableShown'
      BY <3>1, <3>2 DEF TableShown
    <3>4. ~Live(frame')
      BY <2>2, <3>1
    <3>5. QED
      BY <3>3, <3>4
  <2>3. QED
    BY <2>1, <2>2
<1>7. StreamShown'
  BY <1>3, <1>6 DEF TableInv, StreamShown, Live
<1>8. QED
  BY <1>5, <1>6, <1>7 DEF TableInv

-----------------------------------------------------------------------------
\* A subframe is delivered: its words are in its slot, the other slots hold
\* what they held or have been emptied.
LEMMA DeliverTable ==
  ASSUME TableInv, NEW sf \in Subframes, NEW state, NEW words, NEW slots, NEW end,
         Deliver(sf, state, words, slots, end),
         DOMAIN words = Subframes, DOMAIN slots = Subframes, slots[sf] = state,
         \A s \in Subframes \ {sf} :
           words[s] = stream.words[s] /\ (Decodable(slots[s]) => Decodable(stream.slots[s])),
         stream'.words = words, stream'.slots = slots, stream'.wps = stream.wps,
         stream'.next \in Subframes,
         stream.state # "stopping" => stream.state = "on" /\ stream'.state = "on"
  PROVE  TableInv'
<1> DEFINE live == Frame(words, stream.wps, slots)
           values == DecodeSubframe(words, dataframe, sf)
<1>1. dataframe' = dataframe /\ dataframe \in Dataframes /\ ValuesOf(dataframe, latest)
  BY DEF Deliver, TableInv, LatestDecoded
<1>2. ASSUME Decodes(state, stream.wps) PROVE latest' = Merged(latest, values)
  BY <1>2 DEF Deliver, Decoded
<1>3. ASSUME ~Decodes(state, stream.wps) PROVE latest' = latest
  BY <1>3 DEF Deliver, NotDecoded
<1>4. ValuesOf(dataframe', latest')
  <2>1. CASE Decodes(state, stream.wps)
    BY <1>1, <1>2, <2>1, MergedFacts
  <2>2. CASE ~Decodes(state, stream.wps)
    BY <1>1, <1>3, <2>2
  <2>3. QED
    BY <2>1, <2>2
<1>5. ASSUME stream'.wps = dataframe' .wps PROVE AsReceived(latest', stream'.slots, stream'.words)
  <2>1. AsReceived(latest, stream.slots, stream.words)
    BY <1>1, <1>5 DEF TableInv, LatestDecoded
  <2>2. CASE Decodes(state, stream.wps)
    <3>1. AsReceived(Merged(latest, values), slots, words)
      BY <1>1, <2>1, MergedReceived
    <3>2. QED
      BY <1>2, <2>2, <3>1
  <2>3. CASE ~Decodable(state)
    <3>1. AsReceived(latest, slots, words)
      BY <1>1, <2>1, <2>3, NotReceived
    <3>2. latest' = latest
      BY <1>3, <2>3 DEF Decodes
    <3>3. QED
      BY <3>1, <3>2
  <2>4. CASE dataframe = NoDataframe
    <3>1. \A v \in latest : OfDataframe(v, NoDataframe)
      BY <1>1, <2>4 DEF ValuesOf
    <3>2. Parameters(NoDataframe) = {}
      BY DEF Parameters, NoDataframe
    <3>3. latest = {}
      BY <3>1, <3>2 DEF OfDataframe
    <3>4. latest' = latest
      BY <1>3, <2>4 DEF Decodes
    <3>5. QED
      BY <3>3, <3>4, NoValues
  <2>5. QED
    BY <1>1, <1>5, <2>2, <2>3, <2>4 DEF Decodes
<1>6. LatestDecoded'
  BY <1>1, <1>4, <1>5 DEF LatestDecoded
<1>7. CASE stream.state = "stopping"
  <2>1. frame' = [live EXCEPT !.states = Static] /\ past' = Stale(past)
    BY <1>7 DEF Deliver
  <2>2. ~Live(frame')
    BY <2>1, MadeStatic
  <2>3. TableShown'
    BY <2>1, NothingShown DEF TableInv, TableShown
  <2>4. StreamShown'
    BY <2>2 DEF StreamShown, Live
  <2>5. QED
    BY <1>6, <2>3, <2>4 DEF TableInv
<1>8. CASE stream.state # "stopping"
  <2>1. frame' = live
    BY <1>8 DEF Deliver
  <2>2. Live(frame')
    BY <2>1, LiveFrame
  <2>3. StreamShown'
    BY <1>8, <2>1 DEF StreamShown, Live
  <2>4. past' = [past EXCEPT !.decoded = @ \/ Decodes(state, stream.wps)]
    BY <1>8 DEF Deliver
  <2>5. PICK a : a = (past.decoded \/ Decodes(state, stream.wps))
    OBVIOUS
  <2>6. "decoded" \in DOMAIN past' /\ past'.decoded = a
    <3>1. past' = [past EXCEPT !.decoded = a]
      BY <2>4, <2>5, Zenon
    <3>2. QED
      BY <3>1, PastBits DEF TableInv, TableShown
  <2>7. ASSUME past'.decoded PROVE engineering' = Sorted(dataframe', latest')
    <3>1. past.decoded \/ Decodes(state, stream.wps)
      BY <2>5, <2>6, <2>7, Zenon
    <3>2. CASE Decodes(state, stream.wps)
      BY <1>1, <1>8, <3>2 DEF Deliver, Publish
    <3>3. CASE past.decoded /\ ~Decodes(state, stream.wps)
      <4>1. engineering' = engineering
        BY <1>8, <3>3 DEF Deliver
      <4>2. engineering = Sorted(dataframe, latest)
        BY <3>3 DEF TableInv, TableShown
      <4>3. QED
        BY <1>1, <1>3, <3>3, <4>1, <4>2
    <3>4. QED
      BY <3>1, <3>2, <3>3
  <2>8. TableShown'
    BY <2>2, <2>6, <2>7 DEF TableShown, Live
  <2>9. QED
    BY <1>6, <2>3, <2>8 DEF TableInv
<1>9. QED
  BY <1>7, <1>8

\* The next subframe: its words and its slot, the others as they were or emptied.
LEMMA ArrivalTable ==
  ASSUME IInv, TableInv, NEW state, Arrival(state) PROVE TableInv'
<1> DEFINE sf == stream.next
           begun == IF sf = FirstSubframe THEN Pending ELSE stream.slots
           slots == [begun EXCEPT ![sf] = state]
           words == IF state = "MISSING" THEN stream.words
                    ELSE [stream.words EXCEPT ![sf] = now + SubframeTicks]
           end == stream.t + SubframeTicks
           after == IF stream.state = "stopping" THEN "off" ELSE stream.state
<1>1. sf \in Subframes /\ DOMAIN stream.words = Subframes /\ DOMAIN stream.slots = Subframes
  BY DEF IInv, SlotsKept, TableInv, StreamShown
<1>2. DOMAIN begun = Subframes
  BY <1>1 DEF Pending
<1>3. DOMAIN slots = Subframes /\ slots[sf] = state /\ DOMAIN words = Subframes
  BY <1>1, <1>2
<1>4. ASSUME NEW s \in Subframes \ {sf}
      PROVE  words[s] = stream.words[s] /\ (Decodable(slots[s]) => Decodable(stream.slots[s]))
  <2>1. words[s] = stream.words[s] /\ slots[s] = begun[s]
    BY <1>1, <1>2
  <2>2. Decodable(begun[s]) => Decodable(stream.slots[s])
    BY DEF Pending, Decodable
  <2>3. QED
    BY <2>1, <2>2
<1>5. Deliver(sf, state, words, slots, end)
  BY DEF Arrival
<1>6. stream' = [stream EXCEPT !.t = end, !.next = Next1(sf), !.words = words,
                               !.slots = slots, !.state = after]
  BY DEF Arrival
<1>7. stream.state \in {"on", "stopping"}
  BY DEF Arrival
<1>8. stream.state # "stopping" => after = "on"
  BY <1>7
<1> HIDE DEF slots, words, end, after
<1>9. stream' = [state |-> after, t |-> end, wps |-> stream.wps, next |-> Next1(sf),
                 words |-> words, slots |-> slots]
  BY <1>6 DEF IInv, IsStream
<1>10. /\ stream'.words = words /\ stream'.slots = slots /\ stream'.wps = stream.wps
       /\ stream'.next \in Subframes
       /\ stream.state # "stopping" => stream.state = "on" /\ stream'.state = "on"
  BY <1>7, <1>8, <1>9, NextInFrame
<1>11. QED
  BY <1>1, <1>3, <1>4, <1>5, <1>10, DeliverTable

\* A late subframe: its words and its slot, the others as they were.
LEMMA LateArrivalTable ==
  ASSUME IInv, TableInv, NEW sf \in Subframes, LateArrival(sf) PROVE TableInv'
<1> DEFINE slots == [stream.slots EXCEPT ![sf] = "LATE"]
           words == [stream.words EXCEPT ![sf] = now + 1]
<1>1. DOMAIN stream.words = Subframes /\ DOMAIN stream.slots = Subframes
  BY DEF IInv, SlotsKept, TableInv, StreamShown
<1>2. DOMAIN slots = Subframes /\ slots[sf] = "LATE" /\ DOMAIN words = Subframes
  BY <1>1
<1>3. ASSUME NEW s \in Subframes \ {sf}
      PROVE  words[s] = stream.words[s] /\ (Decodable(slots[s]) => Decodable(stream.slots[s]))
  BY <1>1
<1>4. Deliver(sf, "LATE", words, slots, stream.t) /\ stream.state = "on"
  BY DEF LateArrival
<1>5. stream' = [stream EXCEPT !.words = words, !.slots = slots]
  BY DEF LateArrival
<1> HIDE DEF slots, words
<1>6. stream' = [state |-> stream.state, t |-> stream.t, wps |-> stream.wps,
                 next |-> stream.next, words |-> words, slots |-> slots]
  BY <1>5 DEF IInv, IsStream
<1>7. /\ stream'.words = words /\ stream'.slots = slots /\ stream'.wps = stream.wps
      /\ stream'.next \in Subframes /\ stream'.state = "on"
  BY <1>4, <1>6 DEF TableInv, StreamShown
<1>8. QED
  BY <1>2, <1>3, <1>4, <1>7, DeliverTable

\* Every step preserves the invariant of the live view.
LEMMA StepKeepsTable == IInv /\ TableInv /\ [Next]_vars => TableInv'
<1> SUFFICES ASSUME IInv, TableInv, [Next]_vars PROVE TableInv'
  OBVIOUS
<1>1. "decoded" \in DOMAIN past
  BY DEF TableInv, TableShown
<1>2. ASSUME past' = past \/ past' = Changed(past)
      PROVE  "decoded" \in DOMAIN past' /\ past'.decoded = past.decoded
  BY <1>1, <1>2, PastBits
<1>3. ASSUME NEW d \in Dataframes, SetDataframe(d) PROVE TableInv'
  BY <1>3, SetDataframeTable
<1>4. ASSUME NewFrame \/ \E sf \in Subframes : SetWord(sf) PROVE TableInv'
  BY <1>4, StaticFrameTable
<1>5. ASSUME NEW start, StartStream(start) PROVE TableInv'
  BY <1>5, StartTable
<1>6. ASSUME StopStream PROVE TableInv'
  BY <1>6, StopTable
<1>7. ASSUME NEW state, Arrival(state) PROVE TableInv'
  BY <1>7, ArrivalTable
<1>8. ASSUME NEW sf \in Subframes, LateArrival(sf) PROVE TableInv'
  BY <1>8, LateArrivalTable
<1>9. ASSUME NEW key, SelectSample(key) PROVE TableInv'
  BY <1>2, <1>9, TableUnmoved DEF SelectSample
<1>10. ASSUME NEW id, SelectParameter(id) \/ CheckOverlay(id) PROVE TableInv'
  BY <1>2, <1>10, TableUnmoved DEF SelectParameter, CheckOverlay, AtGraph
<1>11. CASE Pause \/ Resume \/ Refresh
  BY <1>2, <1>11, TableUnmoved DEF Pause, Resume, Refresh, AtGraph
<1>12. CASE ClearHistory
  <2>1. /\ UNCHANGED <<dataframe, frame, stream, latest, engineering>>
        /\ past' = [Changed(past) EXCEPT !.backward = FALSE, !.mixed = FALSE]
    BY <1>12 DEF ClearHistory
  <2>2. PICK no : no = FALSE
    OBVIOUS
  <2>3. past' = [Changed(past) EXCEPT !.backward = no, !.mixed = no]
    BY <2>1, <2>2, Zenon
  <2>4. "decoded" \in DOMAIN past' /\ past'.decoded = past.decoded
    <3>1. "decoded" \in DOMAIN Changed(past) /\ Changed(past).decoded = past.decoded
      BY <1>1, PastBits
    <3>2. QED
      BY <2>3, <3>1
  <2>5. QED
    BY <2>1, <2>4, TableUnmoved
<1>13. CASE UNCHANGED vars
  BY <1>2, <1>13, TableUnmoved DEF vars
<1>14. QED
  BY <1>3, <1>4, <1>5, <1>6, <1>7, <1>8, <1>9, <1>10, <1>11, <1>12, <1>13 DEF Next

\* During a stream, once the active dataframe has decoded a subframe, every
\* row of the Parameters table is a value of one of its parameters, decoded
\* from the words the Frame View shows if it shows them as received: for any
\* loss, damage and lateness of subframes and any change of dataframe.
THEOREM TableAgrees == Spec => []TableAgreesWithFrame
<1>1. Init => IInv /\ TableInv
  BY InitIInv, InitTable
<1>2. IInv /\ TableInv /\ [Next]_vars => (IInv /\ TableInv)'
  BY StepKeeps, StepKeepsTable
<1>3. IInv /\ TableInv => TableAgreesWithFrame
  BY TableInvAgrees
<1>4. QED
  BY <1>1, <1>2, <1>3, PTL DEF Spec

-----------------------------------------------------------------------------
(* Induction over the samples of a batch. *)

\* The least number principle, for any set of numbers.
LEMMA LeastNatural ==
  ASSUME NEW T, T \subseteq Nat, T # {}
  PROVE  \E x \in T : \A y \in T : x <= y
<1> DEFINE R == OpToRel(<, Nat)
<1>1. IsWellFoundedOn(R, Nat)
  BY NatLessThanWellFounded
<1>2. \A x, y \in Nat : y < x => <<y, x>> \in R
  BY DEF OpToRel
<1> HIDE DEF R
<1>3. \E x \in T : \A y \in T : ~ (<<y, x>> \in R)
  BY <1>1, WFMin
<1>4. PICK x \in T : \A y \in T : ~ (<<y, x>> \in R)
  BY <1>3
<1>5. ASSUME NEW y \in T PROVE x <= y
  <2>1. x \in Nat /\ y \in Nat
    OBVIOUS
  <2>2. ~(y < x)
    BY <1>2, <1>4, <2>1
  <2>3. QED
    BY <2>1, <2>2
<1>6. QED
  BY <1>5

\* Induction on a set of numbers, in place of a predicate.
LEMMA SetInduction ==
  ASSUME NEW T, 0 \in T, \A n \in Nat : n \in T => n + 1 \in T
  PROVE  Nat \subseteq T
<1> SUFFICES ASSUME Nat \ T # {} PROVE FALSE
  OBVIOUS
<1>1. PICK x \in Nat \ T : \A y \in Nat \ T : x <= y
  BY LeastNatural
<1>2. x # 0 /\ x - 1 \in Nat
  BY <1>1
<1>3. x - 1 \in T
  BY <1>1, <1>2
<1>4. x - 1 + 1 = x
  BY <1>2
<1>5. QED
  BY <1>1, <1>2, <1>3, <1>4

\* The stores that the loop of append() goes through.
FillSteps(g, store, samples, maxSamples) ==
  /\ g[0] = store /\ Filled(store, samples, maxSamples) = g[Len(samples)]
  /\ \A n \in 1 .. Len(samples) : g[n] = Appended(g[n - 1], samples[n], maxSamples)

\* The loop of append() has a state for each sample it has gone through.
LEMMA FilledSteps ==
  ASSUME NEW store, NEW samples, NEW maxSamples, Len(samples) \in Nat
  PROVE  \E g : FillSteps(g, store, samples, maxSamples)
<1> DEFINE Is(g, m) == g = [n \in 0 .. m |-> IF n = 0 THEN store
                                             ELSE Appended(g[n - 1], samples[n], maxSamples)]
           T == {m \in Nat : \E g : Is(g, m)}
<1>1. 0 \in T
  <2>1. Is([n \in 0 .. 0 |-> store], 0)
    OBVIOUS
  <2>2. QED
    BY <2>1
<1>2. ASSUME NEW m \in Nat, m \in T PROVE m + 1 \in T
  <2>1. PICK g : Is(g, m)
    BY <1>2
  <2> DEFINE h == [n \in 0 .. m + 1 |-> IF n = m + 1 THEN Appended(g[m], samples[m + 1], maxSamples)
                                        ELSE g[n]]
  <2>2. ASSUME NEW n \in 0 .. m + 1
        PROVE  h[n] = IF n = 0 THEN store ELSE Appended(h[n - 1], samples[n], maxSamples)
    <3>1. CASE n = m + 1
      <4>1. h[n - 1] = g[m] /\ n # 0
        BY <3>1
      <4>2. QED
        BY <3>1, <4>1
    <3>2. CASE n # m + 1
      <4>1. n \in 0 .. m /\ h[n] = g[n]
        BY <3>2
      <4>2. n # 0 => h[n - 1] = g[n - 1]
        BY <4>1
      <4>3. QED
        BY <2>1, <4>1, <4>2
    <3>3. QED
      BY <3>1, <3>2
  <2>3. Is(h, m + 1)
    <3>1. DOMAIN h = 0 .. m + 1 /\ h = [n \in 0 .. m + 1 |-> h[n]]
      OBVIOUS
    <3> HIDE DEF h
    <3>2. QED
      BY <2>2, <3>1
  <2> HIDE DEF Is
  <2>4. QED
    BY <2>3
<1> HIDE DEF T
<1>3. Nat \subseteq T
  BY <1>1, <1>2, SetInduction
<1>4. \E g : Is(g, Len(samples))
  BY <1>3 DEF T
<1> DEFINE g == CHOOSE f : Is(f, Len(samples))
<1>5. Is(g, Len(samples))
  BY <1>4
<1>6. Filled(store, samples, maxSamples) = g[Len(samples)]
  BY DEF Filled
<1> HIDE DEF g
<1>7. \A n \in 0 .. Len(samples) :
        g[n] = IF n = 0 THEN store ELSE Appended(g[n - 1], samples[n], maxSamples)
  BY <1>5
<1>8. FillSteps(g, store, samples, maxSamples)
  BY <1>6, <1>7 DEF FillSteps
<1>9. QED
  BY <1>8

\* The same of what was heard.
LEMMA HeardSteps ==
  ASSUME NEW samples, Len(samples) \in Nat
  PROVE  \E g : /\ g[0] = heard /\ HeardWith(samples) = g[Len(samples)]
                /\ \A n \in 1 .. Len(samples) :
                     g[n] = Heard(g[n - 1], samples[n])
<1> DEFINE Is(g, m) == g = [n \in 0 .. m |-> IF n = 0 THEN heard
                                             ELSE Heard(g[n - 1], samples[n])]
           T == {m \in Nat : \E g : Is(g, m)}
<1>1. 0 \in T
  <2>1. Is([n \in 0 .. 0 |-> heard], 0)
    OBVIOUS
  <2>2. QED
    BY <2>1
<1>2. ASSUME NEW m \in Nat, m \in T PROVE m + 1 \in T
  <2>1. PICK g : Is(g, m)
    BY <1>2
  <2> DEFINE h == [n \in 0 .. m + 1 |-> IF n = m + 1 THEN Heard(g[m], samples[m + 1])
                                        ELSE g[n]]
  <2>2. ASSUME NEW n \in 0 .. m + 1
        PROVE  h[n] = IF n = 0 THEN heard ELSE Heard(h[n - 1], samples[n])
    <3>1. CASE n = m + 1
      <4>1. h[n - 1] = g[m] /\ n # 0
        BY <3>1
      <4>2. QED
        BY <3>1, <4>1
    <3>2. CASE n # m + 1
      <4>1. n \in 0 .. m /\ h[n] = g[n]
        BY <3>2
      <4>2. n # 0 => h[n - 1] = g[n - 1]
        BY <4>1
      <4>3. QED
        BY <2>1, <4>1, <4>2
    <3>3. QED
      BY <3>1, <3>2
  <2>3. Is(h, m + 1)
    <3>1. DOMAIN h = 0 .. m + 1 /\ h = [n \in 0 .. m + 1 |-> h[n]]
      OBVIOUS
    <3> HIDE DEF h
    <3>2. QED
      BY <2>2, <3>1
  <2> HIDE DEF Is
  <2>4. QED
    BY <2>3
<1> HIDE DEF T
<1>3. Nat \subseteq T
  BY <1>1, <1>2, SetInduction
<1>4. \E g : Is(g, Len(samples))
  BY <1>3 DEF T
<1> DEFINE g == CHOOSE f : Is(f, Len(samples))
<1>5. Is(g, Len(samples))
  BY <1>4
<1>6. HeardWith(samples) = g[Len(samples)]
  BY DEF HeardWith
<1> HIDE DEF g
<1>7. \A n \in 0 .. Len(samples) :
        g[n] = IF n = 0 THEN heard ELSE Heard(g[n - 1], samples[n])
  BY <1>5
<1>8. QED
  BY <1>6, <1>7

-----------------------------------------------------------------------------
(* Ends of sequences *)

\* s is the end of t.
EndOf(s, t) ==
  /\ Len(s) <= Len(t)
  /\ \A i \in 1 .. Len(s) : s[i] = t[Len(t) - Len(s) + i]

\* A series of points: a sequence, with a time on each.
IsPoints(s) == \E P : s \in Seq(P) /\ \A p \in P : p.at \in Int

\* The end of a sequence is a suffix of it: the same read from the back.
LEMMA EndIsSuffix ==
  ASSUME NEW s, IsPoints(s), NEW t, IsPoints(t), EndOf(s, t)
  PROVE  IsSuffix(s, t)
<1> DEFINE r == Reverse(s)
           q == Reverse(t)
<1>1. Len(s) \in Nat /\ Len(t) \in Nat /\ Len(s) <= Len(t)
  BY DEF EndOf, IsPoints
<1>2. /\ r = [i \in 1 .. Len(s) |-> s[(Len(s) - i) + 1]]
      /\ q = [i \in 1 .. Len(t) |-> t[(Len(t) - i) + 1]]
  BY DEF Reverse
<1>3. \E P : r \in Seq(P) /\ q \in Seq(P) /\ Len(r) = Len(s) /\ Len(q) = Len(t)
  <2>1. PICK A : s \in Seq(A)
    BY DEF IsPoints
  <2>2. PICK B : t \in Seq(B)
    BY DEF IsPoints
  <2>3. \A i \in 1 .. Len(s) : s[(Len(s) - i) + 1] \in A \cup B
    BY <1>1, <2>1
  <2>4. \A i \in 1 .. Len(t) : t[(Len(t) - i) + 1] \in A \cup B
    BY <1>1, <2>2
  <2> HIDE DEF r, q
  <2>5. r \in Seq(A \cup B) /\ Len(r) = Len(s)
    BY <1>1, <1>2, <2>3
  <2>6. q \in Seq(A \cup B) /\ Len(q) = Len(t)
    BY <1>1, <1>2, <2>4
  <2>7. QED
    BY <2>5, <2>6
<1>4. ASSUME NEW i \in 1 .. Len(s) PROVE r[i] = q[i]
  <2>1. i \in 1 .. Len(t) /\ (Len(s) - i) + 1 \in 1 .. Len(s)
    BY <1>1
  <2>2. s[(Len(s) - i) + 1] = t[Len(t) - Len(s) + ((Len(s) - i) + 1)]
    BY <2>1 DEF EndOf
  <2>3. Len(t) - Len(s) + ((Len(s) - i) + 1) = (Len(t) - i) + 1
    BY <1>1
  <2> HIDE DEF r, q
  <2>4. QED
    BY <1>2, <2>1, <2>2, <2>3
<1> HIDE DEF r, q
<1>5. SubSeq(r, 1, Len(r)) = SubSeq(q, 1, Len(r))
  <2>1. SubSeq(r, 1, Len(r)) = [i \in 1 .. Len(r) |-> r[i]]
    BY <1>1, <1>3
  <2>2. SubSeq(q, 1, Len(r)) = [i \in 1 .. Len(r) |-> q[i]]
    BY <1>1, <1>3
  <2>3. QED
    BY <1>3, <1>4, <2>1, <2>2
<1>6. QED
  BY <1>1, <1>3, <1>5 DEF IsSuffix, IsPrefix, r, q

\* One point more.
LEMMA PointsAppended ==
  ASSUME NEW s, IsPoints(s), NEW p, p.at \in Int
  PROVE  /\ IsPoints(Append(s, p)) /\ Len(s) \in Nat /\ Len(Append(s, p)) = Len(s) + 1
         /\ \A i \in 1 .. Len(s) : Append(s, p)[i] = s[i]
         /\ Append(s, p)[Len(s) + 1] = p
<1>1. PICK P : s \in Seq(P) /\ \A q \in P : q.at \in Int
  BY DEF IsPoints
<1>2. s \in Seq(P \cup {p})
  BY <1>1
<1>3. Append(s, p) \in Seq(P \cup {p})
  BY <1>2
<1>4. IsPoints(Append(s, p))
  BY <1>1, <1>3 DEF IsPoints
<1>5. QED
  BY <1>2, <1>4

\* One more at the end of both.
LEMMA EndAppended ==
  ASSUME NEW s, IsPoints(s), NEW t, IsPoints(t), EndOf(s, t), NEW p, p.at \in Int
  PROVE  EndOf(Append(s, p), Append(t, p))
<1> DEFINE a == Append(s, p)
           b == Append(t, p)
<1>1. Len(s) \in Nat /\ Len(t) \in Nat /\ Len(s) <= Len(t)
  BY PointsAppended DEF EndOf
<1>2. /\ Len(a) = Len(s) + 1 /\ Len(b) = Len(t) + 1
      /\ \A i \in 1 .. Len(s) : a[i] = s[i]
      /\ \A i \in 1 .. Len(t) : b[i] = t[i]
      /\ a[Len(s) + 1] = p /\ b[Len(t) + 1] = p
  BY PointsAppended
<1> HIDE DEF a, b
<1>3. ASSUME NEW i \in 1 .. Len(s) + 1 PROVE a[i] = b[Len(b) - Len(a) + i]
  <2>1. CASE i = Len(s) + 1
    <3>1. Len(b) - Len(a) + i = Len(t) + 1
      BY <1>1, <1>2, <2>1
    <3>2. QED
      BY <1>2, <2>1, <3>1
  <2>2. CASE i # Len(s) + 1
    <3>1. /\ i \in 1 .. Len(s) /\ Len(t) - Len(s) + i \in 1 .. Len(t)
          /\ Len(b) - Len(a) + i = Len(t) - Len(s) + i
      BY <1>1, <1>2, <2>2
    <3>2. s[i] = t[Len(t) - Len(s) + i]
      BY <3>1 DEF EndOf
    <3>3. QED
      BY <1>2, <3>1, <3>2
  <2>3. QED
    BY <2>1, <2>2
<1>4. EndOf(a, b)
  BY <1>1, <1>2, <1>3 DEF EndOf
<1>5. QED
  BY <1>4 DEF a, b

\* What is left of a sequence from some place on.
LEMMA EndCut ==
  ASSUME NEW s, IsPoints(s), NEW k \in 1 .. Len(s) + 1
  PROVE  /\ IsPoints(SubSeq(s, k, Len(s)))
         /\ Len(SubSeq(s, k, Len(s))) = Len(s) - k + 1
         /\ \A i \in 1 .. Len(s) - k + 1 :
              SubSeq(s, k, Len(s))[i] = s[k - 1 + i] /\ k - 1 + i \in 1 .. Len(s)
         /\ \A t : IsPoints(t) /\ EndOf(s, t) => EndOf(SubSeq(s, k, Len(s)), t)
<1> DEFINE c == SubSeq(s, k, Len(s))
<1>0. PICK P : s \in Seq(P) /\ \A q \in P : q.at \in Int
  BY DEF IsPoints
<1>1. Len(s) \in Nat /\ k \in Nat /\ k # 0
  BY <1>0
<1>2. \A i \in k .. Len(s) : s[i] \in P
  BY <1>0, <1>1
<1>3. /\ c \in Seq(P) /\ Len(c) = Len(s) - k + 1
      /\ \A i \in 1 .. Len(s) - k + 1 : c[i] = s[k - 1 + i] /\ k - 1 + i \in 1 .. Len(s)
  BY <1>0, <1>1, <1>2
<1> HIDE DEF c
<1>4. ASSUME NEW t, IsPoints(t), EndOf(s, t) PROVE EndOf(c, t)
  <2>1. Len(t) \in Nat /\ Len(s) <= Len(t) /\ Len(c) <= Len(t)
    BY <1>1, <1>3, <1>4 DEF EndOf, IsPoints
  <2>2. ASSUME NEW i \in 1 .. Len(c) PROVE c[i] = t[Len(t) - Len(c) + i]
    <3>1. k - 1 + i \in 1 .. Len(s) /\ c[i] = s[k - 1 + i]
      BY <1>1, <1>3
    <3>2. s[k - 1 + i] = t[Len(t) - Len(s) + (k - 1 + i)]
      BY <1>4, <3>1 DEF EndOf
    <3>3. Len(t) - Len(s) + (k - 1 + i) = Len(t) - Len(c) + i
      BY <1>1, <1>3, <2>1
    <3>4. QED
      BY <3>1, <3>2, <3>3
  <2>3. QED
    BY <2>1, <2>2 DEF EndOf
<1>5. IsPoints(c)
  BY <1>0, <1>3 DEF IsPoints
<1>6. QED
  BY <1>3, <1>4, <1>5 DEF c

-----------------------------------------------------------------------------
(* Times along a series *)

\* The points end before top, in order but for the ticks of one subframe.
InOrder(s, top) ==
  /\ \A i \in 1 .. Len(s) : s[i].at < top
  /\ \A i, j \in 1 .. Len(s) : i < j => s[i].at < s[j].at + SubframeTicks

\* What HistoryBounded says of a series.
Bounded(s) ==
  \A i \in 1 .. Len(s) :
    /\ s[i].at + MaxSeconds + SubframeTicks > s[Len(s)].at
    /\ s[i].at < s[Len(s)].at + SubframeTicks

\* A point of the subframe before top may come last.
LEMMA OrderAppended ==
  ASSUME NEW s, IsPoints(s), NEW p, p.at \in Int, NEW top \in Int, InOrder(s, top),
         top - SubframeTicks <= p.at, p.at < top
  PROVE  InOrder(Append(s, p), top)
<1> DEFINE a == Append(s, p)
<1>1. /\ Len(s) \in Nat /\ Len(a) = Len(s) + 1 /\ a[Len(s) + 1] = p
      /\ \A i \in 1 .. Len(s) : a[i] = s[i] /\ s[i].at \in Int
  BY PointsAppended DEF IsPoints
<1> HIDE DEF a
<1>2. ASSUME NEW i \in 1 .. Len(a) PROVE a[i].at < top
  <2>1. CASE i = Len(s) + 1
    BY <1>1, <2>1
  <2>2. CASE i # Len(s) + 1
    <3>1. i \in 1 .. Len(s)
      BY <1>1, <2>2
    <3>2. QED
      BY <1>1, <3>1 DEF InOrder
  <2>3. QED
    BY <2>1, <2>2
<1>3. ASSUME NEW i \in 1 .. Len(a), NEW j \in 1 .. Len(a), i < j
      PROVE  a[i].at < a[j].at + SubframeTicks
  <2>1. i \in 1 .. Len(s)
    BY <1>1, <1>3
  <2>2. CASE j = Len(s) + 1
    <3>1. s[i].at < top
      BY <2>1 DEF InOrder
    <3>2. QED
      BY <1>1, <2>1, <2>2, <3>1 DEF SubframeTicks
  <2>3. CASE j # Len(s) + 1
    <3>1. j \in 1 .. Len(s)
      BY <1>1, <2>3
    <3>2. QED
      BY <1>1, <1>3, <2>1, <3>1 DEF InOrder
  <2>4. QED
    BY <2>2, <2>3
<1>4. InOrder(a, top)
  BY <1>2, <1>3 DEF InOrder
<1>5. QED
  BY <1>4 DEF a

\* The order does not depend on where the series begins.
LEMMA OrderCut ==
  ASSUME NEW s, IsPoints(s), NEW k \in 1 .. Len(s) + 1, NEW top, InOrder(s, top)
  PROVE  InOrder(SubSeq(s, k, Len(s)), top)
<1> DEFINE c == SubSeq(s, k, Len(s))
<1>1. Len(s) \in Nat /\ k \in Nat
  BY DEF IsPoints
<1>2. /\ Len(c) = Len(s) - k + 1
      /\ \A i \in 1 .. Len(s) - k + 1 : c[i] = s[k - 1 + i] /\ k - 1 + i \in 1 .. Len(s)
  BY EndCut
<1> HIDE DEF c
<1>3. ASSUME NEW i \in 1 .. Len(c) PROVE c[i].at < top
  BY <1>2 DEF InOrder
<1>4. ASSUME NEW i \in 1 .. Len(c), NEW j \in 1 .. Len(c), i < j
      PROVE  c[i].at < c[j].at + SubframeTicks
  <2>1. k - 1 + i < k - 1 + j
    BY <1>1, <1>2, <1>4
  <2>2. QED
    BY <1>2, <2>1 DEF InOrder
<1>5. InOrder(c, top)
  BY <1>3, <1>4 DEF InOrder
<1>6. QED
  BY <1>5 DEF c

\* Later tops are tops.
LEMMA OrderWeakened ==
  ASSUME NEW s, IsPoints(s), NEW top \in Int, NEW later \in Int, top <= later, InOrder(s, top)
  PROVE  InOrder(s, later)
<1>1. \A i \in 1 .. Len(s) : s[i].at \in Int
  BY DEF IsPoints
<1>2. QED
  BY <1>1 DEF InOrder

\* LastOf drops from the head.
LEMMA LastOfCut ==
  ASSUME NEW s, IsPoints(s), NEW n \in Nat
  PROVE  \E k \in 1 .. Len(s) + 1 : LastOf(s, n) = SubSeq(s, k, Len(s))
<1>1. PICK P : s \in Seq(P)
  BY DEF IsPoints
<1>2. CASE Len(s) > n
  <2>1. Len(s) - n + 1 \in 1 .. Len(s) + 1
    BY <1>1, <1>2
  <2>2. QED
    BY <1>2, <2>1 DEF LastOf
<1>3. CASE ~(Len(s) > n)
  <2>1. s = SubSeq(s, 1, Len(s)) /\ 1 \in 1 .. Len(s) + 1
    BY <1>1
  <2>2. QED
    BY <1>3, <2>1 DEF LastOf
<1>4. QED
  BY <1>2, <1>3

\* Trim drops from the head what is too old; what follows the first point
\* that is kept is no older than that point, but for a subframe.
LEMMA TrimCut ==
  ASSUME NEW s, IsPoints(s), MaxSeconds \in Nat
  PROVE  /\ \E k \in 1 .. Len(s) + 1 : Trim(s, MaxSeconds) = SubSeq(s, k, Len(s))
         /\ \A top : InOrder(s, top) => Bounded(Trim(s, MaxSeconds))
<1>1. PICK P : s \in Seq(P) /\ \A p \in P : p.at \in Int
  BY DEF IsPoints
<1>2. CASE s = <<>>
  <2>1. Trim(s, MaxSeconds) = s /\ Len(s) = 0 /\ s = SubSeq(s, 1, Len(s))
    BY <1>2 DEF Trim
  <2>2. Bounded(s)
    BY <2>1 DEF Bounded
  <2>3. 1 \in 1 .. Len(s) + 1
    BY <2>1
  <2>4. QED
    BY <2>1, <2>2, <2>3
<1>3. CASE s # <<>>
  <2> DEFINE n == Len(s)
             cutoff == s[n].at - MaxSeconds
             recent == {i \in DOMAIN s : s[i].at >= cutoff}
             k == FirstNotBefore(s, cutoff)
  <2>1. n \in Nat /\ n # 0 /\ DOMAIN s = 1 .. n /\ \A i \in 1 .. n : s[i].at \in Int
    BY <1>1, <1>3
  <2>2. n \in recent
    BY <2>1
  <2>3. \E i \in recent : \A j \in recent : i <= j
    <3>1. recent \subseteq Nat /\ recent # {}
      BY <2>1, <2>2
    <3> HIDE DEF recent
    <3>2. QED
      BY <3>1, LeastNatural
  <2>4. k \in recent
    <3>1. k = CHOOSE i \in recent : \A j \in recent : i <= j
      BY <2>2 DEF FirstNotBefore
    <3> HIDE DEF recent, k
    <3>2. QED
      BY <2>3, <3>1
  <2>5. Trim(s, MaxSeconds) = SubSeq(s, k, n)
    BY <1>3 DEF Trim
  <2>6. k \in 1 .. n /\ s[k].at >= s[n].at - MaxSeconds
    BY <2>1, <2>4
  <2> HIDE DEF k, recent
  <2>7. k \in 1 .. Len(s) + 1
    BY <2>1, <2>6
  <2> DEFINE c == SubSeq(s, k, Len(s))
  <2>8. /\ Len(c) = n - k + 1
        /\ \A i \in 1 .. n - k + 1 : c[i] = s[k - 1 + i] /\ k - 1 + i \in 1 .. n
    BY <2>7, EndCut
  <2> HIDE DEF c, n
  <2>9. ASSUME NEW top, InOrder(s, top) PROVE Bounded(c)
    <3>1. c[Len(c)] = s[n]
      <4>1. Len(c) \in 1 .. n - k + 1 /\ k - 1 + Len(c) = n
        BY <2>1, <2>6, <2>8
      <4>2. QED
        BY <2>8, <4>1
    <3>2. ASSUME NEW i \in 1 .. Len(c)
          PROVE  /\ c[i].at + MaxSeconds + SubframeTicks > s[n].at
                 /\ c[i].at < s[n].at + SubframeTicks
      <4> DEFINE m == k - 1 + i
      <4>1. c[i] = s[m] /\ m \in 1 .. n /\ k <= m
        BY <2>1, <2>6, <2>8
      <4> HIDE DEF m
      <4>2. s[k].at < s[m].at + SubframeTicks
        <5>1. CASE k = m
          BY <2>1, <2>6, <5>1 DEF SubframeTicks
        <5>2. CASE k # m
          <6>1. k < m
            BY <2>1, <2>6, <4>1, <5>2
          <6>2. QED
            BY <2>6, <2>9, <4>1, <6>1 DEF InOrder, n
        <5>3. QED
          BY <5>1, <5>2
      <4>3. s[m].at < s[n].at + SubframeTicks
        <5>1. CASE m = n
          BY <2>1, <4>1, <5>1 DEF SubframeTicks
        <5>2. CASE m # n
          <6>1. m < n /\ n \in 1 .. n
            BY <2>1, <4>1, <5>2
          <6>2. QED
            BY <2>9, <4>1, <6>1 DEF InOrder, n
        <5>3. QED
          BY <5>1, <5>2
      <4>4. s[k].at \in Int /\ s[m].at \in Int /\ s[n].at \in Int
        BY <2>1, <2>6, <4>1
      <4>5. s[m].at + MaxSeconds + SubframeTicks > s[n].at
        <5>1. \A x, y, z \in Int : y >= z - MaxSeconds /\ y < x + 2 => x + MaxSeconds + 2 > z
          OBVIOUS
        <5>2. QED
          BY <2>6, <4>2, <4>4, <5>1 DEF SubframeTicks
      <4>6. QED
        BY <4>1, <4>3, <4>5
    <3>3. QED
      BY <3>1, <3>2 DEF Bounded
  <2>10. QED
    BY <2>5, <2>7, <2>9 DEF c, n
<1>4. QED
  BY <1>2, <1>3

-----------------------------------------------------------------------------
(* The history, sample by sample *)

\* A series of the history is the end of what was heard of its parameter.
SeriesKept(series, h, id) ==
  /\ "points" \in DOMAIN series /\ IsPoints(series.points)
  /\ IF id \in DOMAIN h THEN IsPoints(h[id]) /\ EndOf(series.points, h[id])
     ELSE series.points = <<>>

Kept(store, h) ==
  /\ DOMAIN h \subseteq DOMAIN store.of
  /\ \A id \in DOMAIN store.of : SeriesKept(store.of[id], h, id)

Ordered(store, top) == \A id \in DOMAIN store.of : InOrder(store.of[id].points, top)

AllBounded(store, ids) == \A id \in DOMAIN store.of \ ids : Bounded(store.of[id].points)

\* No points: nothing to be out of order or out of bounds.
LEMMA NoPoints ==
  /\ IsPoints(<<>>)
  /\ \A s : IsPoints(s) => EndOf(<<>>, s)
  /\ \A top : InOrder(<<>>, top)
  /\ Bounded(<<>>)
<1>1. <<>> \in Seq({}) /\ Len(<<>>) = 0
  OBVIOUS
<1>2. IsPoints(<<>>)
  <2>1. PICK none : none = {}
    OBVIOUS
  <2>2. <<>> \in Seq(none) /\ \A p \in none : p.at \in Int
    BY <1>1, <2>1
  <2>3. QED
    BY <2>2, Zenon DEF IsPoints
<1>3. ASSUME NEW s, IsPoints(s) PROVE EndOf(<<>>, s)
  <2>1. Len(s) \in Nat
    BY <1>3 DEF IsPoints
  <2>2. QED
    BY <1>1, <2>1 DEF EndOf
<1>4. \A top : InOrder(<<>>, top)
  BY <1>1 DEF InOrder
<1>5. Bounded(<<>>)
  BY <1>1 DEF Bounded
<1>6. QED
  BY <1>2, <1>3, <1>4, <1>5

\* What a sample makes of its own series.
LEMMA OwnSeries ==
  ASSUME NEW store, NEW h, Kept(store, h), NEW sample, sample.at \in Int,
         NEW maxSamples \in Nat
  PROVE  LET series == Appended(store, sample, maxSamples).of[sample.id] IN
         /\ SeriesKept(series, Heard(h, sample), sample.id)
         /\ \A top \in Int : 
              /\ Ordered(store, top) /\ top - SubframeTicks <= sample.at /\ sample.at < top
              => InOrder(series.points, top)
         /\ \A ids : /\ AllBounded(store, ids)
                     /\ sample.value # NotNumeric => sample.id \in ids
                     => sample.id \in ids \/ Bounded(series.points)
<1> DEFINE id == sample.id
           known == id \in DOMAIN store.of
           old == IF known THEN store.of[id] ELSE Series(sample.unit, <<>>, sample)
           longer == Append(old.points, Point(sample))
           points == IF sample.value = NotNumeric THEN old.points
                     ELSE LastOf(longer, maxSamples)
           series == Appended(store, sample, maxSamples).of[id]
           g == Heard(h, sample)
<1>1. series = Series(old.unit, points, sample)
  <2>1. Appended(store, sample, maxSamples).of =
          [k \in DOMAIN store.of \cup {id} |->
             IF k = id THEN Series(old.unit, points, sample) ELSE store.of[k]]
    BY DEF Appended
  <2> HIDE DEF points, old
  <2>2. QED
    BY <2>1
<1>2. "points" \in DOMAIN series /\ series.points = points
  <2> HIDE DEF series, points, old
  <2>1. QED
    BY <1>1 DEF Series
<1>3. SeriesKept(old, h, id)
  <2>1. CASE known
    BY <2>1 DEF Kept
  <2>2. CASE ~known
    <3>1. "points" \in DOMAIN old /\ old.points = <<>>
      BY <2>2 DEF Series
    <3>2. id \notin DOMAIN h
      BY <2>2 DEF Kept
    <3>3. QED
      BY <3>1, <3>2, NoPoints DEF SeriesKept
  <2>3. QED
    BY <2>1, <2>2
<1>4. ASSUME NEW top, Ordered(store, top) PROVE InOrder(old.points, top)
  <2>1. CASE known
    BY <1>4, <2>1 DEF Ordered
  <2>2. CASE ~known
    <3>1. old.points = <<>>
      BY <2>2 DEF Series
    <3>2. QED
      BY <3>1, NoPoints
  <2>3. QED
    BY <2>1, <2>2
<1>5. ASSUME NEW ids, AllBounded(store, ids), id \notin ids PROVE Bounded(old.points)
  <2>1. CASE known
    BY <1>5, <2>1 DEF AllBounded
  <2>2. CASE ~known
    <3>1. old.points = <<>>
      BY <2>2 DEF Series
    <3>2. QED
      BY <3>1, NoPoints
  <2>3. QED
    BY <2>1, <2>2
<1> HIDE DEF series, old
<1>6. CASE sample.value = NotNumeric
  <2>1. points = old.points /\ g = h
    BY <1>6 DEF Heard
  <2>2. SeriesKept(series, g, id)
    BY <1>2, <1>3, <2>1 DEF SeriesKept
  <2> HIDE DEF points, g
  <2>3. QED
    BY <1>2, <1>4, <1>5, <2>1, <2>2 DEF series, g
<1>7. CASE sample.value # NotNumeric
  <2> DEFINE p == Point(sample)
  <2>1. p.at = sample.at
    BY DEF Point
  <2>2. IsPoints(old.points) /\ IsPoints(longer)
    BY <1>3, <2>1, PointsAppended DEF SeriesKept
  <2>3. g[id] = (IF id \in DOMAIN h THEN Append(h[id], p) ELSE <<p>>) /\ id \in DOMAIN g
    BY <1>7 DEF Heard
  <2>4. points = LastOf(longer, maxSamples)
    BY <1>7
  <2> HIDE DEF p, g, points
  <2>5. IsPoints(g[id]) /\ EndOf(longer, g[id])
    <3>1. CASE id \in DOMAIN h
      <4>1. IsPoints(h[id]) /\ EndOf(old.points, h[id])
        BY <1>3, <3>1 DEF SeriesKept
      <4>2. QED
        BY <2>1, <2>2, <2>3, <3>1, <4>1, PointsAppended, EndAppended DEF p
    <3>2. CASE id \notin DOMAIN h
      <4>1. old.points = <<>>
        BY <1>3, <3>2 DEF SeriesKept
      <4>2. longer = <<p>> /\ g[id] = <<p>>
        BY <2>3, <3>2, <4>1 DEF p
      <4>3. Len(<<p>>) = 1
        OBVIOUS
      <4>4. EndOf(<<p>>, <<p>>)
        BY <4>3 DEF EndOf
      <4> HIDE DEF longer
      <4>5. QED
        BY <2>2, <4>2, <4>4
    <3>3. QED
      BY <3>1, <3>2
  <2>6. PICK k \in 1 .. Len(longer) + 1 : points = SubSeq(longer, k, Len(longer))
    BY <2>2, <2>4, LastOfCut
  <2>7. SeriesKept(series, g, id)
    <3> HIDE DEF longer
    <3>1. IsPoints(points) /\ EndOf(points, g[id])
      BY <2>2, <2>5, <2>6, EndCut
    <3> HIDE DEF id
    <3>2. QED
      BY <1>2, <2>3, <2>5, <3>1 DEF SeriesKept
  <2>8. ASSUME NEW top \in Int, Ordered(store, top),
               top - SubframeTicks <= sample.at, sample.at < top
        PROVE  InOrder(series.points, top)
    <3>1. InOrder(old.points, top)
      BY <1>4, <2>8
    <3>2. InOrder(longer, top)
      BY <2>1, <2>2, <2>8, <3>1, OrderAppended DEF p
    <3> HIDE DEF longer
    <3>3. InOrder(points, top)
      BY <2>2, <2>6, <3>2, OrderCut
    <3>4. QED
      BY <1>2, <3>3
  <2>9. QED
    BY <1>7, <2>7, <2>8 DEF series, g
<1>8. QED
  BY <1>6, <1>7

\* One sample: its own series grows by its end, the others stay.
LEMMA AppendedKeeps ==
  ASSUME NEW store, NEW h, Kept(store, h), NEW sample, sample.at \in Int,
         NEW maxSamples \in Nat
  PROVE  LET after == Appended(store, sample, maxSamples) IN
         /\ Kept(after, Heard(h, sample))
         /\ \A top \in Int :
              /\ Ordered(store, top) /\ top - SubframeTicks <= sample.at /\ sample.at < top
              => Ordered(after, top)
         /\ \A ids : /\ AllBounded(store, ids)
                     /\ sample.value # NotNumeric => sample.id \in ids
                     => AllBounded(after, ids)
<1> DEFINE after == Appended(store, sample, maxSamples)
           g == Heard(h, sample)
<1>1. /\ DOMAIN after.of = DOMAIN store.of \cup {sample.id}
      /\ \A id \in DOMAIN store.of : id # sample.id => after.of[id] = store.of[id]
  BY DEF Appended
<1>2. /\ DOMAIN g \subseteq DOMAIN h \cup {sample.id} /\ DOMAIN h \subseteq DOMAIN g
      /\ \A id \in DOMAIN h : id # sample.id => g[id] = h[id]
  BY DEF Heard
<1> HIDE DEF after, g
<1>3. SeriesKept(after.of[sample.id], g, sample.id)
  BY OwnSeries DEF after, g
<1>4. Kept(after, g)
  <2>1. ASSUME NEW id \in DOMAIN after.of, id # sample.id PROVE SeriesKept(after.of[id], g, id)
    <3>1. SeriesKept(store.of[id], h, id) /\ after.of[id] = store.of[id]
      BY <1>1, <2>1 DEF Kept
    <3>2. (id \in DOMAIN g <=> id \in DOMAIN h) /\ (id \in DOMAIN h => g[id] = h[id])
      BY <1>2, <2>1
    <3>3. QED
      BY <3>1, <3>2 DEF SeriesKept
  <2>2. DOMAIN g \subseteq DOMAIN after.of
    BY <1>1, <1>2 DEF Kept
  <2>3. QED
    BY <1>3, <2>1, <2>2 DEF Kept
<1>5. ASSUME NEW top \in Int, Ordered(store, top),
             top - SubframeTicks <= sample.at, sample.at < top
      PROVE  Ordered(after, top)
  <2>1. InOrder(after.of[sample.id].points, top)
    BY <1>5, OwnSeries DEF after
  <2>2. QED
    BY <1>1, <1>5, <2>1 DEF Ordered
<1>6. ASSUME NEW ids, AllBounded(store, ids), sample.value # NotNumeric => sample.id \in ids
      PROVE  AllBounded(after, ids)
  <2>1. sample.id \in ids \/ Bounded(after.of[sample.id].points)
    BY <1>6, OwnSeries DEF after
  <2>2. QED
    BY <1>1, <1>6, <2>1 DEF AllBounded
<1>7. QED
  BY <1>4, <1>5, <1>6 DEF after, g

\* The samples of a batch carry times, those of the subframe before top.
Timed(samples) ==
  /\ Len(samples) \in Nat /\ DOMAIN samples = 1 .. Len(samples)
  /\ \A n \in 1 .. Len(samples) : samples[n].at \in Int

JustBefore(samples, top) ==
  \A n \in 1 .. Len(samples) : top - SubframeTicks <= samples[n].at /\ samples[n].at < top

\* All the samples of a batch.
LEMMA FilledKeeps ==
  ASSUME NEW store, Kept(store, heard), NEW samples, Timed(samples), NEW top \in Int,
         NEW maxSamples \in Nat
  PROVE  LET after == Filled(store, samples, maxSamples) IN
         /\ Kept(after, HeardWith(samples))
         /\ Ordered(store, top) /\ AllBounded(store, {}) /\ JustBefore(samples, top)
            => Ordered(after, top) /\ AllBounded(after, Touched(samples))
<1> DEFINE before == Ordered(store, top) /\ AllBounded(store, {}) /\ JustBefore(samples, top)
<1>1. Len(samples) \in Nat /\ DOMAIN samples = 1 .. Len(samples)
  BY DEF Timed
<1>2. \E g : FillSteps(g, store, samples, maxSamples)
  BY <1>1, FilledSteps
<1>3. PICK g : /\ g[0] = store /\ Filled(store, samples, maxSamples) = g[Len(samples)]
               /\ \A n \in 1 .. Len(samples) :
                    g[n] = Appended(g[n - 1], samples[n], maxSamples)
  BY <1>2 DEF FillSteps
<1>4. PICK h : /\ h[0] = heard /\ HeardWith(samples) = h[Len(samples)]
               /\ \A n \in 1 .. Len(samples) : h[n] = Heard(h[n - 1], samples[n])
  BY <1>1, HeardSteps
<1> DEFINE Good(n) == /\ Kept(g[n], h[n])
                      /\ before => Ordered(g[n], top) /\ AllBounded(g[n], Touched(samples))
           T == {n \in Nat : n <= Len(samples) => Good(n)}
<1>5. 0 \in T
  <2>1. AllBounded(store, {}) => AllBounded(store, Touched(samples))
    BY DEF AllBounded
  <2>2. Good(0)
    BY <1>3, <1>4, <2>1
  <2> HIDE DEF Good
  <2>3. QED
    BY <2>2
<1>6. ASSUME NEW n \in Nat, n \in T PROVE n + 1 \in T
  <2> SUFFICES ASSUME n + 1 <= Len(samples) PROVE Good(n + 1)
    BY DEF T
  <2> DEFINE m == n + 1
             sample == samples[m]
  <2>1. m \in 1 .. Len(samples) /\ m - 1 = n /\ n <= Len(samples)
    BY <1>1
  <2>2. Good(n)
    <3> HIDE DEF Good
    <3>1. QED
      BY <1>6, <2>1
  <2>3. sample.at \in Int
    BY <2>1 DEF Timed
  <2>4. g[m] = Appended(g[n], sample, maxSamples) /\ h[m] = Heard(h[n], sample)
    BY <1>3, <1>4, <2>1
  <2>5. sample.value # NotNumeric => sample.id \in Touched(samples)
    BY <1>1, <2>1 DEF Touched
  <2>6. before => top - SubframeTicks <= sample.at /\ sample.at < top
    BY <2>1 DEF JustBefore
  <2> HIDE DEF m, sample, before
  <2>7. Kept(g[m], h[m])
    BY <2>2, <2>3, <2>4, AppendedKeeps
  <2>8. ASSUME before PROVE Ordered(g[m], top)
    BY <2>2, <2>3, <2>4, <2>6, <2>8, AppendedKeeps
  <2>9. ASSUME before PROVE AllBounded(g[m], Touched(samples))
    BY <2>2, <2>3, <2>4, <2>5, <2>9, AppendedKeeps
  <2>10. QED
    BY <2>7, <2>8, <2>9 DEF m
<1> HIDE DEF T
<1>7. Nat \subseteq T
  BY <1>5, <1>6, SetInduction
<1>8. Len(samples) <= Len(samples)
  BY <1>1
<1>9. Good(Len(samples))
  <2> HIDE DEF Good
  <2>1. QED
    BY <1>1, <1>7, <1>8 DEF T
<1>10. QED
  BY <1>3, <1>4, <1>9

\* The whole of append(): every series is the end of what was heard, and
\* those it has added to are cut to max_seconds.
LEMMA BatchKeeps ==
  ASSUME NEW store, Kept(store, heard), NEW samples, Timed(samples), NEW top \in Int,
         NEW maxSamples \in Nat, MaxSeconds \in Nat
  PROVE  LET after == Batch(store, samples, maxSamples, MaxSeconds) IN
         /\ Kept(after, HeardWith(samples))
         /\ Ordered(store, top) /\ AllBounded(store, {}) /\ JustBefore(samples, top)
            => Ordered(after, top) /\ AllBounded(after, {})
<1> DEFINE filled == Filled(store, samples, maxSamples)
           after == Batch(store, samples, maxSamples, MaxSeconds)
           h == HeardWith(samples)
           before == Ordered(store, top) /\ AllBounded(store, {}) /\ JustBefore(samples, top)
<1>1. /\ Kept(filled, h)
      /\ before => Ordered(filled, top) /\ AllBounded(filled, Touched(samples))
  BY FilledKeeps
<1>2. after.of = [k \in DOMAIN filled.of |->
                    IF k \in Touched(samples)
                    THEN [filled.of[k] EXCEPT !.points = Trim(@, MaxSeconds)]
                    ELSE filled.of[k]]
  BY DEF Batch
<1> HIDE DEF filled, after, h, before
<1>3. DOMAIN after.of = DOMAIN filled.of
  BY <1>2
<1>4. ASSUME NEW id \in DOMAIN after.of
      PROVE  /\ SeriesKept(after.of[id], h, id)
             /\ before => /\ InOrder(after.of[id].points, top)
                          /\ Bounded(after.of[id].points)
  <2> DEFINE s == filled.of[id].points
             t == after.of[id]
  <2>1. /\ SeriesKept(filled.of[id], h, id) /\ IsPoints(s)
        /\ "points" \in DOMAIN filled.of[id]
        /\ before => InOrder(s, top)
        /\ before /\ id \notin Touched(samples) => Bounded(s)
    BY <1>1, <1>3 DEF Kept, SeriesKept, Ordered, AllBounded
  <2>2. CASE id \notin Touched(samples)
    <3>1. t = filled.of[id]
      BY <1>2, <1>3, <2>2
    <3>2. QED
      BY <2>1, <2>2, <3>1
  <2>3. CASE id \in Touched(samples)
    <3>1. t = [filled.of[id] EXCEPT !.points = Trim(s, MaxSeconds)]
      BY <1>2, <1>3, <2>3
    <3>2. "points" \in DOMAIN t /\ t.points = Trim(s, MaxSeconds)
      BY <2>1, <3>1
    <3>3. PICK k \in 1 .. Len(s) + 1 : Trim(s, MaxSeconds) = SubSeq(s, k, Len(s))
      BY <2>1, TrimCut
    <3> HIDE DEF s, t
    <3>4. before => Bounded(t.points)
      BY <2>1, <3>2, TrimCut
    <3>5. before => InOrder(t.points, top)
      BY <2>1, <3>2, <3>3, OrderCut
    <3>6. IsPoints(t.points)
      BY <2>1, <3>2, <3>3, EndCut
    <3>7. IF id \in DOMAIN h THEN IsPoints(h[id]) /\ EndOf(t.points, h[id])
          ELSE t.points = <<>>
      <4>1. CASE id \in DOMAIN h
        <5>1. IsPoints(h[id]) /\ EndOf(s, h[id])
          BY <2>1, <4>1 DEF SeriesKept, s
        <5>2. QED
          BY <2>1, <3>2, <3>3, <4>1, <5>1, EndCut
      <4>2. CASE id \notin DOMAIN h
        <5>1. s = <<>>
          BY <2>1, <4>2 DEF SeriesKept, s
        <5>2. QED
          BY <3>2, <4>2, <5>1 DEF Trim
      <4>3. QED
        BY <4>1, <4>2
    <3>8. SeriesKept(t, h, id)
      BY <3>2, <3>6, <3>7 DEF SeriesKept
    <3>9. QED
      BY <3>4, <3>5, <3>8 DEF t
  <2>4. QED
    BY <2>2, <2>3
<1>5. Kept(after, h)
  BY <1>1, <1>3, <1>4 DEF Kept
<1>6. before => Ordered(after, top) /\ AllBounded(after, {})
  BY <1>4 DEF Ordered, AllBounded
<1>7. QED
  BY <1>5, <1>6 DEF after, h, before

\* The samples of a subframe: each of a value of the dataframe.
LEMMA SamplesAre ==
  ASSUME dataframe \in Dataframes, NEW sf \in Subframes, NEW words, NEW top
  PROVE  LET samples == SamplesOf(DecodeSubframe(words, dataframe, sf), top) IN
         /\ Len(samples) \in Nat /\ DOMAIN samples = 1 .. Len(samples)
         /\ \A n \in 1 .. Len(samples) :
              \E v : OfDataframe(v, dataframe) /\ samples[n] = Sample(v, top)
<1> DEFINE values == DecodeSubframe(words, dataframe, sf)
           ordered == Sorted(dataframe, values)
           samples == SamplesOf(values, top)
<1>1. ValuesOf(dataframe, values)
  <2>1. Merged({}, values) = values
    BY DEF Merged
  <2> HIDE DEF values
  <2>2. ValuesOf(dataframe, Merged({}, values))
    BY NoValues, MergedFacts DEF values
  <2>3. QED
    BY <2>1, <2>2
<1> HIDE DEF values
<1>2. Cardinality(values) \in Nat
  BY <1>1, FS_CardinalityType DEF ValuesOf
<1>3. DOMAIN ordered = 1 .. Cardinality(values)
  BY DEF Sorted
<1>4. \A i \in DOMAIN ordered : ordered[i] \in values
  BY <1>1, RowsAreValues DEF ValuesOf
<1> HIDE DEF ordered
<1>5. samples = [i \in DOMAIN ordered |-> Sample(ordered[i], top)]
  BY DEF SamplesOf, ordered
<1> HIDE DEF samples
<1>6. DOMAIN samples = 1 .. Cardinality(values)
  BY <1>3, <1>5
<1>7. Len(samples) = Cardinality(values)
  BY <1>2, <1>3, <1>5
<1>8. ASSUME NEW n \in 1 .. Len(samples)
      PROVE  OfDataframe(ordered[n], dataframe) /\ samples[n] = Sample(ordered[n], top)
  <2>1. n \in DOMAIN ordered
    BY <1>3, <1>7
  <2>2. QED
    BY <1>1, <1>4, <1>5, <2>1 DEF ValuesOf
<1>9. QED
  BY <1>2, <1>6, <1>7, <1>8 DEF samples, values

\* The samples of a subframe are recorded within it: it ends at top.
LEMMA SampleTimes ==
  ASSUME dataframe \in Dataframes, NEW sf \in Subframes, NEW words, NEW top \in Int
  PROVE  LET samples == SamplesOf(DecodeSubframe(words, dataframe, sf), top)
         IN  Timed(samples) /\ JustBefore(samples, top)
<1> DEFINE samples == SamplesOf(DecodeSubframe(words, dataframe, sf), top)
<1>1. /\ Len(samples) \in Nat /\ DOMAIN samples = 1 .. Len(samples)
      /\ \A n \in 1 .. Len(samples) :
           \E v : OfDataframe(v, dataframe) /\ samples[n] = Sample(v, top)
  BY SamplesAre
<1> HIDE DEF samples
<1>2. ASSUME NEW v, OfDataframe(v, dataframe) PROVE v.offset \in 0 .. SubframeTicks - 1
  <2>1. PICK p \in Parameters(dataframe) :
          \/ v = ErrorValue(p)
          \/ \E o \in DOMAIN p.occurrences :
               v = Value(p, o, v.subframe, [s \in Subframes |-> v.word])
    BY <1>2 DEF OfDataframe
  <2>2. CASE v = ErrorValue(p)
    BY <2>2 DEF ErrorValue, SubframeTicks
  <2>3. ASSUME NEW o \in DOMAIN p.occurrences,
               v = Value(p, o, v.subframe, [s \in Subframes |-> v.word])
        PROVE  v.offset \in 0 .. SubframeTicks - 1
    <3>1. v.offset = p.occurrences[o].offset
      BY <2>3 DEF Value
    <3>2. p.occurrences[o].offset \in 0 .. SubframeTicks - 1
      BY DataframesAssumption
    <3>3. QED
      BY <3>1, <3>2
  <2>4. QED
    BY <2>1, <2>2, <2>3
<1>3. ASSUME NEW n \in 1 .. Len(samples)
      PROVE  /\ samples[n].at \in Int
             /\ top - SubframeTicks <= samples[n].at /\ samples[n].at < top
  <2>1. PICK v : OfDataframe(v, dataframe) /\ samples[n] = Sample(v, top)
    BY <1>1
  <2> DEFINE offset == v.offset
  <2>2. samples[n].at = top - SubframeTicks + offset
    BY <2>1 DEF Sample, SampleTime
  <2>3. offset \in 0 .. SubframeTicks - 1
    BY <1>2, <2>1
  <2> HIDE DEF offset
  <2>4. QED
    BY <2>2, <2>3 DEF SubframeTicks
<1>4. QED
  BY <1>1, <1>3 DEF Timed, JustBefore, samples

-----------------------------------------------------------------------------
(* The history of the program *)

\* Every point lies before the end of the last subframe; the first subframe
\* of a stream may add to points that end with it.
Top == IF stream.slots = Pending THEN stream.t + 1 ELSE stream.t

\* The inductive invariant of the history, on top of IInv and TableInv.
HistoryInv ==
  /\ stream.t \in Int /\ now \in Int
  /\ Kept(history, heard)
  /\ "backward" \in DOMAIN past
  /\ ~past.backward => Ordered(history, Top) /\ AllBounded(history, {})

\* What the invariant is for: no gaps, and the bound on the age.
LEMMA KeptHasNoGap == HistoryInv => NoGapInHistory
<1> SUFFICES ASSUME HistoryInv, NEW id \in DOMAIN history.of
             PROVE  IF id \in DOMAIN heard THEN IsSuffix(history.of[id].points, heard[id])
                    ELSE history.of[id].points = <<>>
  BY DEF NoGapInHistory
<1>1. SeriesKept(history.of[id], heard, id)
  BY DEF HistoryInv, Kept
<1>2. QED
  BY <1>1, EndIsSuffix DEF SeriesKept

\* The bounds of each series follow from the invariant.
LEMMA BoundedHistory == HistoryInv => HistoryBounded
<1> SUFFICES ASSUME HistoryInv, ~past.backward, NEW id \in DOMAIN history.of,
                    NEW i \in DOMAIN history.of[id].points
             PROVE  LET points == history.of[id].points IN
                    /\ points[i].at + MaxSeconds + SubframeTicks > points[Len(points)].at
                    /\ points[i].at < points[Len(points)].at + SubframeTicks
  BY DEF HistoryBounded
<1>1. Bounded(history.of[id].points)
  BY DEF HistoryInv, AllBounded
<1>2. IsPoints(history.of[id].points)
  BY DEF HistoryInv, Kept, SeriesKept
<1>3. i \in 1 .. Len(history.of[id].points)
  BY <1>2 DEF IsPoints
<1>4. QED
  BY <1>1, <1>3 DEF Bounded

\* Whether time went back, after the changes an action makes to the history
\* bits.
LEMMA BackwardBit ==
  ASSUME NEW p, "backward" \in DOMAIN p
  PROVE  /\ "backward" \in DOMAIN Changed(p) /\ Changed(p).backward = p.backward
         /\ "backward" \in DOMAIN Stale(p) /\ Stale(p).backward = p.backward
         /\ \A b : /\ "backward" \in DOMAIN [p EXCEPT !.mixed = b]
                   /\ [p EXCEPT !.mixed = b].backward = p.backward
         /\ \A b : /\ "backward" \in DOMAIN [p EXCEPT !.decoded = b]
                   /\ [p EXCEPT !.decoded = b].backward = p.backward
         /\ \A b : /\ "backward" \in DOMAIN [p EXCEPT !.backward = b]
                   /\ [p EXCEPT !.backward = b].backward = b
<1>1. "backward" \in DOMAIN Changed(p) /\ Changed(p).backward = p.backward
  BY DEF Changed
<1>2. \A b : /\ "backward" \in DOMAIN [p EXCEPT !.decoded = b]
             /\ [p EXCEPT !.decoded = b].backward = p.backward
  OBVIOUS
<1>3. "backward" \in DOMAIN Stale(p) /\ Stale(p).backward = p.backward
  <2>1. PICK no : no = FALSE
    OBVIOUS
  <2>2. Stale(p) = [p EXCEPT !.decoded = no]
    BY <2>1, Zenon DEF Stale
  <2>3. QED
    BY <1>2, <2>2
<1>4. \A b : /\ "backward" \in DOMAIN [p EXCEPT !.mixed = b]
             /\ [p EXCEPT !.mixed = b].backward = p.backward
  OBVIOUS
<1>5. \A b : /\ "backward" \in DOMAIN [p EXCEPT !.backward = b]
             /\ [p EXCEPT !.backward = b].backward = b
  OBVIOUS
<1>6. QED
  BY <1>1, <1>2, <1>3, <1>4, <1>5

\* No history: nothing in it to be wrong.
LEMMA NoHistory ==
  /\ Kept(EmptyStore, <<>>)
  /\ \A top : Ordered(EmptyStore, top)
  /\ AllBounded(EmptyStore, {})
<1>1. EmptyStore.of = <<>> /\ DOMAIN <<>> = {}
  BY DEF EmptyStore
<1> HIDE DEF EmptyStore
<1>2. QED
  BY <1>1 DEF Kept, Ordered, AllBounded

\* What the invariant reads does not change.
LEMMA HistoryUnmoved ==
  ASSUME HistoryInv, UNCHANGED <<history, heard, now>>,
         stream'.t = stream.t, stream'.slots = stream.slots,
         "backward" \in DOMAIN past', past'.backward = past.backward
  PROVE  HistoryInv'
<1>1. ASSUME ~past'.backward PROVE Ordered(history', Top') /\ AllBounded(history', {})
  <2>1. ~past.backward
    BY <1>1
  <2>2. Top' = Top
    BY DEF Top
  <2>3. QED
    BY <2>1, <2>2 DEF HistoryInv
<1>2. stream'.t \in Int /\ now' \in Int /\ Kept(history', heard')
  BY DEF HistoryInv
<1>3. QED
  BY <1>1, <1>2 DEF HistoryInv, Ordered, AllBounded, Kept

\* The program starts with an empty history.
LEMMA InitHistory == Init => HistoryInv
<1> SUFFICES ASSUME Init PROVE HistoryInv
  OBVIOUS
<1>1. stream.t = 0 /\ now = 0 /\ history = EmptyStore /\ heard = <<>>
  BY DEF Init, Started
<1>2. "backward" \in DOMAIN past
  <2>1. PICK no : no = FALSE
    OBVIOUS
  <2>2. past = [decoded |-> no, backward |-> no, mixed |-> no, changes |-> MaxChanges]
    BY <2>1, Zenon DEF Init
  <2>3. QED
    BY <2>2
<1>3. QED
  BY <1>1, <1>2, NoHistory DEF HistoryInv

\* A stream starts where no series ends later, or time has gone back.
LEMMA StartHistory ==
  ASSUME HistoryInv, NEW start \in {0, now}, StartStream(start) PROVE HistoryInv'
<1>1. /\ \E wps, words : stream' = Started(start, wps, words)
      /\ UNCHANGED <<history, heard, now>>
      /\ past' = [Changed(past) EXCEPT !.backward = @ \/ EndsAfter(start + SubframeTicks)]
  BY DEF StartStream
<1>2. stream'.t = start /\ stream'.slots = Pending /\ start \in Int
  BY <1>1 DEF Started, HistoryInv
<1>3. PICK b : b = (past.backward \/ EndsAfter(start + SubframeTicks))
  OBVIOUS
<1>4. "backward" \in DOMAIN past' /\ past'.backward = b
  <2>1. "backward" \in DOMAIN Changed(past) /\ Changed(past).backward = past.backward
    BY BackwardBit DEF HistoryInv
  <2>2. past' = [Changed(past) EXCEPT !.backward = b]
    BY <1>1, <1>3, <2>1, Zenon
  <2>3. QED
    BY <2>1, <2>2, BackwardBit
<1>5. ASSUME ~past'.backward PROVE Ordered(history, start + 1) /\ AllBounded(history, {})
  <2>1. ~past.backward /\ ~EndsAfter(start + SubframeTicks)
    BY <1>3, <1>4, <1>5, Zenon
  <2>2. Ordered(history, Top) /\ AllBounded(history, {})
    BY <2>1 DEF HistoryInv
  <2>3. ASSUME NEW id \in DOMAIN history.of PROVE InOrder(history.of[id].points, start + 1)
    <3> DEFINE s == history.of[id].points
    <3>1. IsPoints(s) /\ InOrder(s, Top)
      BY <2>2 DEF HistoryInv, Kept, SeriesKept, Ordered
    <3>2. ASSUME NEW i \in 1 .. Len(s) PROVE s[i].at < start + 1
      <4>1. i \in DOMAIN s /\ s[i].at \in Int
        BY <3>1 DEF IsPoints
      <4>2. ASSUME s[i].at > (start + SubframeTicks) - SubframeTicks PROVE FALSE
        <5>1. EndsAfter(start + SubframeTicks)
          BY <4>1, <4>2, Zenon DEF EndsAfter
        <5>2. QED
          BY <2>1, <5>1
      <4> HIDE DEF s
      <4>3. QED
        BY <1>2, <4>1, <4>2 DEF SubframeTicks
    <3> HIDE DEF s
    <3>3. InOrder(s, start + 1)
      BY <3>1, <3>2 DEF InOrder
    <3>4. QED
      BY <3>3 DEF s
  <2>4. QED
    BY <2>2, <2>3 DEF Ordered
<1>6. Top' = start + 1
  BY <1>2 DEF Top
<1>7. stream'.t \in Int /\ now' \in Int /\ Kept(history', heard')
  BY <1>1, <1>2 DEF HistoryInv
<1>8. ASSUME ~past'.backward PROVE Ordered(history', Top') /\ AllBounded(history', {})
  BY <1>1, <1>5, <1>6, <1>8
<1>9. QED
  BY <1>4, <1>7, <1>8 DEF HistoryInv, Ordered, AllBounded, Kept

\* A subframe that ends at top is delivered, no earlier than those before.
LEMMA DeliverHistory ==
  ASSUME HistoryInv, dataframe \in Dataframes, NEW sf \in Subframes, NEW state, NEW words,
         NEW slots, NEW top \in Int, Deliver(sf, state, words, slots, top),
         Top <= top, slots # Pending, stream'.t = top, stream'.slots = slots, now' \in Int
  PROVE  HistoryInv'
<1> DEFINE values == DecodeSubframe(words, dataframe, sf)
           samples == SamplesOf(values, top)
<1>1. "backward" \in DOMAIN past' /\ past'.backward = past.backward
  <2>1. PICK a : a = (past.decoded \/ Decodes(state, stream.wps))
    OBVIOUS
  <2>2. CASE stream.state = "stopping"
    <3>1. past' = Stale(past)
      BY <2>2 DEF Deliver
    <3>2. QED
      BY <3>1, BackwardBit DEF HistoryInv
  <2>3. CASE stream.state # "stopping"
    <3>1. past' = [past EXCEPT !.decoded = @ \/ Decodes(state, stream.wps)]
      BY <2>3 DEF Deliver
    <3>2. past' = [past EXCEPT !.decoded = a]
      BY <2>1, <3>1, Zenon
    <3>3. QED
      BY <3>2, BackwardBit DEF HistoryInv
  <2>4. QED
    BY <2>2, <2>3
<1>2. ASSUME ~past.backward PROVE Ordered(history, top) /\ AllBounded(history, {})
  <2>1. Ordered(history, Top) /\ AllBounded(history, {})
    BY <1>2 DEF HistoryInv
  <2>2. Top \in Int
    BY DEF HistoryInv, Top
  <2>3. ASSUME NEW id \in DOMAIN history.of PROVE InOrder(history.of[id].points, top)
    <3>1. IsPoints(history.of[id].points)
      BY DEF HistoryInv, Kept, SeriesKept
    <3>2. QED
      BY <2>1, <2>2, <3>1, OrderWeakened DEF Ordered
  <2>4. QED
    BY <2>1, <2>3 DEF Ordered
<1>3. /\ Kept(history', heard')
      /\ ~past.backward => Ordered(history', top) /\ AllBounded(history', {})
  <2>1. CASE ~Decodes(state, stream.wps)
    <3>1. history' = history /\ heard' = heard
      BY <2>1 DEF Deliver, NotDecoded
    <3>2. QED
      BY <1>2, <3>1 DEF HistoryInv
  <2>2. CASE Decodes(state, stream.wps)
    <3>1. /\ history' = Batch(history, samples, MaxSamples, MaxSeconds)
          /\ heard' = HeardWith(samples)
      BY <2>2 DEF Deliver, Decoded
    <3>2. Timed(samples) /\ JustBefore(samples, top)
      BY SampleTimes
    <3>3. MaxSamples \in Nat /\ MaxSeconds \in Nat
      BY LiveAssumption
    <3>4. Kept(history, heard)
      BY DEF HistoryInv
    <3> HIDE DEF samples
    <3>5. Kept(history', heard')
      BY <3>1, <3>2, <3>3, <3>4, BatchKeeps
    <3>6. ASSUME ~past.backward PROVE Ordered(history', top) /\ AllBounded(history', {})
      BY <1>2, <3>1, <3>2, <3>3, <3>4, <3>6, BatchKeeps
    <3>7. QED
      BY <3>5, <3>6
  <2>3. QED
    BY <2>1, <2>2
<1>4. Top' = top
  BY DEF Top
<1>5. ASSUME ~past'.backward PROVE Ordered(history', Top') /\ AllBounded(history', {})
  <2>1. ~past.backward
    BY <1>1, <1>5
  <2>2. QED
    BY <1>3, <1>4, <2>1
<1>6. stream'.t \in Int
  OBVIOUS
<1>7. QED
  BY <1>1, <1>3, <1>5, <1>6 DEF HistoryInv, Ordered, AllBounded, Kept

\* A subframe ends SubframeTicks after the one before it.
LEMMA ArrivalHistory ==
  ASSUME IInv, TableInv, HistoryInv, NEW state \in {"RECEIVED", "INVALID", "MISSING"},
         Arrival(state)
  PROVE  HistoryInv'
<1> DEFINE sf == stream.next
           begun == IF sf = FirstSubframe THEN Pending ELSE stream.slots
           slots == [begun EXCEPT ![sf] = state]
           words == IF state = "MISSING" THEN stream.words
                    ELSE [stream.words EXCEPT ![sf] = now + SubframeTicks]
           end == stream.t + SubframeTicks
           after == IF stream.state = "stopping" THEN "off" ELSE stream.state
<1>1. sf \in Subframes /\ DOMAIN stream.slots = Subframes /\ dataframe \in Dataframes
  BY DEF IInv, SlotsKept, TableInv, StreamShown, LatestDecoded
<1>2. slots[sf] = state
  BY <1>1 DEF Pending
<1>3. slots # Pending
  <2>1. Pending[sf] = "PENDING"
    BY <1>1 DEF Pending
  <2> HIDE DEF slots
  <2>2. QED
    BY <1>2, <2>1
<1>4. Deliver(sf, state, words, slots, end) /\ now' = now + SubframeTicks
  BY DEF Arrival
<1>5. stream' = [stream EXCEPT !.t = end, !.next = Next1(sf), !.words = words,
                               !.slots = slots, !.state = after]
  BY DEF Arrival
<1>6. Top <= end /\ end \in Int
  BY DEF HistoryInv, Top, SubframeTicks
<1>7. now' \in Int
  BY <1>4 DEF HistoryInv, SubframeTicks
<1> HIDE DEF slots, words, end, after, sf
<1>8. stream' = [state |-> after, t |-> end, wps |-> stream.wps, next |-> Next1(sf),
                 words |-> words, slots |-> slots]
  BY <1>5 DEF IInv, IsStream
<1>9. stream'.t = end /\ stream'.slots = slots
  BY <1>8
<1>10. QED
  BY <1>1, <1>3, <1>4, <1>6, <1>7, <1>9, DeliverHistory

\* A late subframe ends with the last one, not before it.
LEMMA LateArrivalHistory ==
  ASSUME IInv, TableInv, HistoryInv, NEW sf \in Subframes, LateArrival(sf)
  PROVE  HistoryInv'
<1> DEFINE slots == [stream.slots EXCEPT ![sf] = "LATE"]
           words == [stream.words EXCEPT ![sf] = now + 1]
<1>1. DOMAIN stream.slots = Subframes /\ dataframe \in Dataframes
  BY DEF IInv, SlotsKept, TableInv, LatestDecoded
<1>2. slots[sf] = "LATE" /\ Pending[sf] = "PENDING" /\ stream.slots[sf] = "MISSING"
  BY <1>1 DEF Pending, LateArrival
<1>3. Deliver(sf, "LATE", words, slots, stream.t) /\ now' = now
  BY DEF LateArrival
<1>4. stream' = [stream EXCEPT !.words = words, !.slots = slots]
  BY DEF LateArrival
<1> HIDE DEF slots, words
<1>5. stream' = [state |-> stream.state, t |-> stream.t, wps |-> stream.wps,
                 next |-> stream.next, words |-> words, slots |-> slots]
  BY <1>4 DEF IInv, IsStream
<1>6. stream'.t = stream.t /\ stream'.slots = slots
  BY <1>5
<1>7. slots # Pending /\ stream.slots # Pending
  BY <1>2
<1>8. Top <= stream.t /\ stream.t \in Int /\ now' \in Int
  BY <1>3, <1>7 DEF HistoryInv, Top
<1>9. QED
  BY <1>1, <1>3, <1>6, <1>7, <1>8, DeliverHistory

\* Every step preserves the invariant of the history.
LEMMA StepKeepsHistory == IInv /\ TableInv /\ HistoryInv /\ [Next]_vars => HistoryInv'
<1> SUFFICES ASSUME IInv, TableInv, HistoryInv, [Next]_vars PROVE HistoryInv'
  OBVIOUS
<1>1. "backward" \in DOMAIN past
  BY DEF HistoryInv
<1>2. ASSUME past' = past \/ past' = Changed(past) \/ past' = Stale(past)
             \/ past' = Stale(Changed(past))
      PROVE  "backward" \in DOMAIN past' /\ past'.backward = past.backward
  <2>1. "backward" \in DOMAIN Changed(past) /\ Changed(past).backward = past.backward
    BY <1>1, BackwardBit
  <2>2. QED
    BY <1>1, <1>2, <2>1, BackwardBit
<1>3. ASSUME NEW d \in Dataframes, SetDataframe(d) PROVE HistoryInv'
  <2>1. /\ UNCHANGED <<stream, history, now, heard>>
        /\ past' = [Stale(Changed(past)) EXCEPT !.mixed = @ \/ MixesUnits(d)]
    BY <1>3 DEF SetDataframe
  <2>2. PICK b : past' = [Stale(Changed(past)) EXCEPT !.mixed = b]
    BY <2>1
  <2>3. "backward" \in DOMAIN past' /\ past'.backward = past.backward
    <3>1. "backward" \in DOMAIN Changed(past) /\ Changed(past).backward = past.backward
      BY <1>1, BackwardBit
    <3>2. /\ "backward" \in DOMAIN Stale(Changed(past))
          /\ Stale(Changed(past)).backward = past.backward
      BY <3>1, BackwardBit
    <3>3. QED
      BY <2>2, <3>2, BackwardBit
  <2>4. QED
    BY <2>1, <2>3, HistoryUnmoved
<1>4. ASSUME NewFrame \/ \E sf \in Subframes : SetWord(sf) PROVE HistoryInv'
  <2>1. UNCHANGED <<stream, history, now, heard>> /\ past' = Stale(Changed(past))
    BY <1>4 DEF NewFrame, SetWord
  <2>2. QED
    BY <1>2, <2>1, HistoryUnmoved
<1>5. ASSUME NEW start \in {0, now}, StartStream(start) PROVE HistoryInv'
  BY <1>5, StartHistory
<1>6. ASSUME StopStream PROVE HistoryInv'
  <2>1. PICK state : stream' = [stream EXCEPT !.state = state]
    BY <1>6 DEF StopStream
  <2>2. stream' = [state |-> state, t |-> stream.t, wps |-> stream.wps, next |-> stream.next,
                   words |-> stream.words, slots |-> stream.slots]
    BY <2>1 DEF IInv, IsStream
  <2>3. stream'.t = stream.t /\ stream'.slots = stream.slots
    BY <2>2
  <2>4. UNCHANGED <<history, now, heard>> /\ (past' = past \/ past' = Stale(past))
    BY <1>6 DEF StopStream
  <2>5. QED
    BY <1>2, <2>3, <2>4, HistoryUnmoved
<1>7. ASSUME NEW state \in {"RECEIVED", "INVALID", "MISSING"}, Arrival(state) PROVE HistoryInv'
  BY <1>7, ArrivalHistory
<1>8. ASSUME NEW sf \in Subframes, LateArrival(sf) PROVE HistoryInv'
  BY <1>8, LateArrivalHistory
<1>9. ASSUME NEW key, SelectSample(key) PROVE HistoryInv'
  BY <1>2, <1>9, HistoryUnmoved DEF SelectSample
<1>10. ASSUME NEW id, SelectParameter(id) \/ CheckOverlay(id) PROVE HistoryInv'
  BY <1>2, <1>10, HistoryUnmoved DEF SelectParameter, CheckOverlay, AtGraph
<1>11. CASE Pause \/ Resume \/ Refresh
  BY <1>2, <1>11, HistoryUnmoved DEF Pause, Resume, Refresh, AtGraph
<1>12. CASE ClearHistory
  <2>1. /\ UNCHANGED <<stream, now>> /\ history' = EmptyStore /\ heard' = <<>>
        /\ past' = [Changed(past) EXCEPT !.backward = FALSE, !.mixed = FALSE]
    BY <1>12 DEF ClearHistory
  <2>2. PICK no : no = FALSE
    OBVIOUS
  <2>3. past' = [Changed(past) EXCEPT !.backward = no, !.mixed = no]
    BY <2>1, <2>2, Zenon
  <2>4. "backward" \in DOMAIN past'
    BY <1>1, <2>3 DEF Changed
  <2>5. stream'.t \in Int /\ now' \in Int
    BY <2>1 DEF HistoryInv
  <2>6. Kept(history', heard') /\ Ordered(history', Top') /\ AllBounded(history', {})
    BY <2>1, NoHistory
  <2>7. QED
    BY <2>4, <2>5, <2>6 DEF HistoryInv, Kept, Ordered, AllBounded
<1>13. CASE UNCHANGED vars
  BY <1>2, <1>13, HistoryUnmoved DEF vars
<1>14. QED
  BY <1>3, <1>4, <1>5, <1>6, <1>7, <1>8, <1>9, <1>10, <1>11, <1>12, <1>13 DEF Next

\* A run of the program keeps the three invariants together.
LEMMA HistoryKept == Spec => []HistoryInv
<1>1. Init => IInv /\ TableInv /\ HistoryInv
  BY InitIInv, InitTable, InitHistory
<1>2. IInv /\ TableInv /\ HistoryInv /\ [Next]_vars => (IInv /\ TableInv /\ HistoryInv)'
  BY StepKeeps, StepKeepsTable, StepKeepsHistory
<1>3. QED
  BY <1>1, <1>2, PTL DEF Spec

\* Each series of the history is the unbroken end of the numbers published of
\* its parameter since the last clear, for every bound on its length and its
\* duration: append() in a batch, the two bounds and the late subframes never
\* make a gap (timeseries_store.py:84-103).
THEOREM HistoryUnbroken == Spec => []NoGapInHistory
  BY HistoryKept, KeptHasNoGap, PTL

\* Unless a stream was started whose times lie before those in the history,
\* no point of a series is older than max_seconds, or younger than its last
\* point, but for one subframe: for late subframes, for occurrences published
\* out of order, and for every pause between two streams.
THEOREM HistoryWithinBounds == Spec => []HistoryBounded
  BY HistoryKept, BoundedHistory, PTL

-----------------------------------------------------------------------------
(* The units of the points of a series *)

\* Every point of s was published in the unit u.
AllUnit(s, u) == \A i \in 1 .. Len(s) : s[i].unit = u

\* One point more in its unit.
LEMMA UnitAppended ==
  ASSUME NEW s, IsPoints(s), NEW p, p.at \in Int, NEW u, AllUnit(s, u), p.unit = u
  PROVE  AllUnit(Append(s, p), u)
<1>1. /\ Len(s) \in Nat /\ Len(Append(s, p)) = Len(s) + 1
      /\ \A i \in 1 .. Len(s) : Append(s, p)[i] = s[i]
      /\ Append(s, p)[Len(s) + 1] = p
  BY PointsAppended
<1> DEFINE t == Append(s, p)
           n == Len(s)
<1> HIDE DEF t, n
<1>2. /\ n \in Nat /\ Len(t) = n + 1 /\ \A i \in 1 .. n : t[i] = s[i] /\ s[i].unit = u
      /\ t[n + 1] = p
  BY <1>1 DEF t, n, AllUnit
<1>3. ASSUME NEW i \in 1 .. n + 1 PROVE t[i].unit = u
  <2>1. i \in 1 .. n \/ i = n + 1
    BY <1>2
  <2>2. QED
    BY <1>2, <2>1
<1>4. QED
  BY <1>2, <1>3 DEF AllUnit, t

\* The end of a series is in its unit.
LEMMA UnitCut ==
  ASSUME NEW s, IsPoints(s), NEW k \in 1 .. Len(s) + 1, NEW u, AllUnit(s, u)
  PROVE  AllUnit(SubSeq(s, k, Len(s)), u)
<1>1. /\ Len(SubSeq(s, k, Len(s))) = Len(s) - k + 1
      /\ \A i \in 1 .. Len(s) - k + 1 :
           SubSeq(s, k, Len(s))[i] = s[k - 1 + i] /\ k - 1 + i \in 1 .. Len(s)
  BY EndCut
<1>2. QED
  BY <1>1 DEF AllUnit

\* A series with a unit and points, and the store's list of its series.
Shaped(store) ==
  /\ store.keys \in Seq(DOMAIN store.of)
  /\ \A id \in DOMAIN store.of :
       /\ {"unit", "points"} \subseteq DOMAIN store.of[id]
       /\ IsPoints(store.of[id].points)

\* The points of a series are in its unit, and so are the parameters of the
\* dataframe that have a series.
UnitsAgree(d, store) ==
  /\ \A id \in DOMAIN store.of : AllUnit(store.of[id].points, store.of[id].unit)
  /\ \A p \in Parameters(d) : p.id \in DOMAIN store.of => store.of[p.id].unit = p.unit

\* No series is lost, or changes its unit.
Extends(store, after) ==
  /\ DOMAIN store.of \subseteq DOMAIN after.of
  /\ \A id \in DOMAIN store.of : after.of[id].unit = store.of[id].unit

\* A sample of a parameter of the dataframe.
SampleOf(d, sample) ==
  sample.at \in Int /\ \E p \in Parameters(d) : p.id = sample.id /\ p.unit = sample.unit

\* One sample more.
LEMMA AppendedUnits ==
  ASSUME NEW d \in Dataframes, NEW store, Shaped(store), NEW sample, SampleOf(d, sample),
         NEW maxSamples \in Nat
  PROVE  LET after == Appended(store, sample, maxSamples) IN
         /\ Shaped(after) /\ Extends(store, after)
         /\ UnitsAgree(d, store) => UnitsAgree(d, after)
<1> DEFINE id == sample.id
           after == Appended(store, sample, maxSamples)
           known == id \in DOMAIN store.of
           old == IF known THEN store.of[id] ELSE Series(sample.unit, <<>>, sample)
           longer == Append(old.points, Point(sample))
           points == IF sample.value = NotNumeric THEN old.points
                     ELSE LastOf(longer, maxSamples)
           series == Series(old.unit, points, sample)
<1>1. /\ after.of = [k \in DOMAIN store.of \cup {id} |-> IF k = id THEN series ELSE store.of[k]]
      /\ after.keys = IF known THEN store.keys ELSE Append(store.keys, id)
  BY DEF Appended
<1> HIDE DEF after, points, old
<1>2. /\ {"unit", "points"} \subseteq DOMAIN series
      /\ series.unit = old.unit /\ series.points = points
  BY DEF Series
<1>3. IsPoints(old.points) /\ (known => old = store.of[id])
  <2>1. CASE known
    BY <2>1 DEF Shaped, old
  <2>2. CASE ~known
    <3>1. old.points = <<>>
      BY <2>2 DEF old, Series
    <3>2. QED
      BY <2>2, <3>1, NoPoints
  <2>3. QED
    BY <2>1, <2>2
<1>4. Point(sample).at \in Int /\ Point(sample).unit = sample.unit
  BY DEF Point, SampleOf
<1>5. IsPoints(longer)
  BY <1>3, <1>4, PointsAppended
<1>6. /\ IsPoints(points)
      /\ \A u : AllUnit(old.points, u) /\ u = sample.unit => AllUnit(points, u)
  <2>1. CASE sample.value = NotNumeric
    BY <1>3, <2>1 DEF points
  <2>2. CASE sample.value # NotNumeric
    <3>1. points = LastOf(longer, maxSamples)
      BY <2>2 DEF points
    <3>2. ASSUME NEW u, AllUnit(old.points, u), u = sample.unit PROVE AllUnit(longer, u)
      BY <1>3, <1>4, <3>2, UnitAppended
    <3> HIDE DEF longer
    <3>3. PICK k \in 1 .. Len(longer) + 1 : points = SubSeq(longer, k, Len(longer))
      BY <1>5, <3>1, LastOfCut
    <3>4. QED
      BY <1>5, <3>2, <3>3, EndCut, UnitCut
  <2>3. QED
    BY <2>1, <2>2
<1> HIDE DEF series
<1>7. /\ DOMAIN after.of = DOMAIN store.of \cup {id} /\ after.of[id] = series
      /\ \A k \in DOMAIN store.of : k # id => after.of[k] = store.of[k]
  BY <1>1
<1>8. after.keys \in Seq(DOMAIN after.of)
  <2>1. store.keys \in Seq(DOMAIN store.of)
    BY DEF Shaped
  <2>2. \A S : store.keys \in Seq(S) => /\ store.keys \in Seq(S \cup {id})
                                       /\ Append(store.keys, id) \in Seq(S \cup {id})
    OBVIOUS
  <2>3. QED
    BY <1>1, <1>7, <2>1, <2>2
<1>9. Shaped(after)
  BY <1>2, <1>6, <1>7, <1>8 DEF Shaped
<1>10. Extends(store, after)
  BY <1>2, <1>3, <1>7 DEF Extends
<1>11. ASSUME UnitsAgree(d, store) PROVE UnitsAgree(d, after)
  <2>1. PICK p \in Parameters(d) : p.id = id /\ p.unit = sample.unit
    BY DEF SampleOf
  <2>2. old.unit = sample.unit /\ AllUnit(old.points, sample.unit)
    <3>1. CASE known
      BY <1>3, <1>11, <2>1, <3>1 DEF UnitsAgree
    <3>2. CASE ~known
      <4>1. old.points = <<>> /\ old.unit = sample.unit
        BY <3>2 DEF old, Series
      <4>2. Len(<<>>) = 0
        OBVIOUS
      <4>3. QED
        BY <4>1, <4>2 DEF AllUnit
    <3>3. QED
      BY <3>1, <3>2
  <2>3. AllUnit(series.points, series.unit) /\ series.unit = sample.unit
    BY <1>2, <1>6, <2>2
  <2>4. ASSUME NEW q \in Parameters(d), q.id = id PROVE q = p
    BY <2>1, <2>4, DataframesAssumption DEF Parameters
  <2>5. \A k \in DOMAIN after.of : AllUnit(after.of[k].points, after.of[k].unit)
    BY <1>7, <1>11, <2>3 DEF UnitsAgree
  <2>6. ASSUME NEW q \in Parameters(d), q.id \in DOMAIN after.of
        PROVE  after.of[q.id].unit = q.unit
    <3>1. CASE q.id = id
      BY <1>7, <2>1, <2>3, <2>4, <3>1
    <3>2. CASE q.id # id
      BY <1>7, <1>11, <2>6, <3>2 DEF UnitsAgree
    <3>3. QED
      BY <3>1, <3>2
  <2>7. QED
    BY <2>5, <2>6 DEF UnitsAgree
<1>12. QED
  BY <1>9, <1>10, <1>11 DEF after

\* All the samples of a batch.
LEMMA FilledUnits ==
  ASSUME NEW d \in Dataframes, NEW store, Shaped(store), NEW samples, Len(samples) \in Nat,
         \A n \in 1 .. Len(samples) : SampleOf(d, samples[n]), NEW maxSamples \in Nat
  PROVE  LET after == Filled(store, samples, maxSamples) IN
         /\ Shaped(after) /\ Extends(store, after)
         /\ UnitsAgree(d, store) => UnitsAgree(d, after)
<1>1. PICK g : FillSteps(g, store, samples, maxSamples)
  BY FilledSteps
<1>2. /\ g[0] = store /\ Filled(store, samples, maxSamples) = g[Len(samples)]
      /\ \A n \in 1 .. Len(samples) : g[n] = Appended(g[n - 1], samples[n], maxSamples)
  BY <1>1 DEF FillSteps
<1> DEFINE Good(n) == /\ Shaped(g[n]) /\ Extends(store, g[n])
                      /\ UnitsAgree(d, store) => UnitsAgree(d, g[n])
           T == {n \in Nat : n <= Len(samples) => Good(n)}
<1>3. 0 \in T
  <2>1. Extends(store, store)
    BY DEF Extends
  <2>2. Good(0)
    BY <1>2, <2>1
  <2> HIDE DEF Good
  <2>3. QED
    BY <2>2
<1>4. ASSUME NEW n \in Nat, n \in T PROVE n + 1 \in T
  <2> SUFFICES ASSUME n + 1 <= Len(samples) PROVE Good(n + 1)
    BY DEF T
  <2> DEFINE m == n + 1
             sample == samples[m]
  <2>1. m \in 1 .. Len(samples) /\ m - 1 = n /\ n <= Len(samples)
    OBVIOUS
  <2>2. Good(n)
    <3> HIDE DEF Good
    <3>1. QED
      BY <1>4, <2>1
  <2>3. SampleOf(d, sample)
    BY <2>1
  <2>4. g[m] = Appended(g[n], sample, maxSamples)
    BY <1>2, <2>1
  <2> HIDE DEF m, sample
  <2>5. /\ Shaped(g[m]) /\ Extends(g[n], g[m])
        /\ UnitsAgree(d, g[n]) => UnitsAgree(d, g[m])
    BY <2>2, <2>3, <2>4, AppendedUnits
  <2>6. Extends(store, g[m])
    BY <2>2, <2>5 DEF Extends
  <2>7. QED
    BY <2>2, <2>5, <2>6 DEF m
<1> HIDE DEF T
<1>5. Nat \subseteq T
  BY <1>3, <1>4, SetInduction
<1>6. Len(samples) <= Len(samples)
  OBVIOUS
<1>7. Good(Len(samples))
  <2> HIDE DEF Good
  <2>1. QED
    BY <1>5, <1>6 DEF T
<1>8. QED
  BY <1>2, <1>7

\* The whole of append().
LEMMA BatchUnits ==
  ASSUME NEW d \in Dataframes, NEW store, Shaped(store), NEW samples, Len(samples) \in Nat,
         \A n \in 1 .. Len(samples) : SampleOf(d, samples[n]), NEW maxSamples \in Nat,
         MaxSeconds \in Nat
  PROVE  LET after == Batch(store, samples, maxSamples, MaxSeconds) IN
         /\ Shaped(after) /\ Extends(store, after)
         /\ UnitsAgree(d, store) => UnitsAgree(d, after)
<1> DEFINE filled == Filled(store, samples, maxSamples)
           after == Batch(store, samples, maxSamples, MaxSeconds)
<1>1. /\ Shaped(filled) /\ Extends(store, filled)
      /\ UnitsAgree(d, store) => UnitsAgree(d, filled)
  BY FilledUnits
<1>2. /\ after.of = [k \in DOMAIN filled.of |->
                       IF k \in Touched(samples)
                       THEN [filled.of[k] EXCEPT !.points = Trim(@, MaxSeconds)]
                       ELSE filled.of[k]]
      /\ after.keys = filled.keys
  BY DEF Batch
<1> HIDE DEF filled, after
<1>3. DOMAIN after.of = DOMAIN filled.of
  BY <1>2
<1>4. ASSUME NEW id \in DOMAIN filled.of
      PROVE  /\ {"unit", "points"} \subseteq DOMAIN after.of[id]
             /\ IsPoints(after.of[id].points) /\ after.of[id].unit = filled.of[id].unit
             /\ \A u : AllUnit(filled.of[id].points, u) => AllUnit(after.of[id].points, u)
  <2> DEFINE r == filled.of[id]
             s == r.points
             t == after.of[id]
  <2>1. {"unit", "points"} \subseteq DOMAIN r /\ IsPoints(s)
    BY <1>1 DEF Shaped
  <2>2. CASE id \notin Touched(samples)
    <3>1. t = r
      BY <1>2, <2>2
    <3> HIDE DEF t, r
    <3>2. QED
      BY <2>1, <3>1 DEF t, r
  <2>3. CASE id \in Touched(samples)
    <3>1. t = [r EXCEPT !.points = Trim(s, MaxSeconds)]
      BY <1>2, <2>3
    <3> HIDE DEF r, t
    <3>2. /\ {"unit", "points"} \subseteq DOMAIN t /\ t.unit = r.unit
          /\ t.points = Trim(s, MaxSeconds)
      BY <2>1, <3>1
    <3> HIDE DEF s
    <3>3. PICK k \in 1 .. Len(s) + 1 : Trim(s, MaxSeconds) = SubSeq(s, k, Len(s))
      BY <2>1, TrimCut
    <3>4. IsPoints(t.points)
      BY <2>1, <3>2, <3>3, EndCut
    <3>5. \A u : AllUnit(s, u) => AllUnit(t.points, u)
      BY <2>1, <3>2, <3>3, UnitCut
    <3>6. QED
      BY <3>2, <3>4, <3>5 DEF t, r, s
  <2>4. QED
    BY <2>2, <2>3
<1>5. Shaped(after)
  BY <1>1, <1>2, <1>3, <1>4 DEF Shaped
<1>6. Extends(store, after)
  BY <1>1, <1>3, <1>4 DEF Extends
<1>7. UnitsAgree(d, filled) => UnitsAgree(d, after)
  BY <1>3, <1>4 DEF UnitsAgree
<1>8. QED
  BY <1>1, <1>5, <1>6, <1>7 DEF after

\* The samples of a subframe are of parameters of the dataframe.
LEMMA SampleUnits ==
  ASSUME dataframe \in Dataframes, NEW sf \in Subframes, NEW words, NEW top \in Int
  PROVE  LET samples == SamplesOf(DecodeSubframe(words, dataframe, sf), top) IN
         Len(samples) \in Nat /\ \A n \in 1 .. Len(samples) : SampleOf(dataframe, samples[n])
<1> DEFINE samples == SamplesOf(DecodeSubframe(words, dataframe, sf), top)
<1>1. /\ Len(samples) \in Nat
      /\ \A n \in 1 .. Len(samples) :
           \E v : OfDataframe(v, dataframe) /\ samples[n] = Sample(v, top)
  BY SamplesAre
<1>2. Timed(samples)
  BY SampleTimes
<1> HIDE DEF samples
<1>3. ASSUME NEW n \in 1 .. Len(samples) PROVE SampleOf(dataframe, samples[n])
  <2>1. PICK v : OfDataframe(v, dataframe) /\ samples[n] = Sample(v, top)
    BY <1>1
  <2>2. PICK p \in Parameters(dataframe) :
          \/ v = ErrorValue(p)
          \/ \E o \in DOMAIN p.occurrences :
               v = Value(p, o, v.subframe, [s \in Subframes |-> v.word])
    BY <2>1 DEF OfDataframe
  <2>3. v.id = p.id /\ v.unit = p.unit
    BY <2>2 DEF ErrorValue, Value
  <2>4. samples[n].id = v.id /\ samples[n].unit = v.unit
    BY <2>1 DEF Sample
  <2>5. QED
    BY <1>2, <2>3, <2>4 DEF SampleOf, Timed
<1>4. QED
  BY <1>1, <1>3 DEF samples

-----------------------------------------------------------------------------
(* The Graphs page *)

\* The shape of the page's record.
IsGraph(g) ==
  g = [selected |-> g.selected, overlays |-> g.overlays, offered |-> g.offered,
       paused |-> g.paused, frozen |-> g.frozen, dirty |-> g.dirty, shown |-> g.shown]

\* The overlays have the unit of the selected parameter, and only what can be
\* drawn is offered, selected and checked.
GraphOK(g, d, store) ==
  /\ IsGraph(g) /\ g.offered \subseteq Plottable(d, store)
  /\ g.selected = None \/ g.selected \in Plottable(d, store)
  /\ g.selected = None => g.overlays = {}
  /\ \A id \in g.overlays :
       /\ id \in Plottable(d, store)
       /\ UnitOf(d, store, id) = UnitOf(d, store, g.selected)

\* What is drawn has one unit.
OneUnit(lines) ==
  \E u : \A id \in DOMAIN lines : \A i \in DOMAIN lines[id] : lines[id][i].unit = u

\* What the invariant is for.
LEMMA OneUnitOnAxis == OneUnit(graph.shown.lines) => AxisOneUnit
<1> SUFFICES ASSUME OneUnit(graph.shown.lines) PROVE AxisOneUnit
  OBVIOUS
<1> DEFINE lines == graph.shown.lines
           units == UNION {{lines[id][i].unit : i \in DOMAIN lines[id]} : id \in DOMAIN lines}
<1>1. PICK u : \A id \in DOMAIN lines : \A i \in DOMAIN lines[id] : lines[id][i].unit = u
  BY DEF OneUnit
<1>2. units \subseteq {u}
  BY <1>1
<1> HIDE DEF units
<1>3. Cardinality(units) <= Cardinality({u}) /\ Cardinality({u}) = 1
  BY <1>2, FS_Singleton, FS_Subset
<1>4. IsFiniteSet(units)
  BY <1>2, FS_Singleton, FS_Subset
<1>5. Cardinality(units) <= 1
  BY <1>3, <1>4, FS_CardinalityType
<1>6. QED
  BY <1>5 DEF AxisOneUnit, units

\* The window that is drawn is a piece of the series, or empty.
LEMMA WindowCut ==
  ASSUME NEW s, IsPoints(s), NEW seconds, NEW end, NEW u, AllUnit(s, u)
  PROVE  \A i \in DOMAIN Window(s, seconds, end) : Window(s, seconds, end)[i].unit = u
<1> DEFINE cutoff == end - seconds
           recent == {i \in DOMAIN s : s[i].at >= cutoff}
           k == FirstNotBefore(s, cutoff)
           w == Window(s, seconds, end)
<1>1. DOMAIN s = 1 .. Len(s) /\ Len(s) \in Nat
  BY DEF IsPoints
<1>2. CASE s = <<>> \/ k = 0
  <2>1. w = <<>> /\ DOMAIN <<>> = {}
    BY <1>2 DEF Window
  <2>2. QED
    BY <2>1
<1>3. CASE ~(s = <<>> \/ k = 0)
  <2>1. w = SubSeq(s, k, Len(s))
    BY <1>3 DEF Window
  <2>2. recent # {} /\ recent \subseteq Nat
    BY <1>1, <1>3 DEF FirstNotBefore
  <2>3. k = CHOOSE i \in recent : \A j \in recent : i <= j
    BY <2>2 DEF FirstNotBefore
  <2> HIDE DEF k, recent
  <2>4. k \in recent
    BY <2>2, <2>3, LeastNatural
  <2>5. k \in 1 .. Len(s) + 1
    BY <1>1, <2>4 DEF recent
  <2>6. AllUnit(SubSeq(s, k, Len(s)), u) /\ IsPoints(SubSeq(s, k, Len(s)))
    BY <2>5, UnitCut, EndCut
  <2> HIDE DEF w
  <2>7. DOMAIN w = 1 .. Len(w)
    BY <2>1, <2>6 DEF IsPoints
  <2>8. QED
    BY <2>1, <2>6, <2>7 DEF AllUnit, w
<1>4. QED
  BY <1>2, <1>3

\* While no unit was edited over a series, the unit of a parameter is that of
\* its series.
LEMMA UnitOfSeries ==
  ASSUME NEW d, NEW store, UnitsAgree(d, store), NEW id \in DOMAIN store.of
  PROVE  UnitOf(d, store, id) = store.of[id].unit
<1> DEFINE known == {p \in Known(d) : p.id = id}
<1>1. CASE known = {}
  BY <1>1 DEF UnitOf
<1>2. CASE known # {}
  <2> DEFINE p == CHOOSE q \in known : TRUE
  <2>1. p \in known
    BY <1>2
  <2>2. UnitOf(d, store, id) = p.unit
    BY <1>2 DEF UnitOf
  <2> HIDE DEF p
  <2>3. p \in Parameters(d) /\ p.id = id
    BY <2>1 DEF Known, KnownAt, Parameters
  <2>4. QED
    BY <2>2, <2>3 DEF UnitsAgree
<1>3. QED
  BY <1>1, <1>2

\* What is drawn of such a page has one unit.
LEMMA PlotOneUnit ==
  ASSUME NEW d, NEW store, Shaped(store), UnitsAgree(d, store), NEW g, GraphOK(g, d, store)
  PROVE  OneUnit(Plot(g, store).lines)
<1>1. CASE g.selected = None
  <2>1. Plot(g, store).lines = <<>> /\ DOMAIN <<>> = {}
    BY <1>1 DEF Plot
  <2>2. QED
    BY <2>1 DEF OneUnit
<1>2. CASE g.selected # None
  <2> DEFINE u == UnitOf(d, store, g.selected)
             end == IF g.paused THEN g.frozen ELSE LatestTime(g, store)
             lines == [id \in g.overlays \cup {g.selected} |->
                         Window(PointsOf(store, id), WindowSeconds, end)]
  <2>1. Plot(g, store).lines = lines
    BY <1>2 DEF Plot
  <2> HIDE DEF end
  <2>2. ASSUME NEW id \in g.overlays \cup {g.selected}, NEW i \in DOMAIN lines[id]
        PROVE  lines[id][i].unit = u
    <3>1. UnitOf(d, store, id) = u
      BY DEF GraphOK
    <3>2. lines[id] = Window(PointsOf(store, id), WindowSeconds, end)
      OBVIOUS
    <3>3. AllUnit(PointsOf(store, id), u) /\ IsPoints(PointsOf(store, id))
      <4>1. CASE id \in DOMAIN store.of
        <5>1. PointsOf(store, id) = store.of[id].points
          BY <4>1 DEF PointsOf
        <5>2. store.of[id].unit = u
          BY <3>1, <4>1, UnitOfSeries
        <5>3. QED
          BY <4>1, <5>1, <5>2 DEF UnitsAgree, Shaped
      <4>2. CASE id \notin DOMAIN store.of
        <5>1. PointsOf(store, id) = <<>> /\ Len(<<>>) = 0
          BY <4>2 DEF PointsOf
        <5>2. QED
          BY <5>1, NoPoints DEF AllUnit
      <4>3. QED
        BY <4>1, <4>2
    <3> HIDE DEF lines, u
    <3>4. QED
      BY <3>2, <3>3, WindowCut
  <2>3. DOMAIN lines = g.overlays \cup {g.selected}
    OBVIOUS
  <2> HIDE DEF lines, u
  <2>4. \A id \in DOMAIN lines : \A i \in DOMAIN lines[id] : lines[id][i].unit = u
    BY <2>2, <2>3
  <2>5. OneUnit(lines)
    BY <2>4 DEF OneUnit
  <2>6. QED
    BY <2>1, <2>5
<1>3. QED
  BY <1>1, <1>2

\* Drawing changes only what is shown.
LEMMA DrawnIs ==
  ASSUME NEW g, IsGraph(g), NEW store
  PROVE  LET h == Drawn(g, store) IN
         /\ IsGraph(h) /\ h.selected = g.selected /\ h.overlays = g.overlays
         /\ h.offered = g.offered /\ h.shown = Plot(g, store)
<1>1. PICK no : no = FALSE
  OBVIOUS
<1> DEFINE h == Drawn(g, store)
           plot == Plot(g, store)
<1>2. h = [g EXCEPT !.dirty = no, !.shown = plot]
  BY <1>1, Zenon DEF Drawn
<1> HIDE DEF h, plot
<1>3. h = [selected |-> g.selected, overlays |-> g.overlays, offered |-> g.offered,
           paused |-> g.paused, frozen |-> g.frozen, dirty |-> no, shown |-> plot]
  BY <1>2 DEF IsGraph
<1>4. QED
  BY <1>3 DEF IsGraph, h, plot

\* A page in order is so when drawn.
LEMMA DrawnOK ==
  ASSUME NEW d, NEW store, NEW g, GraphOK(g, d, store)
  PROVE  GraphOK(Drawn(g, store), d, store)
<1>1. IsGraph(g)
  BY DEF GraphOK
<1>2. /\ IsGraph(Drawn(g, store)) /\ Drawn(g, store).selected = g.selected
      /\ Drawn(g, store).overlays = g.overlays /\ Drawn(g, store).offered = g.offered
  BY <1>1, DrawnIs
<1>3. QED
  BY <1>2 DEF GraphOK

\* Marking as dirty changes nothing else.
LEMMA DirtyIs ==
  ASSUME NEW g, IsGraph(g), NEW b
  PROVE  LET h == [g EXCEPT !.dirty = b] IN
         /\ IsGraph(h) /\ h.selected = g.selected /\ h.overlays = g.overlays
         /\ h.offered = g.offered /\ h.shown = g.shown
<1> DEFINE h == [g EXCEPT !.dirty = b]
<1>1. h = [selected |-> g.selected, overlays |-> g.overlays, offered |-> g.offered,
           paused |-> g.paused, frozen |-> g.frozen, dirty |-> b, shown |-> g.shown]
  BY DEF IsGraph
<1> HIDE DEF h
<1>2. QED
  BY <1>1 DEF IsGraph, h

\* A page in order is so when marked.
LEMMA DirtyOK ==
  ASSUME NEW d, NEW store, NEW g, GraphOK(g, d, store)
  PROVE  LET h == [g EXCEPT !.dirty = TRUE] IN GraphOK(h, d, store) /\ h.shown = g.shown
<1>1. PICK b : b = TRUE
  OBVIOUS
<1> DEFINE h == [g EXCEPT !.dirty = b]
<1>2. IsGraph(g)
  BY DEF GraphOK
<1>3. /\ IsGraph(h) /\ h.selected = g.selected /\ h.overlays = g.overlays
      /\ h.offered = g.offered /\ h.shown = g.shown
  BY <1>2, DirtyIs
<1>4. h = [g EXCEPT !.dirty = TRUE]
  BY <1>1, Zenon
<1> HIDE DEF h
<1>5. GraphOK(h, d, store) /\ h.shown = g.shown
  BY <1>3 DEF GraphOK
<1>6. QED
  BY <1>4, <1>5

\* The overlays rebuilt are of the selected parameter's unit.
LEMMA OverlaysRebuiltOK ==
  ASSUME NEW d, NEW store, NEW g, IsGraph(g), g.offered \subseteq Plottable(d, store),
         g.selected = None \/ g.selected \in Plottable(d, store)
  PROVE  LET h == OverlaysRebuilt(g, d, store) IN
         GraphOK(h, d, store) /\ h.shown = g.shown /\ h.selected = g.selected
<1>1. PICK b : b = TRUE
  OBVIOUS
<1> DEFINE h == OverlaysRebuilt(g, d, store)
           overlays == g.overlays \cap Overlayable(d, store, g.selected)
<1>2. h = [g EXCEPT !.overlays = overlays, !.dirty = b]
  BY <1>1, Zenon DEF OverlaysRebuilt
<1>3. /\ g.selected = None => overlays = {}
      /\ \A id \in overlays : /\ id \in Plottable(d, store)
                              /\ UnitOf(d, store, id) = UnitOf(d, store, g.selected)
  BY DEF Overlayable
<1> HIDE DEF h, overlays
<1>4. h = [selected |-> g.selected, overlays |-> overlays, offered |-> g.offered,
           paused |-> g.paused, frozen |-> g.frozen, dirty |-> b, shown |-> g.shown]
  BY <1>2 DEF IsGraph
<1>5. QED
  BY <1>3, <1>4 DEF GraphOK, IsGraph, h

\* The first entry can be selected.
LEMMA FirstIsPlottable ==
  ASSUME NEW d \in Dataframes, NEW store, Shaped(store)
  PROVE  FirstPlottable(d, store) = None \/ FirstPlottable(d, store) \in Plottable(d, store)
<1>1. CASE Known(d) # {}
  <2> DEFINE i == CHOOSE i \in KnownAt(d) : \A j \in KnownAt(d) : i <= j
  <2>1. KnownAt(d) # {}
    BY <1>1 DEF Known
  <2>2. KnownAt(d) \subseteq Nat
    <3>1. DOMAIN d.parameters = 1 .. Len(d.parameters) /\ Len(d.parameters) \in Nat
      BY DataframesAssumption
    <3>2. QED
      BY <3>1 DEF KnownAt
  <2>3. i \in KnownAt(d)
    BY <2>1, <2>2, LeastNatural
  <2>4. FirstPlottable(d, store) = d.parameters[i].id
    BY <1>1 DEF FirstPlottable
  <2> HIDE DEF i
  <2>5. QED
    BY <2>3, <2>4 DEF Plottable, Known
<1>2. CASE Known(d) = {} /\ store.keys # <<>>
  <2>1. store.keys[1] \in DOMAIN store.of
    BY <1>2 DEF Shaped
  <2>2. QED
    BY <1>2, <2>1 DEF FirstPlottable, Plottable
<1>3. CASE Known(d) = {} /\ store.keys = <<>>
  BY <1>3 DEF FirstPlottable
<1>4. QED
  BY <1>1, <1>2, <1>3

\* The page rebuilt is in order, and shows what it did, or what it would draw
\* once in order.
LEMMA RebuiltOK ==
  ASSUME NEW d \in Dataframes, NEW store, Shaped(store), NEW g, IsGraph(g)
  PROVE  LET h == Rebuilt(g, d, store) IN
         /\ GraphOK(h, d, store)
         /\ h.shown = g.shown \/ \E f : GraphOK(f, d, store) /\ h.shown = Plot(f, store)
<1> DEFINE h == Rebuilt(g, d, store)
           first == FirstPlottable(d, store)
           offered == Plottable(d, store)
           selected == IF g.selected \in offered THEN g.selected ELSE first
           base == [g EXCEPT !.offered = offered, !.selected = selected]
           rebuilt == OverlaysRebuilt(base, d, store)
<1>1. h = IF selected = g.selected /\ selected # None /\ selected # first
          THEN [Drawn(rebuilt, store) EXCEPT !.dirty = TRUE] ELSE rebuilt
  BY DEF Rebuilt
<1>2. selected = None \/ selected \in Plottable(d, store)
  BY FirstIsPlottable
<1>0. base = [g EXCEPT !.offered = offered, !.selected = selected]
  OBVIOUS
<1> HIDE DEF first, selected, h, offered, base
<1>3. base = [selected |-> selected, overlays |-> g.overlays, offered |-> offered,
              paused |-> g.paused, frozen |-> g.frozen, dirty |-> g.dirty, shown |-> g.shown]
  BY <1>0 DEF IsGraph
<1>4. /\ IsGraph(base) /\ base.offered \subseteq Plottable(d, store)
      /\ base.selected = selected /\ base.shown = g.shown
  BY <1>3 DEF IsGraph, offered
<1>5. GraphOK(rebuilt, d, store) /\ rebuilt.shown = g.shown
  BY <1>2, <1>4, OverlaysRebuiltOK
<1> HIDE DEF rebuilt
<1>6. CASE selected = g.selected /\ selected # None /\ selected # first
  <2> DEFINE drawn == Drawn(rebuilt, store)
  <2>1. h = [drawn EXCEPT !.dirty = TRUE]
    BY <1>1, <1>6
  <2>2. GraphOK(drawn, d, store)
    BY <1>5, DrawnOK
  <2>3. drawn.shown = Plot(rebuilt, store)
    BY <1>5, DrawnIs DEF GraphOK
  <2> HIDE DEF drawn
  <2>4. GraphOK(h, d, store) /\ h.shown = drawn.shown
    BY <2>1, <2>2, DirtyOK
  <2>5. QED
    BY <1>5, <2>3, <2>4 DEF h
<1>7. CASE ~(selected = g.selected /\ selected # None /\ selected # first)
  BY <1>1, <1>5, <1>7 DEF h
<1>8. QED
  BY <1>6, <1>7

\* A series that is kept leaves the page in order.
LEMMA ExtendedOK ==
  ASSUME NEW d, NEW store, NEW after, Extends(store, after), NEW g, GraphOK(g, d, store)
  PROVE  GraphOK(g, d, after)
<1>1. Plottable(d, store) \subseteq Plottable(d, after)
  BY DEF Plottable, Extends
<1>2. ASSUME NEW id \in Plottable(d, store) PROVE UnitOf(d, after, id) = UnitOf(d, store, id)
  <2> DEFINE known == {p \in Known(d) : p.id = id}
  <2>1. CASE known = {}
    <3>1. id \in DOMAIN store.of
      BY <2>1 DEF Plottable
    <3>2. QED
      BY <2>1, <3>1 DEF UnitOf, Extends
  <2>2. CASE known # {}
    BY <2>2 DEF UnitOf
  <2>3. QED
    BY <2>1, <2>2
<1>3. ASSUME NEW id \in g.overlays
      PROVE  id \in Plottable(d, after) /\ UnitOf(d, after, id) = UnitOf(d, after, g.selected)
  <2>1. /\ id \in Plottable(d, store) /\ g.selected \in Plottable(d, store)
        /\ UnitOf(d, store, id) = UnitOf(d, store, g.selected)
    BY <1>3 DEF GraphOK
  <2>2. QED
    BY <1>1, <1>2, <2>1
<1>4. QED
  BY <1>1, <1>3 DEF GraphOK

\* The page told of new samples: it is in order, and shows what it did, or
\* draws.
LEMMA AfterAppendOK ==
  ASSUME NEW d \in Dataframes, NEW store, Shaped(store), NEW g, GraphOK(g, d, store), NEW ids
  PROVE  LET h == AfterAppend(g, d, store, ids) IN
         /\ GraphOK(h, d, store)
         /\ h.shown = g.shown \/ \E f : GraphOK(f, d, store) /\ h.shown = Plot(f, store)
<1>1. CASE ids = {}
  BY <1>1 DEF AfterAppend
<1>2. CASE ids # {} /\ (g.offered = {} \/ ~(ids \subseteq g.offered))
  BY <1>2, RebuiltOK DEF AfterAppend, GraphOK
<1>3. CASE ids # {} /\ ~(g.offered = {} \/ ~(ids \subseteq g.offered))
  <2>1. AfterAppend(g, d, store, ids) = [g EXCEPT !.dirty = TRUE]
    BY <1>3 DEF AfterAppend
  <2> DEFINE h == AfterAppend(g, d, store, ids)
  <2> HIDE DEF h
  <2>2. h = [g EXCEPT !.dirty = TRUE]
    BY <2>1 DEF h
  <2>3. GraphOK(h, d, store) /\ h.shown = g.shown
    BY <2>2, DirtyOK
  <2>4. QED
    BY <2>3 DEF h
<1>4. QED
  BY <1>1, <1>2, <1>3

\* Without series nothing can be in two units.
LEMMA NoUnits == Shaped(EmptyStore) /\ \A d : UnitsAgree(d, EmptyStore)
<1>1. EmptyStore.of = <<>> /\ EmptyStore.keys = <<>> /\ DOMAIN <<>> = {}
  BY DEF EmptyStore
<1> HIDE DEF EmptyStore
<1>2. \A S : <<>> \in Seq(S)
  OBVIOUS
<1>3. EmptyStore.keys \in Seq(DOMAIN EmptyStore.of)
  BY <1>1, <1>2
<1>4. QED
  BY <1>1, <1>3 DEF Shaped, UnitsAgree

-----------------------------------------------------------------------------
(* One unit on the axis *)

\* The inductive invariant of the Graphs page, on top of the others.
AxisInv ==
  /\ "mixed" \in DOMAIN past
  /\ Shaped(history) /\ GraphOK(graph, dataframe, history)
  /\ past.mixed \/ (UnitsAgree(dataframe, history) /\ OneUnit(graph.shown.lines))

\* Whether units were mixed, after the changes an action makes to the history
\* bits.
LEMMA MixedBit ==
  ASSUME NEW p, "mixed" \in DOMAIN p
  PROVE  /\ "mixed" \in DOMAIN Changed(p) /\ Changed(p).mixed = p.mixed
         /\ "mixed" \in DOMAIN Stale(p) /\ Stale(p).mixed = p.mixed
         /\ \A b : /\ "mixed" \in DOMAIN [p EXCEPT !.mixed = b]
                   /\ [p EXCEPT !.mixed = b].mixed = b
         /\ \A b : /\ "mixed" \in DOMAIN [p EXCEPT !.decoded = b]
                   /\ [p EXCEPT !.decoded = b].mixed = p.mixed
         /\ \A b : /\ "mixed" \in DOMAIN [p EXCEPT !.backward = b]
                   /\ [p EXCEPT !.backward = b].mixed = p.mixed
<1>1. "mixed" \in DOMAIN Changed(p) /\ Changed(p).mixed = p.mixed
  BY DEF Changed
<1>2. \A b : /\ "mixed" \in DOMAIN [p EXCEPT !.decoded = b]
             /\ [p EXCEPT !.decoded = b].mixed = p.mixed
  OBVIOUS
<1>3. "mixed" \in DOMAIN Stale(p) /\ Stale(p).mixed = p.mixed
  <2>1. PICK no : no = FALSE
    OBVIOUS
  <2>2. Stale(p) = [p EXCEPT !.decoded = no]
    BY <2>1, Zenon DEF Stale
  <2>3. QED
    BY <1>2, <2>2
<1>4. \A b : /\ "mixed" \in DOMAIN [p EXCEPT !.backward = b]
             /\ [p EXCEPT !.backward = b].mixed = p.mixed
  OBVIOUS
<1>5. \A b : /\ "mixed" \in DOMAIN [p EXCEPT !.mixed = b]
             /\ [p EXCEPT !.mixed = b].mixed = b
  OBVIOUS
<1>6. QED
  BY <1>1, <1>2, <1>3, <1>4, <1>5

\* What the invariant reads does not change.
LEMMA AxisUnmoved ==
  ASSUME AxisInv, UNCHANGED <<dataframe, history, graph>>,
         "mixed" \in DOMAIN past', past'.mixed = past.mixed
  PROVE  AxisInv'
<1>1. Shaped(history') /\ GraphOK(graph', dataframe', history')
  BY DEF AxisInv
<1>2. past'.mixed \/ (UnitsAgree(dataframe', history') /\ OneUnit(graph'.shown.lines))
  BY DEF AxisInv
<1>3. QED
  BY <1>1, <1>2 DEF AxisInv, Shaped, GraphOK, UnitsAgree, OneUnit, IsPoints, AllUnit, IsGraph,
     Plottable, UnitOf, Known, KnownAt, Parameters

\* The graph is drawn, or stays, and its dataframe and history agree.
LEMMA AxisStep ==
  ASSUME "mixed" \in DOMAIN past', Shaped(history'), GraphOK(graph', dataframe', history'),
         ~past'.mixed => UnitsAgree(dataframe', history'),
         \/ ~past'.mixed => OneUnit(graph'.shown.lines)
         \/ \E f : /\ GraphOK(f, dataframe', history')
                   /\ graph'.shown = Plot(f, history')
  PROVE  AxisInv'
<1>1. ASSUME ~past'.mixed PROVE OneUnit(graph'.shown.lines)
  <2>1. CASE ~past'.mixed => OneUnit(graph'.shown.lines)
    BY <1>1, <2>1
  <2>2. ASSUME NEW f, GraphOK(f, dataframe', history'), graph'.shown = Plot(f, history')
        PROVE  OneUnit(graph'.shown.lines)
    BY <1>1, <2>2, PlotOneUnit
  <2>3. QED
    BY <2>1, <2>2
<1>2. past'.mixed \/ (UnitsAgree(dataframe', history') /\ OneUnit(graph'.shown.lines))
  BY <1>1
<1>3. QED
  BY <1>2 DEF AxisInv, Shaped, GraphOK, UnitsAgree, OneUnit, IsPoints, AllUnit, IsGraph,
     Plottable, UnitOf, Known, KnownAt, Parameters

\* The program starts with nothing drawn.
LEMMA InitAxis == Init => AxisInv
<1> SUFFICES ASSUME Init PROVE AxisInv
  OBVIOUS
<1>1. "mixed" \in DOMAIN past
  <2>1. PICK no : no = FALSE
    OBVIOUS
  <2>2. past = [decoded |-> no, backward |-> no, mixed |-> no, changes |-> MaxChanges]
    BY <2>1, Zenon DEF Init
  <2>3. QED
    BY <2>2
<1>2. history = EmptyStore /\ dataframe \in Dataframes
  BY LiveAssumption DEF Init
<1>3. PICK no, yes : no = FALSE /\ yes = TRUE
  OBVIOUS
<1> DEFINE shown == [end |-> 0, lines |-> <<>>, unit |-> None]
           g == [selected |-> None, overlays |-> {}, offered |-> {}, paused |-> no,
                 frozen |-> 0, dirty |-> yes, shown |-> shown]
<1>4. graph = Rebuilt(g, dataframe, EmptyStore)
  BY <1>3, Zenon DEF Init
<1>5. g.shown = shown /\ shown.lines = <<>> /\ DOMAIN <<>> = {}
  OBVIOUS
<1>6. IsGraph(g)
  BY DEF IsGraph
<1> HIDE DEF g, shown
<1>7. /\ GraphOK(graph, dataframe, EmptyStore)
      /\ \/ graph.shown = shown
         \/ \E f : GraphOK(f, dataframe, EmptyStore) /\ graph.shown = Plot(f, EmptyStore)
  BY <1>2, <1>4, <1>5, <1>6, NoUnits, RebuiltOK
<1>8. OneUnit(graph.shown.lines)
  <2>1. CASE graph.shown = shown
    BY <1>5, <2>1 DEF OneUnit
  <2>2. ASSUME NEW f, GraphOK(f, dataframe, EmptyStore), graph.shown = Plot(f, EmptyStore)
        PROVE  OneUnit(graph.shown.lines)
    BY <2>2, NoUnits, PlotOneUnit
  <2>3. QED
    BY <1>7, <2>1, <2>2
<1>9. QED
  BY <1>1, <1>2, <1>7, <1>8, NoUnits DEF AxisInv

\* Another dataframe: unless it gives a series another unit, it agrees with
\* the history as the old one did.
LEMMA SetDataframeAxis ==
  ASSUME AxisInv, NEW d \in Dataframes, SetDataframe(d) PROVE AxisInv'
<1>1. /\ dataframe' = d /\ history' = history /\ graph' = Rebuilt(graph, d, history)
      /\ past' = [Stale(Changed(past)) EXCEPT !.mixed = @ \/ MixesUnits(d)]
  BY DEF SetDataframe
<1>2. PICK b : b = (past.mixed \/ MixesUnits(d))
  OBVIOUS
<1>3. "mixed" \in DOMAIN past' /\ past'.mixed = b
  <2>1. "mixed" \in DOMAIN Changed(past) /\ Changed(past).mixed = past.mixed
    BY MixedBit DEF AxisInv
  <2>2. "mixed" \in DOMAIN Stale(Changed(past)) /\ Stale(Changed(past)).mixed = past.mixed
    BY <2>1, MixedBit
  <2>3. past' = [Stale(Changed(past)) EXCEPT !.mixed = b]
    BY <1>1, <1>2, <2>2, Zenon
  <2>4. QED
    BY <2>2, <2>3, MixedBit
<1>4. ~past'.mixed => ~past.mixed /\ ~MixesUnits(d)
  BY <1>2, <1>3, Zenon
<1>5. IsGraph(graph) /\ Shaped(history)
  BY DEF AxisInv, GraphOK
<1>6. /\ GraphOK(graph', d, history)
      /\ \/ graph'.shown = graph.shown
         \/ \E f : GraphOK(f, d, history) /\ graph'.shown = Plot(f, history)
  BY <1>1, <1>5, RebuiltOK
<1>7. ASSUME ~past'.mixed PROVE UnitsAgree(d, history) /\ OneUnit(graph.shown.lines)
  <2>1. UnitsAgree(dataframe, history) /\ OneUnit(graph.shown.lines)
    BY <1>4, <1>7 DEF AxisInv
  <2>2. \A p \in Parameters(d) : p.id \in DOMAIN history.of => history.of[p.id].unit = p.unit
    BY <1>4, <1>7 DEF MixesUnits
  <2>3. QED
    BY <2>1, <2>2 DEF UnitsAgree
<1>8. \/ ~past'.mixed => OneUnit(graph'.shown.lines)
      \/ \E f : GraphOK(f, dataframe', history') /\ graph'.shown = Plot(f, history')
  BY <1>1, <1>6, <1>7
<1>9. QED
  BY <1>1, <1>3, <1>5, <1>6, <1>7, <1>8, AxisStep

\* A subframe is delivered: its samples have the units of the dataframe.
LEMMA DeliverAxis ==
  ASSUME AxisInv, dataframe \in Dataframes, NEW sf \in Subframes, NEW state, NEW words,
         NEW slots, NEW top \in Int, Deliver(sf, state, words, slots, top)
  PROVE  AxisInv'
<1> DEFINE samples == SamplesOf(DecodeSubframe(words, dataframe, sf), top)
<1>1. "mixed" \in DOMAIN past' /\ past'.mixed = past.mixed
  <2>1. PICK a : a = (past.decoded \/ Decodes(state, stream.wps))
    OBVIOUS
  <2>2. CASE stream.state = "stopping"
    <3>1. past' = Stale(past)
      BY <2>2 DEF Deliver
    <3>2. QED
      BY <3>1, MixedBit DEF AxisInv
  <2>3. CASE stream.state # "stopping"
    <3>1. past' = [past EXCEPT !.decoded = @ \/ Decodes(state, stream.wps)]
      BY <2>3 DEF Deliver
    <3>2. past' = [past EXCEPT !.decoded = a]
      BY <2>1, <3>1, Zenon
    <3>3. QED
      BY <3>2, MixedBit DEF AxisInv
  <2>4. QED
    BY <2>2, <2>3
<1>2. dataframe' = dataframe
  BY DEF Deliver
<1>3. CASE ~Decodes(state, stream.wps)
  <2>1. history' = history /\ graph' = graph
    BY <1>3 DEF Deliver, NotDecoded
  <2>2. QED
    BY <1>1, <1>2, <2>1, AxisUnmoved
<1>4. CASE Decodes(state, stream.wps)
  <2>1. /\ history' = Batch(history, samples, MaxSamples, MaxSeconds)
        /\ graph' = AfterAppend(graph, dataframe, history', Touched(samples))
    BY <1>4 DEF Deliver, Decoded
  <2>2. Len(samples) \in Nat /\ \A n \in 1 .. Len(samples) : SampleOf(dataframe, samples[n])
    BY SampleUnits
  <2>3. MaxSamples \in Nat /\ MaxSeconds \in Nat
    BY LiveAssumption
  <2> HIDE DEF samples
  <2>4. /\ Shaped(history') /\ Extends(history, history')
        /\ UnitsAgree(dataframe, history) => UnitsAgree(dataframe, history')
    BY <2>1, <2>2, <2>3, BatchUnits DEF AxisInv
  <2>5. GraphOK(graph, dataframe, history')
    BY <2>4, ExtendedOK DEF AxisInv
  <2>6. /\ GraphOK(graph', dataframe, history')
        /\ \/ graph'.shown = graph.shown
           \/ \E f : GraphOK(f, dataframe, history') /\ graph'.shown = Plot(f, history')
    BY <2>1, <2>4, <2>5, AfterAppendOK
  <2>7. ~past'.mixed => UnitsAgree(dataframe, history') /\ OneUnit(graph.shown.lines)
    BY <1>1, <2>4 DEF AxisInv
  <2>8. \/ ~past'.mixed => OneUnit(graph'.shown.lines)
        \/ \E f : GraphOK(f, dataframe', history') /\ graph'.shown = Plot(f, history')
    BY <1>2, <2>6, <2>7
  <2>9. QED
    BY <1>1, <1>2, <2>4, <2>6, <2>7, <2>8, AxisStep
<1>5. QED
  BY <1>3, <1>4

\* The user at the Graphs page, and its timer.
LEMMA PageAxis ==
  ASSUME AxisInv, dataframe \in Dataframes,
         \/ \E id \in graph.offered : SelectParameter(id) \/ CheckOverlay(id)
         \/ Pause \/ Resume \/ Refresh
  PROVE  AxisInv'
<1>1. /\ dataframe' = dataframe /\ history' = history
      /\ past' = past \/ past' = Changed(past)
  BY DEF SelectParameter, CheckOverlay, Pause, Resume, Refresh, AtGraph
<1>2. "mixed" \in DOMAIN past' /\ past'.mixed = past.mixed
  BY <1>1, MixedBit DEF AxisInv
<1>3. GraphOK(graph, dataframe, history) /\ IsGraph(graph) /\ Shaped(history)
  BY DEF AxisInv, GraphOK
<1>4. ~past'.mixed => UnitsAgree(dataframe, history) /\ OneUnit(graph.shown.lines)
  BY <1>2 DEF AxisInv
<1>5. ASSUME GraphOK(graph', dataframe, history),
             \/ graph'.shown = graph.shown
             \/ \E f : GraphOK(f, dataframe, history) /\ graph'.shown = Plot(f, history)
      PROVE  AxisInv'
  <2>1. \/ ~past'.mixed => OneUnit(graph'.shown.lines)
        \/ \E f : GraphOK(f, dataframe', history') /\ graph'.shown = Plot(f, history')
    BY <1>1, <1>4, <1>5
  <2>2. QED
    BY <1>1, <1>2, <1>3, <1>4, <1>5, <2>1, AxisStep
<1>6. ASSUME NEW g, GraphOK(g, dataframe, history), graph' = Drawn(g, history) PROVE AxisInv'
  <2>1. graph'.shown = Plot(g, history)
    BY <1>6, DrawnIs DEF GraphOK
  <2>2. GraphOK(graph', dataframe, history)
    BY <1>6, DrawnOK
  <2>3. QED
    BY <1>5, <1>6, <2>1, <2>2
<1>7. ASSUME NEW id \in graph.offered, SelectParameter(id) PROVE AxisInv'
  <2> DEFINE base == [graph EXCEPT !.selected = id]
             g == OverlaysRebuilt(base, dataframe, history)
  <2>1. graph' = Drawn(g, history)
    BY <1>7 DEF SelectParameter, AtGraph
  <2>2. base = [selected |-> id, overlays |-> graph.overlays, offered |-> graph.offered,
                paused |-> graph.paused, frozen |-> graph.frozen, dirty |-> graph.dirty,
                shown |-> graph.shown]
    BY <1>3 DEF IsGraph
  <2> HIDE DEF base
  <2>3. /\ IsGraph(base) /\ base.offered \subseteq Plottable(dataframe, history)
        /\ base.selected \in Plottable(dataframe, history)
    BY <1>3, <2>2 DEF IsGraph, GraphOK
  <2>4. GraphOK(g, dataframe, history)
    BY <2>3, OverlaysRebuiltOK
  <2> HIDE DEF g
  <2>5. QED
    BY <1>6, <2>1, <2>4
<1>8. ASSUME NEW id \in graph.offered, CheckOverlay(id) PROVE AxisInv'
  <2>1. PICK b : b = TRUE
    OBVIOUS
  <2> DEFINE overlays == graph.overlays \cup {id}
  <2>2. graph' = [graph EXCEPT !.overlays = overlays, !.dirty = b]
    BY <1>8, <2>1, Zenon DEF CheckOverlay, AtGraph
  <2>3. id \in Overlayable(dataframe, history, graph.selected)
    BY <1>8 DEF CheckOverlay
  <2>4. /\ graph.selected # None /\ id \in Plottable(dataframe, history)
        /\ UnitOf(dataframe, history, id) = UnitOf(dataframe, history, graph.selected)
    BY <2>3 DEF Overlayable
  <2>5. \A o \in overlays :
          /\ o \in Plottable(dataframe, history)
          /\ UnitOf(dataframe, history, o) = UnitOf(dataframe, history, graph.selected)
    BY <1>3, <2>4 DEF GraphOK
  <2> HIDE DEF overlays
  <2>6. graph' = [selected |-> graph.selected, overlays |-> overlays, offered |-> graph.offered,
                  paused |-> graph.paused, frozen |-> graph.frozen, dirty |-> b,
                  shown |-> graph.shown]
    BY <1>3, <2>2 DEF IsGraph
  <2>7. GraphOK(graph', dataframe, history) /\ graph'.shown = graph.shown
    BY <1>3, <2>4, <2>5, <2>6 DEF GraphOK, IsGraph
  <2>8. QED
    BY <1>5, <2>7
<1>9. CASE Pause
  <2>1. PICK b : b = TRUE
    OBVIOUS
  <2> DEFINE end == LatestTime(graph, history)
  <2>2. graph' = [graph EXCEPT !.paused = b, !.frozen = end]
    BY <1>9, <2>1, Zenon DEF Pause, AtGraph
  <2> HIDE DEF end
  <2>3. graph' = [selected |-> graph.selected, overlays |-> graph.overlays,
                  offered |-> graph.offered, paused |-> b, frozen |-> end,
                  dirty |-> graph.dirty, shown |-> graph.shown]
    BY <1>3, <2>2 DEF IsGraph
  <2>4. GraphOK(graph', dataframe, history) /\ graph'.shown = graph.shown
    BY <1>3, <2>3 DEF GraphOK, IsGraph
  <2>5. QED
    BY <1>5, <2>4
<1>10. CASE Resume
  <2>1. PICK b : b = FALSE
    OBVIOUS
  <2> DEFINE g == [graph EXCEPT !.paused = b, !.frozen = 0]
  <2>2. graph' = Drawn(g, history)
    BY <1>10, <2>1, Zenon DEF Resume
  <2>0. g = [graph EXCEPT !.paused = b, !.frozen = 0]
    OBVIOUS
  <2> HIDE DEF g
  <2>3. g = [selected |-> graph.selected, overlays |-> graph.overlays,
             offered |-> graph.offered, paused |-> b, frozen |-> 0,
             dirty |-> graph.dirty, shown |-> graph.shown]
    BY <1>3, <2>0 DEF IsGraph
  <2>4. GraphOK(g, dataframe, history)
    BY <1>3, <2>3 DEF GraphOK, IsGraph
  <2>5. QED
    BY <1>6, <2>2, <2>4
<1>11. CASE Refresh
  <2>1. graph' = Drawn(graph, history)
    BY <1>11 DEF Refresh
  <2>2. QED
    BY <1>3, <1>6, <2>1
<1>12. QED
  BY <1>7, <1>8, <1>9, <1>10, <1>11

\* A history cleared has no units.
LEMMA ClearAxis == ASSUME AxisInv, dataframe \in Dataframes, ClearHistory PROVE AxisInv'
<1>1. /\ dataframe' = dataframe /\ history' = EmptyStore
      /\ graph' = Drawn(Rebuilt(graph, dataframe, history'), history')
      /\ past' = [Changed(past) EXCEPT !.backward = FALSE, !.mixed = FALSE]
  BY DEF ClearHistory
<1>2. "mixed" \in DOMAIN past'
  <2>1. PICK no : no = FALSE
    OBVIOUS
  <2>2. past' = [Changed(past) EXCEPT !.backward = no, !.mixed = no]
    BY <1>1, <2>1, Zenon
  <2>3. QED
    BY <2>2 DEF AxisInv, Changed
<1> DEFINE g == Rebuilt(graph, dataframe, EmptyStore)
<1>3. GraphOK(g, dataframe, EmptyStore)
  BY NoUnits, RebuiltOK DEF AxisInv, GraphOK
<1>4. graph' = Drawn(g, EmptyStore)
  BY <1>1
<1> HIDE DEF g
<1>5. GraphOK(graph', dataframe, EmptyStore) /\ graph'.shown = Plot(g, EmptyStore)
  BY <1>3, <1>4, DrawnOK, DrawnIs DEF GraphOK
<1>6. QED
  BY <1>1, <1>2, <1>3, <1>5, NoUnits, AxisStep

\* Every step preserves the invariant of the Graphs page.
LEMMA StepKeepsAxis == IInv /\ TableInv /\ HistoryInv /\ AxisInv /\ [Next]_vars => AxisInv'
<1> SUFFICES ASSUME IInv, TableInv, HistoryInv, AxisInv, [Next]_vars PROVE AxisInv'
  OBVIOUS
<1>1. dataframe \in Dataframes /\ stream.next \in Subframes /\ stream.t \in Int
  BY DEF TableInv, LatestDecoded, StreamShown, HistoryInv
<1>2. ASSUME UNCHANGED <<dataframe, history, graph>>,
             \/ past' = past \/ past' = Changed(past) \/ past' = Stale(past)
             \/ past' = Stale(Changed(past))
      PROVE  AxisInv'
  <2>1. "mixed" \in DOMAIN Changed(past) /\ Changed(past).mixed = past.mixed
    BY MixedBit DEF AxisInv
  <2>2. "mixed" \in DOMAIN past' /\ past'.mixed = past.mixed
    BY <1>2, <2>1, MixedBit DEF AxisInv
  <2>3. QED
    BY <1>2, <2>2, AxisUnmoved
<1>3. ASSUME NEW d \in Dataframes, SetDataframe(d) PROVE AxisInv'
  BY <1>3, SetDataframeAxis
<1>4. ASSUME NewFrame \/ \E sf \in Subframes : SetWord(sf) PROVE AxisInv'
  BY <1>2, <1>4 DEF NewFrame, SetWord
<1>5. ASSUME NEW start \in {0, now}, StartStream(start) PROVE AxisInv'
  <2>1. /\ UNCHANGED <<dataframe, history, graph>>
        /\ past' = [Changed(past) EXCEPT !.backward = @ \/ EndsAfter(start + SubframeTicks)]
    BY <1>5 DEF StartStream
  <2>2. PICK b : past' = [Changed(past) EXCEPT !.backward = b]
    BY <2>1
  <2>3. "mixed" \in DOMAIN Changed(past) /\ Changed(past).mixed = past.mixed
    BY MixedBit DEF AxisInv
  <2>4. "mixed" \in DOMAIN past' /\ past'.mixed = past.mixed
    BY <2>2, <2>3, MixedBit
  <2>5. QED
    BY <2>1, <2>4, AxisUnmoved
<1>6. ASSUME StopStream PROVE AxisInv'
  BY <1>2, <1>6 DEF StopStream
<1>7. ASSUME NEW state \in {"RECEIVED", "INVALID", "MISSING"}, Arrival(state) PROVE AxisInv'
  <2>1. PICK words, slots : Deliver(stream.next, state, words, slots, stream.t + SubframeTicks)
    BY <1>7 DEF Arrival
  <2>2. stream.t + SubframeTicks \in Int
    BY <1>1 DEF SubframeTicks
  <2>3. QED
    BY <1>1, <2>1, <2>2, DeliverAxis
<1>8. ASSUME NEW sf \in Subframes, LateArrival(sf) PROVE AxisInv'
  <2>1. PICK words, slots : Deliver(sf, "LATE", words, slots, stream.t)
    BY <1>8 DEF LateArrival
  <2>2. QED
    BY <1>1, <2>1, DeliverAxis
<1>9. ASSUME NEW key, SelectSample(key) PROVE AxisInv'
  BY <1>2, <1>9 DEF SelectSample
<1>10. ASSUME NEW id \in graph.offered, SelectParameter(id) \/ CheckOverlay(id) PROVE AxisInv'
  BY <1>1, <1>10, PageAxis
<1>11. CASE Pause \/ Resume \/ Refresh
  BY <1>1, <1>11, PageAxis
<1>12. CASE ClearHistory
  BY <1>1, <1>12, ClearAxis
<1>13. CASE UNCHANGED vars
  BY <1>2, <1>13 DEF vars
<1>14. QED
  BY <1>3, <1>4, <1>5, <1>6, <1>7, <1>8, <1>9, <1>10, <1>11, <1>12, <1>13 DEF Next

\* One y axis never mixes units unless a unit was edited over a series begun
\* under the old one: through any selection, overlays, pauses, redraws, other
\* dataframes and streams (graphs_page.py:191).
THEOREM AxisUnit == Spec => []AxisOneUnit
<1>1. Init => IInv /\ TableInv /\ HistoryInv /\ AxisInv
  BY InitIInv, InitTable, InitHistory, InitAxis
<1>2. IInv /\ TableInv /\ HistoryInv /\ AxisInv /\ [Next]_vars
      => (IInv /\ TableInv /\ HistoryInv /\ AxisInv)'
  BY StepKeeps, StepKeepsTable, StepKeepsHistory, StepKeepsAxis
<1>3. AxisInv => AxisOneUnit
  BY OneUnitOnAxis DEF AxisInv, AxisOneUnit
<1>4. QED
  BY <1>1, <1>2, <1>3, PTL DEF Spec
=============================================================================
