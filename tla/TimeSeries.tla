----------------------------- MODULE TimeSeries -----------------------------
(***************************************************************************)
(* The bounded history of streaming/timeseries_store.py and the samples    *)
(* that fill it (streaming/parameter_sample.py), as operators on a store   *)
(*   [keys |-> the ids in order of arrival, of |-> [id -> series]].        *)
(* Times are in ticks, SubframeTicks of them to a subframe.                *)
(***************************************************************************)
EXTENDS Integers, SequencesExt

SubframeTicks == 2

\* A value that is not a number: a mapping error, or an unknown type.
NotNumeric == -1

\* sample_time and sample_from_value
SampleTime(end, offset) == end - SubframeTicks + offset

Sample(value, end) ==
  [id |-> value.id, unit |-> value.unit, status |-> value.status,
   at |-> SampleTime(end, value.offset), value |-> value.word]

-----------------------------------------------------------------------------
EmptyStore == [keys |-> <<>>, of |-> <<>>]

\* The unit of a point is a history of its sample's: a series keeps the first.
Point(sample) == [at |-> sample.at, value |-> sample.value, unit |-> sample.unit]

Series(unit, points, latest) == [unit |-> unit, points |-> points, latest |-> latest]

LastOf(s, n) == IF Len(s) > n THEN SubSeq(s, Len(s) - n + 1, Len(s)) ELSE s

\* Index of the first point that is not older than a cutoff; 0 when all are.
FirstNotBefore(points, cutoff) ==
  LET recent == {i \in DOMAIN points : points[i].at >= cutoff}
  IN  IF recent = {} THEN 0 ELSE CHOOSE i \in recent : \A j \in recent : i <= j

\* Slip: points are dropped wherever they are old, not from the head only.
TrimAnywhere(points, seconds) ==
  SelectSeq(points, LAMBDA p : p.at >= points[Len(points)].at - seconds)

\* Slip: the duration is not enforced.
NotTrimmed(points, seconds) == points

Trim(points, seconds) ==
  IF points = <<>> THEN points
  ELSE SubSeq(points, FirstNotBefore(points, points[Len(points)].at - seconds), Len(points))

\* append(), one sample of the batch: the series keeps the name and unit of
\* its first sample, and a sample without a number only becomes the latest.
Appended(store, sample, maxSamples) ==
  LET known == sample.id \in DOMAIN store.of
      old == IF known THEN store.of[sample.id] ELSE Series(sample.unit, <<>>, sample)
      points == IF sample.value = NotNumeric THEN old.points
                ELSE LastOf(Append(old.points, Point(sample)),
                            maxSamples)
  IN  [keys |-> IF known THEN store.keys ELSE Append(store.keys, sample.id),
       of |-> [k \in DOMAIN store.of \cup {sample.id} |->
                 IF k = sample.id THEN Series(old.unit, points, sample) ELSE store.of[k]]]

Touched(samples) ==
  {samples[i].id : i \in {j \in DOMAIN samples : samples[j].value # NotNumeric}}

\* The loop of append(): the samples of a batch in turn.
Filled(store, samples, maxSamples) ==
  LET after[n \in 0 .. Len(samples)] ==
        IF n = 0 THEN store ELSE Appended(after[n - 1], samples[n], maxSamples)
  IN  after[Len(samples)]

Batch(store, samples, maxSamples, maxSeconds) ==
  LET filled == Filled(store, samples, maxSamples)
  IN  [keys |-> filled.keys,
       of |-> [k \in DOMAIN filled.of |->
                 IF k \in Touched(samples)
                 THEN [filled.of[k] EXCEPT !.points = Trim(@, maxSeconds)]
                 ELSE filled.of[k]]]

\* window(): from the first point not before the cutoff to the end, whatever
\* the times of the points after it.
Window(points, seconds, now) ==
  LET start == FirstNotBefore(points, now - seconds)
  IN  IF points = <<>> \/ start = 0 THEN <<>> ELSE SubSeq(points, start, Len(points))
=============================================================================
