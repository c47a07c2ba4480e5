--------------------------- MODULE SyncReference ---------------------------
(***************************************************************************)
(* What the synchronizer promises of a stream: a reader with the whole     *)
(* stream before it and no buffer to manage, and what was delivered of the *)
(* words fed so far, compared with that reader.  SyncCheck runs the        *)
(* synchronizer against it.                                                *)
(***************************************************************************)
EXTENDS Synchronizer

VARIABLES
  stream,         \* the words sent, in order
  fed,            \* how many of them were fed
  synchronizer,   \* the synchronizer
  delivered,      \* history: every subframe delivered
  detected        \* history: every rate reported

-----------------------------------------------------------------------------
(* The reference: what a reader with the whole stream before it and no     *)
(* buffer to manage would deliver.                                         *)

\* What it delivers of the last n words of a stream h, by what it expects of
\* the first of them: the sync word of a subframe, or, if 0, a pair at most.
Reads(h) ==
  LET reads[n \in 0 .. Len(h)] ==
        [sf \in 0 .. 4 |->
           LET pos   == Len(h) - n + 1
               words == SubSeq(h, pos, pos + WPS - 1)
           IN  IF n < WPS THEN <<>>
               ELSE IF sf # 0
               THEN IF h[pos].sync = sf
                    THEN <<RawSubframe(sf, words, TRUE)>> \o reads[n - WPS][Successor(sf)]
                    ELSE <<RawSubframe(sf, words, FALSE)>> \o reads[n - 1][0]
               ELSE IF n = WPS THEN <<>>
               ELSE IF PairAt(h, pos, WPS)
               THEN <<RawSubframe(h[pos].sync, words, TRUE)>>
                      \o reads[n - WPS][Successor(h[pos].sync)]
               ELSE reads[n - 1][0]]
  IN  reads

Reference(h) == Reads(h)[Len(h)][0]

\* While searching, the buffer never outgrows the history it needs; while
\* locked, what is buffered is less than one subframe once feed() returns.
BufferBounded ==
  Len(synchronizer.buffer) <= IF synchronizer.state = Searching THEN Limit ELSE WPS - 1

\* A search that is not going to lock reports the other rate as soon as a
\* pair at that rate is complete, wherever reads and trimming fall: if no
\* lock was ever found, every pair at a standard distance was reported, or a
\* smaller rate instead of it.
OtherRateReported ==
  (synchronizer.state = Searching /\ delivered = <<>>) =>
    \A d \in StandardWps \ {WPS} :
      PairsAt(SubSeq(stream, 1, fed), d) # {} => \E e \in detected : e <= d

\* However the stream is cut into reads, feed() delivers exactly the
\* subframes of the reference: the search misses no pair (although it trims
\* its buffer and stops wherever a read ends), verification skips no word,
\* and nothing is delivered twice (docs/13 "the search restarts from the very
\* next word so nothing is skipped").  For that it holds no more words than
\* it needs, and a stream of another rate is reported as such.
DeliversTheReference ==
  /\ delivered = Reference(SubSeq(stream, 1, fed))
  /\ BufferBounded
  /\ OtherRateReported
=============================================================================
