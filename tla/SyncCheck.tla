----------------------------- MODULE SyncCheck -----------------------------
(***************************************************************************)
(* The synchronizer on its own, against a reference: an arbitrary stream   *)
(* of words (data that looks like sync words included) reaches feed() cut  *)
(* into arbitrary chunks, as the reader thread hands over whatever the     *)
(* transport had.                                                          *)
(***************************************************************************)
EXTENDS SyncReference

CONSTANTS
  Looks,       \* what words look like: a subset of 0..4
  StreamLen    \* bound on the length of the stream

ASSUME LooksAssumption == Looks \subseteq 0 .. 4 /\ StreamLen \in Nat

vars == <<stream, fed, synchronizer, delivered, detected>>

Words(looks) == [i \in 1 .. Len(looks) |-> [sync |-> looks[i], at |-> i]]

Init ==
  /\ \E looks \in [1 .. StreamLen -> Looks] : stream = Words(looks)
  /\ fed = 0
  /\ synchronizer = NewSynchronizer
  /\ delivered = <<>>
  /\ detected = {}

\* _process_words: the words of one read go through feed().
ProcessWords(n) ==
  LET r == Feed(synchronizer, SubSeq(stream, fed + 1, fed + n))
  IN  /\ fed' = fed + n
      /\ synchronizer' = r.sync
      /\ delivered' = delivered \o r.subframes
      /\ detected' = detected \cup ({r.detected} \ {0})
      /\ UNCHANGED stream

Next == \E n \in 1 .. Len(stream) - fed : ProcessWords(n)

Spec == Init /\ [][Next]_vars
=============================================================================
