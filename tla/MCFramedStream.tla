--------------------------- MODULE MCFramedStream ---------------------------
(* Three frames, three faults and one restart; four faults lose a frame. *)
EXTENDS FramedStream
=============================================================================
