------------------------- MODULE MCContinuousStream -------------------------
(* Two words per subframe: one sync word, one data word. *)
EXTENDS ContinuousStream
=============================================================================
