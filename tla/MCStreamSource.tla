--------------------------- MODULE MCStreamSource ---------------------------
(* Four subframes, each with one of three frame ids or with none: a frame   *)
(* cut anywhere by an id or a restart and the one that follows, the ids     *)
(* being the current one, one behind it or one ahead.                       *)
EXTENDS StreamSource
=============================================================================
