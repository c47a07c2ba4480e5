-------------------------- MODULE MCCommandChannel --------------------------
(* Frames of two subframes, three operations, three uploads, one late reply. *)
EXTENDS CommandChannel
=============================================================================
