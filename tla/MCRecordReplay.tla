--------------------------- MODULE MCRecordReplay ---------------------------
(* Four subframes, each with a frame id or with none. *)
EXTENDS RecordReplay
=============================================================================
