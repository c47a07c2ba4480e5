-------------------------- MODULE MCSerialService --------------------------
(* Two failures of each kind, three pending events, two chunks in flight. *)
EXTENDS SerialService
=============================================================================
