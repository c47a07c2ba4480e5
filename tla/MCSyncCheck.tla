---------------------------- MODULE MCSyncCheck ----------------------------
(* Two words per subframe, one other rate above it, three looks of a word: *)
(* 4, 1 and 2 follow one another, and a 2 begins nothing.  Nine words are  *)
(* a lock, two subframes, a loss, a second lock and a subframe.            *)
EXTENDS SyncCheck
=============================================================================
