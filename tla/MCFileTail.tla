----------------------------- MODULE MCFileTail -----------------------------
(* FileTail for TLC.  Every counter is bounded by its constant; a tailer   *)
(* wakes for ever, so no state is the last.                                *)
EXTENDS FileTail
=============================================================================
