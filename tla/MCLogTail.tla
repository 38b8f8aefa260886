----------------------------- MODULE MCLogTail -----------------------------
(* TLC instance of LogTail alone, for what is claimed of rotations.         *)
EXTENDS LogTail
=============================================================================
