--------------------------- MODULE MCWriterQueue ---------------------------
(* Small instances of WriterQueue for TLC: the constants come from the     *)
(* .cfg of each run.                                                       *)
EXTENDS WriterQueue
=============================================================================
