------------------------------ MODULE MCBagFiles ------------------------------
(* Small instances of BagFiles for TLC: the constants come from the .cfg   *)
(* of each run.                                                            *)
EXTENDS BagFiles
=============================================================================
