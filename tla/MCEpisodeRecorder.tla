------------------------- MODULE MCEpisodeRecorder -------------------------
(* Small instances of EpisodeRecorder for TLC: the constants come from the *)
(* .cfg of each run.                                                       *)
EXTENDS EpisodeRecorder
=============================================================================
