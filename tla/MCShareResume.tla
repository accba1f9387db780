--------------------------- MODULE MCShareResume ---------------------------
(* Symmetry for the runs of ShareResume: nothing orders files or sessions. *)
EXTENDS ShareResume, TLC

Symmetry == Permutations(File) \cup Permutations(Session)
=============================================================================
