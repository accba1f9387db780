----------------------------- MODULE MCLiveSync -----------------------------
(* Model values and symmetry for the runs of LiveSync. *)
EXTENDS LiveSync, TLC

ContentSymmetry == Permutations(Content)
=============================================================================
