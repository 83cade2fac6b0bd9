---------------------------- MODULE MCTrackCache ----------------------------
(* Small instances of TrackCache for TLC.                                  *)
EXTENDS TrackCache, TLC

\* Callers, keys and entries are interchangeable (in a run without liveness).
Symmetry ==
  Permutations(Callers) \cup Permutations(Keys) \cup Permutations(EntryIds)
=============================================================================
