--------------------------- MODULE MCUserProfile ---------------------------
(* Instances of UserProfile for TLC.                                       *)
EXTENDS UserProfile, TLC

Symmetry == Permutations(Requests) \cup Permutations(OldImages)
=============================================================================
