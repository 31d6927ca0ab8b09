--------------------------- MODULE MCProfileStore ---------------------------
(* Instances of ProfileStore for TLC. *)
EXTENDS ProfileStore, TLC

Symmetry == Permutations(ProfileId) \cup Permutations(Caller)
=============================================================================
