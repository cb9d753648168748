----------------------------- MODULE MCProfileBloc -----------------------------
(* Instances of ProfileBloc for TLC. *)
EXTENDS ProfileBloc, TLC

Symmetry == Permutations(Ids) \cup Permutations(Contents)

================================================================================
