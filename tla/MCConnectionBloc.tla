--------------------------- MODULE MCConnectionBloc ---------------------------
(* Instances of ConnectionBloc for TLC. *)
EXTENDS ConnectionBloc, TLC

Symmetry == Permutations(Handlers)

===============================================================================
