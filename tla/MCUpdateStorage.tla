--------------------------- MODULE MCUpdateStorage ---------------------------
(* Instances of UpdateStorage for TLC: values are interchangeable. *)
EXTENDS UpdateStorage, TLC

ValueSymmetry == Permutations(Values)
===============================================================================
