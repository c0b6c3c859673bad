---------------------------- MODULE MCResidents ----------------------------
(* Instances of Residents for TLC: "b" and "b2" name the same weights. *)
EXTENDS Residents

MCFileOf == [n \in Names \cup {LaunchName} |-> IF n = "b2" THEN "b" ELSE n]

Symmetry == Permutations(Requests) \cup Permutations(Commands)
=============================================================================
