-------------------------------- MODULE MCReuse --------------------------------
(* Users are interchangeable. *)
EXTENDS Reuse, TLC

UserSymmetry == Permutations(Users)
=============================================================================
