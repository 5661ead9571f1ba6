------------------------------ MODULE MCConfig ------------------------------
(* One object, two bodies that pass the linter and one that does not. *)
EXTENDS Config, TLC

Symmetric == Permutations(Admins) \union Permutations(Bodies \ Broken)
=============================================================================
