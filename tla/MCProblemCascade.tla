-------------------------- MODULE MCProblemCascade --------------------------
(* An instance of ProblemCascade for TLC. *)
EXTENDS ProblemCascade

ThreeIncidents == {1, 2, 3}
=============================================================================
