-------------------------- MODULE MCFunctionRegistry --------------------------
(* Instances of FunctionRegistry for TLC. *)
EXTENDS FunctionRegistry, TLC

CONSTANTS q1, q2, q3, q4, q5

FourRequests == {q1, q2, q3, q4}
FiveRequests == {q1, q2, q3, q4, q5}

Symmetry == Permutations(Requests)

=============================================================================
