-------------------------- MODULE MCEphemeralLimits --------------------------
(* An instance of EphemeralLimits for TLC. *)
EXTENDS EphemeralLimits, TLC

CONSTANTS e1, e2, f1

TwoEphemeral == {e1, e2}
TwoAndAnInvocation == TwoEphemeral \cup {f1}

Symmetry == Permutations(Ephemeral)

=============================================================================
