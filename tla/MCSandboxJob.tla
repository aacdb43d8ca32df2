----------------------------- MODULE MCSandboxJob -----------------------------
(* SandboxJob for TLC: its constants are numbers, given in the .cfg. *)
EXTENDS SandboxOutcome

=============================================================================
