-------------------------- MODULE MCDistributedLock --------------------------
(* Instances of DistributedLock for TLC. *)
EXTENDS DistributedLock, TLC

CONSTANTS c1, c2, c3

MCClients == {c1, c2, c3}
OneLaggard == {c3}

=============================================================================
