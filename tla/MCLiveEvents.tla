---------------------------- MODULE MCLiveEvents ----------------------------
(* An instance of LiveEvents for TLC. *)
EXTENDS LiveEvents

CONSTANTS b1

OneBroadcast == {b1}

=============================================================================
