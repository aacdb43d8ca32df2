----------------------------- MODULE MCRunnerCache -----------------------------
(* RunnerCache for TLC. *)
EXTENDS RunnerCache, TLC

CONSTANTS r1, r2, r3, i, p1, p2, handler, requirements

ThreeAndInline == {r1, r2, r3, i}
OneInline == {i}
TwoMembers == {handler, requirements}
TwoPackages == {p1, p2}
Swaps == Permutations({r1, r2, r3}) \cup Permutations(TwoPackages)

=============================================================================
