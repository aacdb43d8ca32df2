------------------------- MODULE MCExecutionPipeline -------------------------
(* Model values for the runs of ExecutionPipeline.                          *)
EXTENDS ExecutionPipeline, TLC

CONSTANTS e1, e2, w1, w2, r1

MCExecs == {e1, e2}
MCOneExec == {e1}
MCAllButOne == {e2}
MCWorkers == {w1, w2}
MCRecoverers == {r1}
MCNone == {}

\* The workers are interchangeable.  Only safety runs use it.
Interchangeable == Permutations(MCWorkers)
=============================================================================
