---------------------------- MODULE SandboxOutcome ----------------------------
(***************************************************************************)
(* What the execution in Kubernetes means for the row: SandboxJob is the   *)
(* step SandboxEnds of ExecutionPipeline, seen from inside.                *)
(*                                                                         *)
(* The pipeline is instantiated with one worker that has committed RUNNING *)
(* for one execution and awaits its sandbox.                               *)
(***************************************************************************)
EXTENDS SandboxJob

\* How _process_job reads the result it is given: whether it is a success, says
\* that it timed out, or is worded like a fault of the platform.
Outcome(v) ==
  CASE v = "success" -> "success"
    [] v = "failed" -> "handler_error"
    [] v \in {"timed_out", "poll_timeout"} -> "timed_out"
    [] v \in {"infra", "worker_timeout"} -> "infra_error"

\* Nothing is reported by a worker that was shut down or died.
Reported == step = "over" /\ verdict # "none"
Aborted == step = "dead" \/ (step = "over" /\ verdict = "none")

PlaceOfWorker == IF Reported THEN "ran" ELSE IF Aborted THEN "idle" ELSE "sandbox"

OutcomeOfWorker == IF Reported THEN Outcome(verdict) ELSE "none"

BlankRow == [status |-> "ABSENT", kind |-> "none", completed_at |-> "null", worker |-> "nobody"]

P == INSTANCE ExecutionPipeline WITH
       Execs <- {"e"}, Workers <- {"w"}, Recoverers <- {}, NoJob <- "nothing",
       NoWorker <- "nobody", MaxAttempts <- 1, MaxFaults <- 1,
       Cancellable <- {}, Flaky <- {}, Overrun <- {},
       row <- [e \in {"e"} |-> [BlankRow EXCEPT !.status = "RUNNING", !.worker = "w"]],
       queue <- {}, processing <- {"e"},
       api <- [e \in {"e"} |-> "done"], tries <- [e \in {"e"} |-> 0],
       pc <- [w \in {"w"} |-> PlaceOfWorker],
       job <- [w \in {"w"} |-> IF Aborted THEN "nothing" ELSE "e"],
       seen <- [w \in {"w"} |-> BlankRow],
       out <- [w \in {"w"} |-> OutcomeOfWorker],
       cancel <- [e \in {"e"} |-> BlankRow], recovery <- << >>,
       faults <- IF Aborted THEN 1 ELSE 0,
       struck <- IF Aborted THEN {"e"} ELSE {},
       runs <- [e \in {"e"} |-> 1]

-----------------------------------------------------------------------------
(* Properties                                                              *)

\* The outcome is what became of the Job: the row says COMPLETED or blames the
\* handler only if the Job was seen to end that way, and TIMED_OUT only if the
\* timeout has passed.
OutcomeIsTrue ==
  /\ OutcomeOfWorker = "success" => seen = "succeeded"
  /\ OutcomeOfWorker = "handler_error" => seen = "failed"
  /\ OutcomeOfWorker = "timed_out" => seen \in {"none", "deadline"} /\ now >= Timeout
  /\ seen # "none" => job \in {seen, "gone"}

\* However its calls, its clocks and its cancellations interleave, for the
\* pipeline execute takes one step (worker.py:141-164): it returns once, with an
\* outcome that is true, or the job is aborted and nothing is reported.
OneStepOfThePipeline ==
  /\ PlaceOfWorker = "sandbox"
  /\ [][\/ P!SandboxEnds("w") /\ OutcomeIsTrue'
        \/ P!Abort("w")]_(P!vars)

=============================================================================
