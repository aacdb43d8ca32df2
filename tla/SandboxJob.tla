------------------------------ MODULE SandboxJob ------------------------------
(***************************************************************************)
(* One execution in Kubernetes (sandbox/k8s_sandbox.py), called by         *)
(* worker/worker.py under asyncio.wait_for.                                *)
(*                                                                         *)
(* Three clocks may end it: activeDeadlineSeconds of the Job, the limit of *)
(* the poll loop, PollSlack later, and the worker's wait_for, WorkerSlack  *)
(* later than the timeout.  (The alarm of the runner starts inside the     *)
(* pod, after the Job, with the same timeout: it is never the first.)      *)
(* They start at different moments, and every call of the API takes its    *)
(* time.  Calls run in threads of an executor: a cancellation stops the    *)
(* coroutine that waits for the call, and never the call.                  *)
(*                                                                         *)
(* The clock counts in units that are long against the poll interval of    *)
(* 0.25 s and against a call that nobody would call slow.  The control     *)
(* plane of Kubernetes is external and modelled from how it is used.       *)
(***************************************************************************)
EXTENDS Naturals

CONSTANTS
  Timeout,      \* job_spec["timeout"]
  PollSlack,    \* the 10 s of _wait_for_job
  WorkerSlack,  \* the 30 s of _process_job
  TTL,          \* ttl_seconds_after_finished
  MaxStalls,    \* bound on units spent waiting for an answer of the API
  MaxLate       \* bound on units by which the control plane is late

ASSUME SandboxAssumption ==
  /\ Timeout \in Nat
  /\ PollSlack \in Nat
  /\ WorkerSlack \in Nat
  /\ TTL \in Nat
  /\ MaxStalls \in Nat
  /\ MaxLate \in Nat
  /\ PollSlack <= WorkerSlack

VARIABLES
  now,         \* time since execute was called
  step,        \* where execute stands
  pollFrom,    \* when _wait_for_job was entered
  seen,        \* how the Job had ended when it was polled
  verdict,     \* what _process_job is told
  create,      \* the call that creates the Job
  delete,      \* the call that deletes it
  job,         \* how the Job stands
  start,       \* when it was started
  end,         \* when it ended
  stalls,      \* history: units spent waiting for an answer of the API
  late,        \* history: units by which the control plane was late
  excuses      \* history: "overtaken" if execute was abandoned while the Job was
               \* being created, "undeleted" if no deletion was made in the end

worker == <<step, pollFrom, seen, verdict>>
theJob == <<job, start, end>>
cluster == <<create, delete, theJob>>
vars == <<now, worker, cluster, stalls, late, excuses>>

Steps == {"check", "create", "poll", "logs", "delete", "over", "dead"}

Ended == {"succeeded", "failed", "deadline"}

Verdicts == {"none", "success", "failed", "timed_out", "poll_timeout",
             "infra", "worker_timeout"}

\* The coroutine is at an await and can be cancelled there.
Executing == step \in {"check", "create", "poll", "logs", "delete"}

\* Mutant: the loop gives up when the Job may just be ending.
PollDeadlineTight == pollFrom + Timeout

PollDeadline == pollFrom + Timeout + PollSlack

WorkerDeadline == Timeout + WorkerSlack

Init ==
  /\ now = 0
  /\ step = "check"
  /\ pollFrom = 0
  /\ seen = "none"
  /\ verdict = "none"
  /\ create = "none"
  /\ delete = "none"
  /\ job = "absent"
  /\ start = 0
  /\ end = 0
  /\ stalls = 0
  /\ late = 0
  /\ excuses = {}

-----------------------------------------------------------------------------
(* execute                                                                 *)

\* The finally clause: the deletion is sent, and awaited.
Cleanup(v) ==
  /\ step' = "delete"
  /\ delete' = "sent"
  /\ verdict' = v

\* The gVisor RuntimeClass is registered, or has been seen to be; otherwise the
\* call raises.  Then _create_job is sent.
EnsureRuntimeClass ==
  /\ step = "check"
  /\ step' = "create"
  /\ create' = "sent"
  /\ UNCHANGED <<now, pollFrom, seen, verdict, delete, theJob, stalls, late, excuses>>

\* The Job is created and the answer arrives, if anybody waits for it.
CreateReturns ==
  /\ step = "create"
  /\ create = "done"
  /\ step' = "poll"
  /\ pollFrom' = now
  /\ UNCHANGED <<now, seen, verdict, cluster, stalls, late, excuses>>

Overtaken == IF create = "sent" THEN {"overtaken"} ELSE {}

\* A call fails, or the RuntimeClass is missing: an ApiException is turned into
\* a result, any other exception reaches _process_job, and both are reported as
\* infra.  A failed creation may have been applied, or may be applied later.
CallRaises ==
  /\ step \in {"check", "create", "poll"}
  /\ Cleanup("infra")
  /\ excuses' = excuses \cup Overtaken
  /\ UNCHANGED <<now, pollFrom, seen, create, theJob, stalls, late>>

\* Mutant: whatever did not succeed has failed.
PollSeesSuccessOrFailure ==
  /\ step = "poll"
  /\ job \in Ended
  /\ seen' = IF job = "succeeded" THEN "succeeded" ELSE "failed"
  /\ step' = "logs"
  /\ UNCHANGED <<now, pollFrom, verdict, cluster, stalls, late, excuses>>

\* One turn of _wait_for_job that finds the Job ended: a poll that was sent before
\* the deadline may be answered after it.
PollSeesEnd ==
  /\ step = "poll"
  /\ job \in Ended
  /\ seen' = job
  /\ step' = "logs"
  /\ UNCHANGED <<now, pollFrom, verdict, cluster, stalls, late, excuses>>

\* The Job is not there any more: 404, an ApiException.
PollSeesNothing ==
  /\ step = "poll"
  /\ job = "gone"
  /\ Cleanup("infra")
  /\ UNCHANGED <<now, pollFrom, seen, create, theJob, stalls, late, excuses>>

PollGivesUp ==
  /\ step = "poll"
  /\ now >= PollDeadline
  /\ Cleanup("poll_timeout")
  /\ UNCHANGED <<now, pollFrom, seen, create, theJob, stalls, late, excuses>>

\* The condition DeadlineExceeded makes it a timeout; the other reasons differ
\* in their wording.
Classified ==
  IF seen = "succeeded" THEN "success"
  ELSE IF seen = "deadline" THEN "timed_out" ELSE "failed"

\* The logs and the pods are fetched; a failure of either is swallowed.
LogsFetched ==
  /\ step = "logs"
  /\ Cleanup(Classified)
  /\ UNCHANGED <<now, pollFrom, seen, create, theJob, stalls, late, excuses>>

\* The deletion has been answered, or has failed, which is logged.
CleanupEnds ==
  /\ step = "delete"
  /\ \/ delete = "done" /\ UNCHANGED <<delete, excuses>>
     \/ delete = "sent" /\ delete' = "none" /\ excuses' = excuses \cup {"undeleted"}
  /\ step' = "over"
  /\ UNCHANGED <<now, pollFrom, seen, verdict, create, theJob,
                 stalls, late>>

\* Mutant: the Job of an abandoned execution is left to itself.
AbandonedAtOnce(v) ==
  /\ step' = "over" /\ verdict' = v
  /\ excuses' = excuses \cup Overtaken
  /\ UNCHANGED <<now, pollFrom, seen, delete, create, theJob, stalls, late>>

\* CancelledError at the await where execute stands: the finally clause runs,
\* unless it is the finally clause that is abandoned.
Abandoned(v) ==
  /\ IF step = "delete"
     THEN step' = "over" /\ verdict' = v /\ UNCHANGED delete
     ELSE Cleanup(v)
  /\ excuses' = excuses \cup Overtaken
  /\ UNCHANGED <<now, pollFrom, seen, create, theJob, stalls, late>>

\* asyncio.wait_for raises TimeoutError in _process_job, once: a result that was
\* found before and is not returned yet is lost.
WaitForExpires ==
  /\ Executing
  /\ verdict # "worker_timeout"
  /\ now >= WorkerDeadline
  /\ Abandoned("worker_timeout")

\* run_workers cancels the tasks that outlast the grace of a shutdown; nothing
\* is reported for the execution.
Shutdown ==
  /\ Executing
  /\ Abandoned("none")

\* The worker process dies; calls that were sent may still arrive.
WorkerDies ==
  /\ Executing
  /\ step' = "dead"
  /\ excuses' = excuses \cup {"undeleted"}
  /\ UNCHANGED <<now, pollFrom, seen, verdict, cluster, stalls, late>>

-----------------------------------------------------------------------------
(* Kubernetes                                                              *)

\* The Job of _create_job: one pod that is never restarted, a deadline and a TTL.
CreateApplies ==
  /\ create = "sent"
  /\ create' = "done"
  /\ job' = "created"
  /\ UNCHANGED <<start, end, now, worker, delete, stalls, late, excuses>>

\* The call never reaches the API.
CreateIsLost ==
  /\ create = "sent"
  /\ step # "create"
  /\ create' = "none"
  /\ UNCHANGED <<now, worker, delete, theJob, stalls, late, excuses>>

\* A Job that does not exist (yet) is answered with 404.
DeleteApplies ==
  /\ delete = "sent"
  /\ delete' = "done"
  /\ job' = IF job = "absent" THEN "absent" ELSE "gone"
  /\ UNCHANGED <<start, end, now, worker, create, stalls, late, excuses>>

\* Nobody waits for the answer any more: the future of the executor was cancelled
\* before its thread began, or the call fails, or the worker died with it.
DeleteIsLost ==
  /\ delete = "sent"
  /\ step # "delete"
  /\ delete' = "none"
  /\ excuses' = excuses \cup {"undeleted"}
  /\ UNCHANGED <<now, worker, create, theJob, stalls, late>>

\* The controller takes the Job up and starts its pod.
JobStarts ==
  /\ job = "created"
  /\ job' = "running"
  /\ start' = now
  /\ UNCHANGED <<end, now, worker, create, delete, stalls, late, excuses>>

JobEnds(as) ==
  /\ job = "running"
  /\ job' = as
  /\ end' = now
  /\ UNCHANGED <<start, now, worker, create, delete, stalls, late, excuses>>

\* The runner ends the pod within the deadline, or the pod is killed.
PodEnds == now <= start + Timeout /\ (JobEnds("succeeded") \/ JobEnds("failed"))

DeadlineExceeded == now >= start + Timeout /\ JobEnds("deadline")

\* Mutant: the Job is created without ttl_seconds_after_finished.
ExpiresNever ==
  /\ FALSE
  /\ UNCHANGED vars

\* Jobs are removed a while after they have ended.
Expires ==
  /\ job \in Ended
  /\ now >= end + TTL
  /\ job' = "gone"
  /\ UNCHANGED <<start, end, now, worker, create, delete, stalls, late, excuses>>

-----------------------------------------------------------------------------
(* Time                                                                    *)

\* The coroutine waits for an answer, and is not merely asleep between polls.
Stalling ==
  \/ step \in {"check", "create", "logs", "delete"}
  \/ step = "poll" /\ (job \in Ended \cup {"gone"} \/ now >= PollDeadline)

\* The control plane could have acted and has not.
Late ==
  \/ job = "created"
  \/ job = "running" /\ now >= start + Timeout

\* The event loop is prompt in firing the timer of wait_for, and the TTL is kept.
Tick ==
  /\ Executing \/ job \notin {"absent", "gone"}
  /\ Executing /\ verdict # "worker_timeout" => now < WorkerDeadline
  /\ job \in Ended => now < end + TTL
  /\ now' = now + 1
  /\ stalls' = IF Stalling THEN stalls + 1 ELSE stalls
  /\ late' = IF Late THEN late + 1 ELSE late
  /\ stalls' <= MaxStalls
  /\ late' <= MaxLate
  /\ UNCHANGED <<worker, cluster, excuses>>

Coroutine ==
  \/ EnsureRuntimeClass \/ CreateReturns \/ CallRaises
  \/ PollSeesEnd \/ PollSeesNothing \/ PollGivesUp
  \/ LogsFetched \/ CleanupEnds \/ WaitForExpires

Calls == CreateApplies \/ CreateIsLost \/ DeleteApplies \/ DeleteIsLost

Controller == JobStarts \/ DeadlineExceeded \/ Expires

Next ==
  \/ Coroutine \/ Shutdown \/ WorkerDies
  \/ Calls \/ Controller \/ PodEnds
  \/ Tick

Spec == Init /\ [][Next]_vars

\* The event loop runs what is ready, a call that was sent is applied or lost,
\* the controller of Kubernetes acts, and time passes.
FairSpec ==
  Spec /\ WF_vars(Coroutine) /\ WF_vars(Calls) /\ WF_vars(Controller) /\ WF_vars(Tick)

-----------------------------------------------------------------------------
(* Properties                                                              *)

\* The state is well formed: a verdict that tells how the Job ended has seen it
\* end, and what was seen did happen.
TypeOK ==
  /\ now \in Nat
  /\ step \in Steps
  /\ pollFrom \in Nat
  /\ seen \in {"none"} \cup Ended
  /\ verdict \in Verdicts
  /\ create \in {"none", "sent", "done"}
  /\ delete \in {"none", "sent", "done"}
  /\ job \in {"absent", "created", "running", "gone"} \cup Ended
  /\ start \in Nat
  /\ end \in Nat
  /\ stalls \in Nat
  /\ late \in Nat
  /\ excuses \subseteq {"overtaken", "undeleted"}
  /\ seen # "none" => job = seen \/ job = "gone"
  /\ verdict \in {"success", "failed", "timed_out"} => seen # "none" /\ verdict = Classified

\* The clocks are nested: the poll loop gives up only if the control plane and
\* the API together were late by its slack (k8s_sandbox.py:290), and the worker
\* times out only if it has waited for answers of the API for as long as it
\* grants more than the loop (worker.py:144).  Otherwise the Job decides.
InnermostClockDecides ==
  /\ verdict = "poll_timeout" => stalls + late >= PollSlack
  /\ verdict = "worker_timeout" => stalls + PollSlack >= WorkerSlack

\* When execute is over its Job has been deleted or is about to be, unless the
\* deletion failed or was never made, the worker died, or the call that creates the Job was still
\* under way when execute was abandoned and has overtaken the deletion
\* (k8s_sandbox.py:98-103).
NoJobLeft ==
  step = "over" /\ job \notin {"absent", "gone"} =>
    excuses # {} \/ delete = "sent"

\* Whatever happens to the worker, to the calls it sent and to the clocks, a Job
\* that was created is gone in the end: deleted, or ended by its deadline and
\* removed by its TTL (k8s_sandbox.py:271-272).
JobGoesAway == job \notin {"absent", "gone"} ~> job = "gone"

=============================================================================
