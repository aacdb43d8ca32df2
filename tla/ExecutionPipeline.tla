-------------------------- MODULE ExecutionPipeline --------------------------
(***************************************************************************)
(* One execution's way through the platform: the API inserts a row and     *)
(* enqueues a job (api/routers/executions.py, invoke.py, ephemeral.py),    *)
(* a worker pops it, runs the sandbox and writes the result                *)
(* (worker/worker.py), the user cancels it, and the stale-recovery loop    *)
(* fails what no worker finished.  They share the executions table and two *)
(* Redis sorted sets (shared/queue/redis_client.py).                       *)
(*                                                                         *)
(* No query of the code takes a row lock, so each transaction is two       *)
(* steps, the SELECT and the COMMIT, and other transactions commit between *)
(* them.  The session flushes only the columns that differ from what it    *)
(* loaded; Flush is that rule.                                             *)
(***************************************************************************)
EXTENDS Naturals, FiniteSets

CONSTANTS
  Execs,        \* executions; the job of execution e is named e too
  Workers,      \* Worker coroutines, of any number of processes
  Recoverers,   \* stale-recovery loops, one in each worker process
  NoJob,        \* what an idle worker holds
  NoWorker,     \* worker_id of a row that nobody started
  MaxAttempts,  \* attempts of enqueue_job (3 of redis_retry in the code, and each
                \* is repeated when it times out: retry_on_timeout)
  MaxFaults,    \* bound on crashes and failed transactions, for TLC
  Cancellable,  \* executions whose user may cancel them
  Flaky,        \* executions whose ZADD may be applied and its reply lost
  Overrun       \* executions whose worker may outlive the stale deadline

ASSUME ConstantsAssumption ==
  /\ NoJob \notin Execs
  /\ NoWorker \notin Workers
  /\ MaxAttempts \in Nat \ {0}
  /\ MaxFaults \in Nat
  /\ Cancellable \subseteq Execs
  /\ Flaky \subseteq Execs
  /\ Overrun \subseteq Execs

VARIABLES
  row,          \* row[e]: the executions row, as committed
  queue,        \* sopm:queue, the jobs that wait
  processing,   \* sopm:processing, the jobs that were popped and not acked
  api,          \* api[e]: where the request that creates e stands
  tries,        \* tries[e]: attempts of enqueue_job that raised
  pc,           \* pc[w]: where worker w stands in _poll_once
  job,          \* job[w]: the job it holds
  seen,         \* seen[w]: the row its open transaction loaded
  out,          \* out[w]: the SandboxResult it has to report
  cancel,       \* cancel[e]: the row a cancel request has loaded
  recovery,     \* recovery[r][e]: the row recovery loop r has loaded
  faults,       \* number of faults so far
  struck,       \* history: executions that a fault has hit
  runs          \* runs[e]: history, how often the sandbox was started for e

vars == <<row, queue, processing, api, tries, pc, job, seen, out, cancel,
          recovery, faults, struck, runs>>

workerVars == <<pc, job, seen, out>>
history == <<faults, struck, runs>>

L == INSTANCE ExecutionLifecycle WITH status <- [e \in Execs |-> row[e].status]

Terminal == L!Terminal
CanMove(from, to) == L!CanMove(from, to)

Kinds == {"none", "queue", "infra", "handler"}
Outcomes == {"success", "timed_out", "handler_error", "infra_error"}

Row == [status : L!Status, kind : Kinds, completed_at : {"null", "set"},
        worker : Workers \cup {NoWorker}]

AbsentRow == [status |-> "ABSENT", kind |-> "none", completed_at |-> "null",
              worker |-> NoWorker]

\* The row as the trigger endpoints insert it.
NewRow == [AbsentRow EXCEPT !.status = "QUEUED"]

Exists(e) == row[e].status # "ABSENT"

\* A unit of work that loaded `old` and leaves the object as `new` writes the
\* columns that changed and only those.
Flush(current, old, new) ==
  [f \in DOMAIN current |-> IF new[f] # old[f] THEN new[f] ELSE current[f]]

\* What each writer leaves in the object it loaded as `old`.
EnqueueFailed(old) == [old EXCEPT !.status = "FAILED", !.kind = "queue"]
Cancelled(old) == [old EXCEPT !.status = "CANCELLED"]
Started(old, w) == [old EXCEPT !.status = "RUNNING", !.worker = w]
Recovered(old) ==
  [old EXCEPT !.status = "FAILED", !.kind = "infra", !.completed_at = "set"]

Holds(w, e) == pc[w] # "idle" /\ job[w] = e

\* Worker w has committed RUNNING for e and has not yet written the result.
Runs(w, e) == pc[w] \in {"sandbox", "ran", "writing"} /\ job[w] = e

-----------------------------------------------------------------------------
(* The API: create the row, commit, enqueue; on failure mark it FAILED.    *)

Init ==
  /\ row = [e \in Execs |-> AbsentRow]
  /\ queue = {}
  /\ processing = {}
  /\ api = [e \in Execs |-> "new"]
  /\ tries = [e \in Execs |-> 0]
  /\ pc = [w \in Workers |-> "idle"]
  /\ job = [w \in Workers |-> NoJob]
  /\ seen = [w \in Workers |-> AbsentRow]
  /\ out = [w \in Workers |-> "none"]
  /\ cancel = [e \in Execs |-> AbsentRow]
  /\ recovery = [r \in Recoverers |-> [e \in Execs |-> AbsentRow]]
  /\ faults = 0
  /\ struck = {}
  /\ runs = [e \in Execs |-> 0]

\* INSERT ... status QUEUED, committed before the job is enqueued.
Submit(e) ==
  /\ api[e] = "new"
  /\ api' = [api EXCEPT ![e] = "enqueue"]
  /\ row' = [row EXCEPT ![e] = NewRow]
  /\ UNCHANGED <<queue, processing, tries, workerVars, cancel, recovery, history>>

\* enqueue_job succeeds.
Enqueue(e) ==
  /\ api[e] = "enqueue"
  /\ api' = [api EXCEPT ![e] = "done"]
  /\ queue' = queue \cup {e}
  /\ UNCHANGED <<row, processing, tries, workerVars, cancel, recovery, history>>

\* Mutant: one attempt too many.
EnqueueRaisesOnceMore(e) ==
  /\ api[e] = "enqueue"
  /\ tries' = [tries EXCEPT ![e] = @ + 1]
  /\ api' = [api EXCEPT ![e] = IF tries[e] < MaxAttempts THEN "enqueue" ELSE "failed"]
  /\ UNCHANGED <<row, queue, processing, workerVars, cancel, recovery, history>>

\* An attempt raises; for a flaky execution Redis may have applied it.
\* redis_retry tries again until the attempts are used up.
EnqueueRaises(e) ==
  /\ api[e] = "enqueue"
  /\ tries' = [tries EXCEPT ![e] = @ + 1]
  /\ api' = [api EXCEPT ![e] = IF tries[e] + 1 < MaxAttempts THEN "enqueue" ELSE "failed"]
  /\ \/ queue' = queue
     \/ e \in Flaky /\ queue' = queue \cup {e}
  /\ UNCHANGED <<row, processing, workerVars, cancel, recovery, history>>

\* Mutant: the except branch forgets to commit.
EnqueueFailureForgotten(e) ==
  /\ api[e] = "failed"
  /\ api' = [api EXCEPT ![e] = "done"]
  /\ UNCHANGED <<row, queue, processing, tries, workerVars, cancel, recovery, history>>

\* The except branch: status FAILED and failure_kind "queue", set directly on
\* the object that was refreshed after the insert, then committed.
MarkEnqueueFailed(e) ==
  /\ api[e] = "failed"
  /\ api' = [api EXCEPT ![e] = "done"]
  /\ row' = [row EXCEPT ![e] = Flush(@, NewRow, EnqueueFailed(NewRow))]
  /\ UNCHANGED <<queue, processing, tries, workerVars, cancel, recovery, history>>

\* The API process dies, or the commit of the except branch raises.
ApiDies(e) ==
  /\ api[e] \in {"enqueue", "failed"}
  /\ faults < MaxFaults
  /\ api' = [api EXCEPT ![e] = "died"]
  /\ faults' = faults + 1
  /\ struck' = struck \cup {e}
  /\ UNCHANGED <<row, queue, processing, tries, workerVars, cancel, recovery, runs>>

-----------------------------------------------------------------------------
(* cancel_execution: load, transition_to(CANCELLED) or 409, commit when    *)
(* the request ends.  The job stays in the queue.                          *)

CancelLoad(e) ==
  /\ e \in Cancellable
  /\ cancel[e] = AbsentRow
  /\ CanMove(row[e].status, "CANCELLED")
  /\ cancel' = [cancel EXCEPT ![e] = row[e]]
  /\ UNCHANGED <<row, queue, processing, api, tries, workerVars, recovery, history>>

\* The commit raises or the request is dropped: rolled back.
CancelAborts(e) ==
  /\ cancel[e] # AbsentRow
  /\ faults < MaxFaults
  /\ faults' = faults + 1
  /\ cancel' = [cancel EXCEPT ![e] = AbsentRow]
  /\ UNCHANGED <<row, queue, processing, api, tries, workerVars, recovery, struck, runs>>

CancelCommit(e) ==
  /\ cancel[e] # AbsentRow
  /\ row' = [row EXCEPT ![e] = Flush(@, cancel[e], Cancelled(cancel[e]))]
  /\ cancel' = [cancel EXCEPT ![e] = AbsentRow]
  /\ UNCHANGED <<queue, processing, api, tries, workerVars, recovery, history>>

-----------------------------------------------------------------------------
(* The worker: _poll_once and _process_job.                                *)

Advance(w, to) == pc' = [pc EXCEPT ![w] = to]

GoIdle(w) ==
  /\ Advance(w, "idle")
  /\ job' = [job EXCEPT ![w] = NoJob]
  /\ seen' = [seen EXCEPT ![w] = AbsentRow]
  /\ out' = [out EXCEPT ![w] = "none"]

\* Mutant: the job is read but not removed (ZRANGE for BZPOPMIN).
Peek(w) ==
  /\ pc[w] = "idle"
  /\ \E e \in queue : job' = [job EXCEPT ![w] = e]
  /\ Advance(w, "popped")
  /\ UNCHANGED <<row, queue, processing, api, tries, seen, out, cancel, recovery, history>>

\* dequeue_job, first command: BZPOPMIN.  Which job has the least score is
\* left open: the score is the clock of the API host that enqueued it.
Pop(w) ==
  /\ pc[w] = "idle"
  /\ \E e \in queue : /\ queue' = queue \ {e}
                      /\ job' = [job EXCEPT ![w] = e]
  /\ Advance(w, "popped")
  /\ UNCHANGED <<row, processing, api, tries, seen, out, cancel, recovery, history>>

\* dequeue_job, second command: ZADD to the processing set.
Claim(w) ==
  /\ pc[w] = "popped"
  /\ processing' = processing \cup {job[w]}
  /\ Advance(w, "claimed")
  /\ UNCHANGED <<row, queue, api, tries, job, seen, out, cancel, recovery, history>>

\* Mutant: no check of the status.
LoadForStartUnchecked(w) ==
  /\ pc[w] = "claimed"
  /\ seen' = [seen EXCEPT ![w] = row[job[w]]]
  /\ Advance(w, "starting")
  /\ UNCHANGED <<row, queue, processing, api, tries, job, out, cancel, recovery, history>>

\* First transaction of _process_job, the SELECT and the checks: no row, a
\* CANCELLED row or one that cannot become RUNNING ends the job.
LoadForStart(w) ==
  /\ pc[w] = "claimed"
  /\ IF CanMove(row[job[w]].status, "RUNNING")
       THEN /\ seen' = [seen EXCEPT ![w] = row[job[w]]]
            /\ Advance(w, "starting")
       ELSE /\ Advance(w, "acking")
            /\ UNCHANGED seen
  /\ UNCHANGED <<row, queue, processing, api, tries, job, out, cancel, recovery, history>>

\* Mutant: worker_id is not set.
CommitStartAnonymously(w) ==
  /\ pc[w] = "starting"
  /\ row' = [row EXCEPT ![job[w]] = Flush(@, seen[w], Started(seen[w], NoWorker))]
  /\ runs' = [runs EXCEPT ![job[w]] = @ + 1]
  /\ seen' = [seen EXCEPT ![w] = AbsentRow]
  /\ Advance(w, "sandbox")
  /\ UNCHANGED <<queue, processing, api, tries, job, out, cancel, recovery, faults, struck>>

\* Its COMMIT; the sandbox starts next.
CommitStart(w) ==
  LET e == job[w] IN
  /\ pc[w] = "starting"
  /\ row' = [row EXCEPT ![e] = Flush(@, seen[w], Started(seen[w], w))]
  /\ runs' = [runs EXCEPT ![e] = @ + 1]
  /\ seen' = [seen EXCEPT ![w] = AbsentRow]
  /\ Advance(w, "sandbox")
  /\ UNCHANGED <<queue, processing, api, tries, job, out, cancel, recovery, faults, struck>>

\* sandbox.execute returns, raises, or wait_for gives up after timeout + 30.
SandboxEnds(w) ==
  /\ pc[w] = "sandbox"
  /\ \E o \in Outcomes : out' = [out EXCEPT ![w] = o]
  /\ Advance(w, "ran")
  /\ UNCHANGED <<row, queue, processing, api, tries, job, seen, cancel, recovery, history>>

\* Second transaction, the SELECT.
LoadForFinish(w) ==
  /\ pc[w] = "ran"
  /\ IF Exists(job[w])
       THEN /\ seen' = [seen EXCEPT ![w] = row[job[w]]]
            /\ Advance(w, "writing")
       ELSE /\ Advance(w, "acking")
            /\ UNCHANGED seen
  /\ UNCHANGED <<row, queue, processing, api, tries, job, out, cancel, recovery, history>>

NewStatus(o) == IF o = "success" THEN "COMPLETED"
                ELSE IF o = "timed_out" THEN "TIMED_OUT" ELSE "FAILED"

\* Mutant: the last branch is missing.
InfraOnly(o) == IF o = "infra_error" THEN "infra" ELSE "none"

FailureKind(o) == IF o = "success" THEN "none"
                  ELSE IF o = "infra_error" THEN "infra" ELSE "handler"

\* What _process_job leaves in the object: the status moves only if the table
\* allows it (ValueError is swallowed), the other columns are set regardless.
Reported(old, o) ==
  [old EXCEPT !.status = IF CanMove(@, NewStatus(o)) THEN NewStatus(o) ELSE @,
              !.kind   = FailureKind(o),
              !.completed_at = "set"]

\* Second transaction, the COMMIT.
CommitFinish(w) ==
  LET e == job[w] IN
  /\ pc[w] = "writing"
  /\ row' = [row EXCEPT ![e] = Flush(@, seen[w], Reported(seen[w], out[w]))]
  /\ seen' = [seen EXCEPT ![w] = AbsentRow]
  /\ Advance(w, "acking")
  /\ UNCHANGED <<queue, processing, api, tries, job, out, cancel, recovery, history>>

\* Mutant: only a success is acked.
AckOnSuccess(w) ==
  /\ pc[w] = "acking"
  /\ processing' = IF out[w] = "success" THEN processing \ {job[w]} ELSE processing
  /\ GoIdle(w)
  /\ UNCHANGED <<row, queue, api, tries, cancel, recovery, history>>

\* ack_job
Ack(w) ==
  /\ pc[w] = "acking"
  /\ processing' = processing \ {job[w]}
  /\ GoIdle(w)
  /\ UNCHANGED <<row, queue, api, tries, cancel, recovery, history>>

\* Anything that makes the worker drop its job without acking it: the process
\* dies, the shutdown timeout cancels the task, the ZADD of dequeue_job fails
\* and its retry pops another job, or Redis or the database raises.
Abort(w) ==
  /\ pc[w] # "idle"
  /\ faults < MaxFaults
  /\ faults' = faults + 1
  /\ struck' = struck \cup {job[w]}
  /\ GoIdle(w)
  /\ UNCHANGED <<row, queue, processing, api, tries, cancel, recovery, runs>>

-----------------------------------------------------------------------------
(* _recover_stale_running_executions: one transaction over all stale rows. *)

NothingLoaded == [e \in Execs |-> AbsentRow]

\* Mutants: the age is not compared, or compared the wrong way round.
StaleAtAnyAge(e) == row[e].status = "RUNNING" /\ row[e].worker # NoWorker
StaleIfYoung(e) == StaleAtAnyAge(e) /\ \E w \in Workers : Runs(w, e)

\* started_at is older than 2 * timeout + grace.  A worker reports within
\* timeout + 30 seconds, so the age implies that no worker still runs e,
\* unless e overruns.
MayBeStale(e) ==
  /\ row[e].status = "RUNNING"
  /\ row[e].worker # NoWorker
  /\ e \in Overrun \/ \A w \in Workers : ~Runs(w, e)

RecoverLoad(r, S) ==
  /\ recovery[r] = NothingLoaded
  /\ S # {}
  /\ \A e \in S : MayBeStale(e)
  /\ recovery' = [recovery EXCEPT ![r] = [e \in Execs |-> IF e \in S THEN row[e] ELSE AbsentRow]]
  /\ UNCHANGED <<row, queue, processing, api, tries, workerVars, cancel, history>>

RecoverCommit(r) ==
  /\ recovery[r] # NothingLoaded
  /\ row' = [e \in Execs |->
               LET old == recovery[r][e] IN
               IF old = AbsentRow THEN row[e] ELSE Flush(row[e], old, Recovered(old))]
  /\ recovery' = [recovery EXCEPT ![r] = NothingLoaded]
  /\ UNCHANGED <<queue, processing, api, tries, workerVars, cancel, history>>

\* The process dies or the commit raises: the transaction is rolled back.
RecoverAborts(r) ==
  /\ recovery[r] # NothingLoaded
  /\ faults < MaxFaults
  /\ faults' = faults + 1
  /\ recovery' = [recovery EXCEPT ![r] = NothingLoaded]
  /\ UNCHANGED <<row, queue, processing, api, tries, workerVars, cancel, struck, runs>>

-----------------------------------------------------------------------------

ApiNext(e) == Submit(e) \/ Enqueue(e) \/ EnqueueRaises(e) \/ MarkEnqueueFailed(e) \/ ApiDies(e)

CancelNext(e) == CancelLoad(e) \/ CancelCommit(e) \/ CancelAborts(e)

WorkerStep(w) == \/ Pop(w) \/ Claim(w) \/ LoadForStart(w) \/ CommitStart(w)
                 \/ SandboxEnds(w) \/ LoadForFinish(w) \/ CommitFinish(w) \/ Ack(w)

RecoveryNext(r) == \/ \E S \in SUBSET Execs : RecoverLoad(r, S)
                   \/ RecoverCommit(r) \/ RecoverAborts(r)

\* All requests have been served and everybody waits: workers block in
\* BZPOPMIN, the recovery loops sleep.
Quiescent ==
  /\ \A e \in Execs : api[e] \in {"done", "died"} /\ cancel[e] = AbsentRow
  /\ \A w \in Workers : pc[w] = "idle"
  /\ queue = {}
  /\ UNCHANGED vars

Next == \/ \E e \in Execs : ApiNext(e) \/ CancelNext(e)
        \/ \E w \in Workers : WorkerStep(w) \/ Abort(w)
        \/ \E r \in Recoverers : RecoveryNext(r)
        \/ Quiescent

Spec == Init /\ [][Next]_vars

\* The event loops run every ready coroutine: a started request goes on, a
\* worker takes its next step, the recovery loop wakes every interval and
\* selects every stale row.  Faults and cancellations are never owed.
Fairness ==
  /\ \A e \in Execs : WF_vars(Enqueue(e)) /\ WF_vars(MarkEnqueueFailed(e))
  /\ \A w \in Workers : WF_vars(WorkerStep(w))
  /\ \A r \in Recoverers :
       /\ WF_vars(RecoverCommit(r))
       /\ \A e \in Execs : WF_vars(\E S \in SUBSET Execs : e \in S /\ RecoverLoad(r, S))

FairSpec == Spec /\ Fairness

-----------------------------------------------------------------------------
(* Properties.                                                             *)

TypeOK ==
  /\ row \in [Execs -> Row]
  /\ queue \subseteq Execs
  /\ processing \subseteq Execs
  /\ api \in [Execs -> {"new", "enqueue", "failed", "done", "died"}]
  /\ tries \in [Execs -> 0 .. MaxAttempts]
  /\ pc \in [Workers -> {"idle", "popped", "claimed", "starting", "sandbox",
                         "ran", "writing", "acking"}]
  /\ job \in [Workers -> Execs \cup {NoJob}]
  /\ seen \in [Workers -> Row]
  /\ out \in [Workers -> Outcomes \cup {"none"}]
  /\ cancel \in [Execs -> Row]
  /\ recovery \in [Recoverers -> [Execs -> Row]]
  /\ faults \in 0 .. MaxFaults
  /\ struck \subseteq Execs
  /\ runs \in [Execs -> Nat]

Calm == Execs \ (Cancellable \cup Flaky \cup Overrun)

\* The sandbox is started at most once for an execution whose enqueue was not
\* applied with its reply lost, whatever crashes, is cancelled or overruns:
\* dequeue_job pops a job once and nothing puts it back.
RunsAtMostOnce == \A e \in Execs \ Flaky : runs[e] <= 1

\* No worker has decided about e yet: its job is still to come, waits in the
\* queue, or is held by a worker that has not committed RUNNING.
Undecided(e) ==
  \/ api[e] \in {"new", "enqueue"}
  \/ e \in queue
  \/ \E w \in Workers : pc[w] \in {"popped", "claimed", "starting"} /\ job[w] = e

\* Who has custody of the job of an execution that is not flaky.  The job is in
\* the queue or with one worker, never both and never with two; while nobody
\* has decided about it the sandbox has not been started and the row is not
\* past QUEUED, and a RUNNING row, also one that recovery has loaded, was
\* started once.  This is the inductive strengthening of RunsAtMostOnce.
CustodyOf(e) ==
  /\ e \in queue \/ (\E w \in Workers : Holds(w, e)) => api[e] = "done"
  /\ e \in queue => \A w \in Workers : ~Holds(w, e)
  /\ \A v, w \in Workers : Holds(v, e) /\ Holds(w, e) => v = w
  /\ Undecided(e) => runs[e] = 0 /\ row[e].status \in {"ABSENT", "QUEUED", "CANCELLED"}
  /\ row[e].status = "RUNNING" => runs[e] # 0
  /\ \A r \in Recoverers : recovery[r][e] # AbsentRow => runs[e] # 0
  /\ runs[e] <= 1

Custody == \A e \in Execs \ Flaky : CustodyOf(e)

\* The workers that hold the job of e and have not decided about it.
Deciders(e) == {w \in Workers : pc[w] \in {"popped", "claimed", "starting"} /\ job[w] = e}

\* The job of e as often as it waits, is held undecided, and has been started.
Jobs(e) == runs[e] + Cardinality(Deciders(e)) + (IF e \in queue THEN 1 ELSE 0)

\* A job is never multiplied, however it is sent, popped and raced over: there
\* are no more of it than enqueue_job may have stored, which is one, or one for
\* each attempt when replies are lost.  So the sandbox starts no more often.
JobsAreCounted ==
  \A e \in Execs : Jobs(e) <= IF e \in Flaky THEN MaxAttempts ELSE 1

\* As long as no fault has hit it, a QUEUED execution is on its way: its
\* request is still enqueueing it, it waits in the queue, or a worker that has
\* not decided about it yet holds it.
QueuedIsOnItsWay ==
  \A e \in Execs \ struck : row[e].status = "QUEUED" =>
    \/ api[e] \in {"enqueue", "failed"}
    \/ e \in queue
    \/ \E w \in Workers : pc[w] \in {"popped", "claimed", "starting"} /\ job[w] = e

\* As long as no fault has hit it, a RUNNING execution is being run, and by the
\* worker whose worker_id its row shows, also when its job was enqueued twice.
RunningIsBeingRun ==
  \A e \in Execs \ struck : row[e].status = "RUNNING" =>
    \E w \in Workers : Runs(w, e) /\ row[e].worker = w

\* A job stays in the processing set only while a worker holds it, unless that
\* worker dropped it: ack_job leaks nothing else.
ProcessingIsHeld ==
  \A e \in processing \ struck : \E w \in Workers : Holds(w, e)

\* Unless a fault hits it, an execution is never left to itself: between the
\* row, the two sets of Redis and the locals of the workers, which no
\* transaction ties together, somebody is always going to deal with it.
InGoodHands == QueuedIsOnItsWay /\ RunningIsBeingRun /\ ProcessingIsHeld

\* The failure_kind and completed_at that go with each status.
VerdictOf(e) ==
  LET v == <<row[e].kind, row[e].completed_at>> IN
  /\ row[e].status \in {"QUEUED", "RUNNING"} => v = <<"none", "null">>
  /\ row[e].status = "COMPLETED" => v = <<"none", "set">>
  /\ row[e].status = "TIMED_OUT" => v = <<"handler", "set">>
  /\ row[e].status = "FAILED" =>
       v \in {<<"queue", "null">>, <<"infra", "set">>, <<"handler", "set">>}

\* status, failure_kind and completed_at of a committed row tell one story,
\* although the unit of work writes them column by column and cancellations
\* commit in between.
VerdictAgrees == \A e \in Execs \ (Flaky \cup Overrun) : VerdictOf(e)

\* A finished execution is never set RUNNING again; only a cancelled one can
\* be, by a worker that had loaded the row before the cancellation.
NeverRevived ==
  [][\A e \in Execs \ Flaky :
       row[e].status \in {"COMPLETED", "FAILED", "TIMED_OUT"} => row'[e].status # "RUNNING"]_vars

\* A committed cancellation is undone only by a transaction that had loaded the
\* row before it, or by the except branch of a failed enqueue: once every open
\* transaction has seen it, it stands.
CancellationSticks ==
  [][\A e \in Execs :
       /\ row[e].status = "CANCELLED"
       /\ \A w \in Workers :
            job[w] = e /\ pc[w] \in {"starting", "writing"} => seen[w].status = "CANCELLED"
       /\ \A r \in Recoverers : recovery[r][e].status \in {"ABSENT", "CANCELLED"}
       /\ api[e] # "failed"
       => row'[e].status = "CANCELLED"]_vars

\* Where no cancellation, lost reply or overrun interferes, the row follows the
\* state machine of shared/db/models.py, crashes and failed enqueues included.
C == INSTANCE ExecutionLifecycle
       WITH Execs <- Calm, status <- [e \in Calm |-> row[e].status]

CalmLifecycle == C!Spec

\* Every submitted execution ends in a terminal status for good, unless a fault
\* hits it; a fault that hits another one does not delay it for ever.
EverySubmissionSettles ==
  \A e \in Execs : Exists(e) ~> e \in struck \/ [](row[e].status \in Terminal)

\* Whatever fails, an execution does not stay RUNNING: its worker reports or
\* the recovery loop fails it.
RunningSettles ==
  \A e \in Execs : row[e].status = "RUNNING" ~> [](row[e].status \in Terminal)
=============================================================================
