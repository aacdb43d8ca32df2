----------------------- MODULE ExecutionPipelineProofs -----------------------
(***************************************************************************)
(* Proofs about ExecutionPipeline, for any sets of executions, workers and *)
(* recovery loops and any number of attempts and faults.                   *)
(***************************************************************************)
EXTENDS ExecutionPipeline, FiniteSetTheorems, TLAPS

\* A request that still has an attempt left has used fewer than it may.
AttemptLeft == \A e \in Execs : api[e] \in {"new", "enqueue"} => tries[e] < MaxAttempts

\* A worker that is not idle holds the job of some execution.
HoldsJob == \A w \in Workers : pc[w] # "idle" => job[w] \in Execs

TypeInv == TypeOK /\ AttemptLeft /\ HoldsJob

-----------------------------------------------------------------------------
(* The unit of work.                                                       *)

\* Writing the changed columns of a row over another row gives a row.
LEMMA FlushIsRow ==
  ASSUME NEW current \in Row, NEW old \in Row, NEW new \in Row
  PROVE  Flush(current, old, new) \in Row
BY DEF Flush, Row

\* Each column is the new value if the unit of work changed it, and otherwise
\* what is committed.
LEMMA FlushColumns ==
  ASSUME NEW current \in Row, NEW old \in Row, NEW new \in Row
  PROVE  /\ Flush(current, old, new).status =
              IF new.status # old.status THEN new.status ELSE current.status
         /\ Flush(current, old, new).kind =
              IF new.kind # old.kind THEN new.kind ELSE current.kind
         /\ Flush(current, old, new).completed_at =
              IF new.completed_at # old.completed_at THEN new.completed_at
              ELSE current.completed_at
         /\ Flush(current, old, new).worker =
              IF new.worker # old.worker THEN new.worker ELSE current.worker
BY DEF Flush, Row

LEMMA FlushStatus ==
  ASSUME NEW current \in Row, NEW old \in Row, NEW new \in Row
  PROVE  Flush(current, old, new).status =
           IF new.status # old.status THEN new.status ELSE current.status
BY FlushColumns

\* The rows the code builds are rows.
LEMMA BuiltRows ==
  /\ AbsentRow \in Row
  /\ NewRow \in Row
  /\ EnqueueFailed(NewRow) \in Row
BY DEF AbsentRow, NewRow, EnqueueFailed, Row, Kinds, L!Status, L!Terminal

LEMMA EditedRows ==
  ASSUME NEW r \in Row
  PROVE  /\ Cancelled(r) \in Row
         /\ Recovered(r) \in Row
         /\ \A w \in Workers : Started(r, w) \in Row
         /\ \A o \in Outcomes \cup {"none"} : Reported(r, o) \in Row
<1>1. /\ Cancelled(r) \in Row
      /\ Recovered(r) \in Row
      /\ \A w \in Workers : Started(r, w) \in Row
  BY DEF Cancelled, Recovered, Started, Row, Kinds, L!Status, L!Terminal
<1>2. ASSUME NEW o \in Outcomes \cup {"none"}
      PROVE  Reported(r, o) \in Row
  <2>1. NewStatus(o) \in L!Status /\ FailureKind(o) \in Kinds
    BY DEF NewStatus, FailureKind, L!Status, L!Terminal, Kinds
  <2>2. QED
    BY <2>1 DEF Reported, Row
<1>3. QED
  BY <1>1, <1>2

-----------------------------------------------------------------------------
(* Type correctness.                                                       *)

LEMMA TypeInit == Init => TypeInv
<1>1. SUFFICES ASSUME Init PROVE TypeInv
  OBVIOUS
<1>2. QED
  BY <1>1, BuiltRows, ConstantsAssumption DEF Init, TypeInv, TypeOK, AttemptLeft, HoldsJob

LEMMA TypeApi ==
  ASSUME TypeInv, NEW e \in Execs, ApiNext(e)
  PROVE  TypeInv'
<1> USE DEF TypeInv, TypeOK, AttemptLeft, HoldsJob, workerVars, history
<1>1. CASE Submit(e)
  BY <1>1, BuiltRows DEF Submit
<1>2. CASE Enqueue(e)
  BY <1>2 DEF Enqueue
<1>3. CASE EnqueueRaises(e)
  <2>1. tries[e] + 1 \in 0 .. MaxAttempts
    BY <1>3, ConstantsAssumption DEF EnqueueRaises
  <2>2. QED
    BY <1>3, <2>1, ConstantsAssumption DEF EnqueueRaises
<1>4. CASE MarkEnqueueFailed(e)
  <2>1. row'[e] \in Row
    BY <1>4, BuiltRows, FlushIsRow DEF MarkEnqueueFailed
  <2>2. QED
    BY <1>4, <2>1 DEF MarkEnqueueFailed
<1>5. CASE ApiDies(e)
  BY <1>5, ConstantsAssumption DEF ApiDies
<1>6. QED
  BY <1>1, <1>2, <1>3, <1>4, <1>5 DEF ApiNext

LEMMA TypeCancel ==
  ASSUME TypeInv, NEW e \in Execs, CancelNext(e)
  PROVE  TypeInv'
<1> USE DEF TypeInv, TypeOK, AttemptLeft, HoldsJob, workerVars, history
<1>1. CASE CancelLoad(e)
  BY <1>1 DEF CancelLoad
<1>2. CASE CancelCommit(e)
  <2>1. row'[e] \in Row
    BY <1>2, EditedRows, FlushIsRow DEF CancelCommit
  <2>2. QED
    BY <1>2, <2>1, BuiltRows DEF CancelCommit
<1>3. CASE CancelAborts(e)
  BY <1>3, BuiltRows, ConstantsAssumption DEF CancelAborts
<1>4. QED
  BY <1>1, <1>2, <1>3 DEF CancelNext

LEMMA TypeWorker ==
  ASSUME TypeInv, NEW w \in Workers, WorkerStep(w) \/ Abort(w)
  PROVE  TypeInv'
<1> USE DEF TypeInv, TypeOK, AttemptLeft, HoldsJob, workerVars, history, Advance
<1>1. CASE Pop(w)
  BY <1>1 DEF Pop
<1>2. CASE Claim(w)
  BY <1>2 DEF Claim
<1>3. CASE LoadForStart(w)
  BY <1>3 DEF LoadForStart
<1>4. CASE CommitStart(w)
  <2> DEFINE e == job[w]
  <2>1. e \in Execs
    BY <1>4 DEF CommitStart
  <2>2. row'[e] \in Row
    BY <1>4, <2>1, EditedRows, FlushIsRow DEF CommitStart
  <2>3. row' \in [Execs -> Row]
    BY <1>4, <2>1, <2>2 DEF CommitStart
  <2>4. QED
    BY <1>4, <2>1, <2>3, BuiltRows DEF CommitStart
<1>5. CASE SandboxEnds(w)
  BY <1>5 DEF SandboxEnds
<1>6. CASE LoadForFinish(w)
  BY <1>6 DEF LoadForFinish
<1>7. CASE CommitFinish(w)
  <2> DEFINE e == job[w]
  <2>1. e \in Execs
    BY <1>7 DEF CommitFinish
  <2>2. row'[e] \in Row
    BY <1>7, <2>1, EditedRows, FlushIsRow DEF CommitFinish
  <2>3. row' \in [Execs -> Row]
    BY <1>7, <2>1, <2>2 DEF CommitFinish
  <2>4. QED
    BY <1>7, <2>1, <2>3, BuiltRows DEF CommitFinish
<1>8. CASE Ack(w)
  BY <1>8, BuiltRows DEF Ack, GoIdle
<1>9. CASE Abort(w)
  BY <1>9, BuiltRows, ConstantsAssumption DEF Abort, GoIdle
<1>10. QED
  BY <1>1, <1>2, <1>3, <1>4, <1>5, <1>6, <1>7, <1>8, <1>9 DEF WorkerStep

LEMMA TypeRecovery ==
  ASSUME TypeInv, NEW r \in Recoverers, RecoveryNext(r)
  PROVE  TypeInv'
<1> USE DEF TypeInv, TypeOK, AttemptLeft, HoldsJob, workerVars, history
<1>1. NothingLoaded \in [Execs -> Row]
  BY BuiltRows DEF NothingLoaded
<1>2. ASSUME NEW S \in SUBSET Execs, RecoverLoad(r, S)
      PROVE  TypeInv'
  BY <1>2, BuiltRows DEF RecoverLoad
<1>3. CASE RecoverCommit(r)
  <2>1. ASSUME NEW e \in Execs PROVE row'[e] \in Row
    BY <1>3, <2>1, EditedRows, FlushIsRow DEF RecoverCommit
  <2>2. row' \in [Execs -> Row]
    BY <1>3, <2>1 DEF RecoverCommit
  <2>3. QED
    BY <1>1, <1>3, <2>2 DEF RecoverCommit
<1>4. CASE RecoverAborts(r)
  BY <1>1, <1>4, ConstantsAssumption DEF RecoverAborts
<1>5. QED
  BY <1>2, <1>3, <1>4 DEF RecoveryNext

LEMMA TypeNext == TypeInv /\ [Next]_vars => TypeInv'
<1> SUFFICES ASSUME TypeInv, [Next]_vars PROVE TypeInv'
  OBVIOUS
<1>1. CASE UNCHANGED vars
  BY <1>1 DEF TypeInv, TypeOK, AttemptLeft, HoldsJob, vars
<1>2. CASE Next
  BY <1>1, <1>2, TypeApi, TypeCancel, TypeWorker, TypeRecovery DEF Next, Quiescent
<1>3. QED
  BY <1>1, <1>2

\* Type correctness of the pipeline.
THEOREM TypeCorrect == Spec => []TypeOK
<1>1. TypeInv => TypeOK
  BY DEF TypeInv
<1>2. QED
  BY TypeInit, TypeNext, <1>1, PTL DEF Spec
-----------------------------------------------------------------------------
(* What each writer can do to the status column.                           *)

\* The columns of the rows the code builds.
LEMMA BuiltColumns ==
  /\ AbsentRow.status = "ABSENT"
  /\ NewRow.status = "QUEUED"
  /\ EnqueueFailed(NewRow).status = "FAILED"
BY DEF NewRow, AbsentRow, EnqueueFailed

LEMMA EditedColumns ==
  ASSUME NEW r \in Row
  PROVE  /\ Cancelled(r).status = "CANCELLED"
         /\ Recovered(r).status = "FAILED"
         /\ \A w \in Workers : Started(r, w).status = "RUNNING"
         /\ \A o \in Outcomes \cup {"none"} : Reported(r, o).status \in {r.status} \cup Terminal
<1>1. /\ Cancelled(r).status = "CANCELLED"
      /\ Recovered(r).status = "FAILED"
      /\ \A w \in Workers : Started(r, w).status = "RUNNING"
  BY DEF Cancelled, Recovered, Started, Row
<1>2. ASSUME NEW o \in Outcomes \cup {"none"}
      PROVE  Reported(r, o).status \in {r.status} \cup Terminal
  <2>1. NewStatus(o) \in Terminal
    BY DEF NewStatus, Terminal, L!Terminal
  <2>2. Reported(r, o).status = IF CanMove(r.status, NewStatus(o)) THEN NewStatus(o) ELSE r.status
    BY DEF Reported, Row
  <2>3. QED
    BY <2>1, <2>2
<1>3. QED
  BY <1>1, <1>2

\* Only CommitStart sets a row RUNNING.
LEMMA OnlyStartSetsRunning ==
  ASSUME TypeInv, [Next]_vars, NEW e \in Execs, row'[e].status = "RUNNING",
         row[e].status # "RUNNING"
  PROVE  \E w \in Workers : CommitStart(w) /\ job[w] = e
<1> USE DEF TypeInv, TypeOK
<1>1. row'[e] # row[e]
  OBVIOUS
<1>2. ASSUME NEW a \in Execs, ApiNext(a) PROVE FALSE
  <2>1. CASE Submit(a)
    BY <1>1, <2>1, BuiltColumns DEF Submit
  <2>2. CASE MarkEnqueueFailed(a)
    <3> DEFINE new == EnqueueFailed(NewRow)
    <3>1. row'[e] = Flush(row[e], NewRow, new)
      BY <1>1, <2>2 DEF MarkEnqueueFailed
    <3>2. NewRow \in Row /\ new \in Row /\ new.status = "FAILED" /\ NewRow.status = "QUEUED"
      BY BuiltColumns, BuiltRows
    <3>r. row[e] \in Row
      OBVIOUS
    <3> HIDE DEF new, TypeInv
    <3>3. Flush(row[e], NewRow, new).status =
            IF new.status # NewRow.status THEN new.status ELSE row[e].status
      BY <3>2, <3>r, FlushStatus
    <3>4. QED
      BY <3>1, <3>2, <3>3
  <2>3. QED
    BY <1>1, <1>2, <2>1, <2>2 DEF ApiNext, Enqueue, EnqueueRaises, ApiDies
<1>3. ASSUME NEW a \in Execs, CancelNext(a) PROVE FALSE
  <2>1. CASE CancelCommit(a)
    <3> DEFINE new == Cancelled(cancel[e])
    <3>1. row'[e] = Flush(row[e], cancel[e], new)
      BY <1>1, <2>1 DEF CancelCommit
    <3> HIDE DEF new
    <3>2. cancel[e] \in Row /\ row[e] \in Row
      OBVIOUS
    <3>3. new \in Row /\ new.status = "CANCELLED"
      BY <3>2, EditedColumns, EditedRows DEF new
    <3>4. Flush(row[e], cancel[e], new).status =
            IF new.status # cancel[e].status THEN new.status ELSE row[e].status
      BY <3>2, <3>3, FlushStatus
    <3>5. QED
      BY <3>1, <3>3, <3>4
  <2>2. QED
    BY <1>1, <1>3, <2>1 DEF CancelNext, CancelLoad, CancelAborts
<1>4. ASSUME NEW r \in Recoverers, RecoveryNext(r) PROVE FALSE
  <2>1. CASE RecoverCommit(r)
    <3>1. recovery[r][e] \in Row
      OBVIOUS
    <3>2. row'[e] = Flush(row[e], recovery[r][e], Recovered(recovery[r][e]))
      BY <1>1, <2>1 DEF RecoverCommit
    <3> DEFINE new == Recovered(recovery[r][e])
    <3> HIDE DEF new
    <3>3. new \in Row /\ new.status = "FAILED"
      BY <3>1, EditedColumns, EditedRows DEF new
    <3>4. Flush(row[e], recovery[r][e], new).status =
            IF new.status # recovery[r][e].status THEN new.status ELSE row[e].status
      BY <3>1, <3>3, FlushColumns
    <3>5. QED
      BY <3>2, <3>3, <3>4 DEF new
  <2>2. QED
    BY <1>1, <1>4, <2>1 DEF RecoveryNext, RecoverLoad, RecoverAborts
<1>5. ASSUME NEW w \in Workers, WorkerStep(w) \/ Abort(w)
      PROVE  CommitStart(w) /\ job[w] = e
  <2>1. CASE CommitStart(w)
    BY <1>1, <2>1 DEF CommitStart
  <2>2. CASE CommitFinish(w)
    <3>1. job[w] = e
      BY <1>1, <2>2 DEF CommitFinish
    <3>2. row'[e] = Flush(row[e], seen[w], Reported(seen[w], out[w]))
      BY <2>2, <3>1 DEF CommitFinish
    <3> DEFINE new == Reported(seen[w], out[w])
    <3> HIDE DEF new
    <3>5. seen[w] \in Row /\ row[e] \in Row /\ out[w] \in Outcomes \cup {"none"}
      OBVIOUS
    <3>6. new \in Row /\ new.status \in {seen[w].status} \cup Terminal
      BY <3>5, EditedColumns, EditedRows DEF new
    <3>7. Flush(row[e], seen[w], new).status =
            IF new.status # seen[w].status THEN new.status ELSE row[e].status
      BY <3>5, <3>6, FlushColumns
    <3>3. row'[e].status \in {row[e].status} \cup Terminal
      BY <3>2, <3>6, <3>7 DEF new
    <3>4. QED
      BY <3>3 DEF Terminal, L!Terminal
  <2>3. QED
    BY <1>1, <1>5, <2>1, <2>2
       DEF WorkerStep, Pop, Claim, LoadForStart, SandboxEnds, LoadForFinish, Ack, Abort
<1>6. QED
  BY <1>1, <1>2, <1>3, <1>4, <1>5 DEF Next, Quiescent, vars

\* A cancellation writes CANCELLED or leaves the status as it is.
LEMMA CancelWrites ==
  ASSUME TypeInv, NEW a \in Execs, CancelCommit(a), NEW e \in Execs
  PROVE  row'[e].status \in {row[e].status, "CANCELLED"}
<1> USE DEF TypeInv, TypeOK
<1> DEFINE new == Cancelled(cancel[e])
<1>1. CASE a # e
  BY <1>1 DEF CancelCommit
<1>2. CASE a = e
  <2>1. row'[e] = Flush(row[e], cancel[e], new)
    BY <1>2 DEF CancelCommit
  <2>2. cancel[e] \in Row /\ row[e] \in Row
    OBVIOUS
  <2>3. new \in Row /\ new.status = "CANCELLED"
    BY <2>2, EditedColumns, EditedRows
  <2> HIDE DEF new
  <2>4. Flush(row[e], cancel[e], new).status =
          IF new.status # cancel[e].status THEN new.status ELSE row[e].status
    BY <2>2, <2>3, FlushStatus
  <2>5. QED
    BY <2>1, <2>3, <2>4
<1>3. QED
  BY <1>1, <1>2

-----------------------------------------------------------------------------
(* Custody of the job.                                                     *)

LEMMA CustodyInit == Init => Custody
<1> SUFFICES ASSUME Init PROVE Custody
  OBVIOUS
<1>1. ASSUME NEW e \in Execs \ Flaky PROVE CustodyOf(e)
  BY <1>1, BuiltColumns DEF Init, CustodyOf, Undecided, Holds
<1>2. QED
  BY <1>1 DEF Custody

\* A step that starts no sandbox for e does not set e RUNNING.
LEMMA NoStartNoRunning ==
  ASSUME TypeInv, [Next]_vars, NEW e \in Execs, runs'[e] = runs[e]
  PROVE  row'[e].status = "RUNNING" => row[e].status = "RUNNING"
<1> SUFFICES ASSUME row'[e].status = "RUNNING", row[e].status # "RUNNING" PROVE FALSE
  OBVIOUS
<1>1. PICK w \in Workers : CommitStart(w) /\ job[w] = e
  BY OnlyStartSetsRunning
<1>2. runs'[e] = runs[e] + 1 /\ runs[e] \in Nat
  BY <1>1 DEF CommitStart, TypeInv, TypeOK
<1>3. QED
  BY <1>2

LEMMA CustodyApi ==
  ASSUME TypeInv, Custody, NEW a \in Execs, ApiNext(a)
  PROVE  Custody'
<1> SUFFICES ASSUME NEW e \in Execs \ Flaky PROVE CustodyOf(e)'
  BY DEF Custody
<1> USE DEF TypeInv, TypeOK, workerVars, history
<1>1. CustodyOf(e)
  BY DEF Custody
<1>2. [Next]_vars
  BY DEF Next
<1>3. runs' = runs /\ pc' = pc /\ job' = job /\ recovery' = recovery
  BY DEF ApiNext, Submit, Enqueue, EnqueueRaises, MarkEnqueueFailed, ApiDies
<1>4. row'[e].status = "RUNNING" => runs'[e] # 0
  BY <1>1, <1>2, <1>3, NoStartNoRunning DEF CustodyOf
<1>5. CASE Submit(a)
  BY <1>1, <1>3, <1>4, <1>5, BuiltColumns DEF Submit, CustodyOf, Undecided, Holds
<1>6. CASE Enqueue(a)
  BY <1>1, <1>3, <1>4, <1>6 DEF Enqueue, CustodyOf, Undecided, Holds
<1>7. CASE EnqueueRaises(a)
  BY <1>1, <1>3, <1>4, <1>7 DEF EnqueueRaises, CustodyOf, Undecided, Holds
<1>8. CASE MarkEnqueueFailed(a)
  <2>1. CASE a = e
    <3>1. ~Undecided(e)'
      BY <1>1, <1>3, <1>8, <2>1 DEF MarkEnqueueFailed, CustodyOf, Undecided, Holds
    <3>2. QED
      BY <1>1, <1>3, <1>4, <1>8, <2>1, <3>1 DEF MarkEnqueueFailed, CustodyOf, Holds
  <2>2. CASE a # e
    BY <1>1, <1>3, <1>4, <1>8, <2>2 DEF MarkEnqueueFailed, CustodyOf, Undecided, Holds
  <2>3. QED
    BY <2>1, <2>2
<1>9. CASE ApiDies(a)
  BY <1>1, <1>3, <1>4, <1>9 DEF ApiDies, CustodyOf, Undecided, Holds
<1>10. QED
  BY <1>5, <1>6, <1>7, <1>8, <1>9 DEF ApiNext

LEMMA CustodyCancel ==
  ASSUME TypeInv, Custody, NEW a \in Execs, CancelNext(a)
  PROVE  Custody'
<1> SUFFICES ASSUME NEW e \in Execs \ Flaky PROVE CustodyOf(e)'
  BY DEF Custody
<1> USE DEF TypeInv, TypeOK, workerVars, history
<1>1. CustodyOf(e)
  BY DEF Custody
<1>2. row'[e].status \in {row[e].status, "CANCELLED"}
  BY CancelWrites DEF CancelNext, CancelLoad, CancelAborts
<1>3. UNCHANGED <<queue, api, pc, job, recovery, runs>>
  BY DEF CancelNext, CancelLoad, CancelCommit, CancelAborts
<1>4. QED
  BY <1>1, <1>2, <1>3 DEF CustodyOf, Undecided, Holds

LEMMA CustodyRecovery ==
  ASSUME TypeInv, Custody, NEW r \in Recoverers, RecoveryNext(r)
  PROVE  Custody'
<1> SUFFICES ASSUME NEW e \in Execs \ Flaky PROVE CustodyOf(e)'
  BY DEF Custody
<1> USE DEF TypeInv, TypeOK, workerVars, history
<1>1. CustodyOf(e)
  BY DEF Custody
<1>2. [Next]_vars
  BY DEF Next
<1>3. UNCHANGED <<queue, api, pc, job, runs>>
  BY DEF RecoveryNext, RecoverLoad, RecoverCommit, RecoverAborts
<1>4. row'[e].status = "RUNNING" => runs'[e] # 0
  BY <1>1, <1>2, <1>3, NoStartNoRunning DEF CustodyOf
<1>5. ASSUME NEW S \in SUBSET Execs, RecoverLoad(r, S)
      PROVE  CustodyOf(e)'
  <2>1. \A q \in Recoverers : recovery'[q][e] # AbsentRow => runs'[e] # 0
    BY <1>1, <1>3, <1>5 DEF RecoverLoad, MayBeStale, CustodyOf
  <2>2. row' = row
    BY <1>5 DEF RecoverLoad
  <2>3. QED
    BY <1>1, <1>3, <1>4, <2>1, <2>2 DEF CustodyOf, Undecided, Holds
<1>6. CASE RecoverCommit(r) \/ RecoverAborts(r)
  <2>1. \A q \in Recoverers : recovery'[q][e] # AbsentRow => runs'[e] # 0
    <3>1. \A q \in Recoverers : recovery'[q][e] \in {recovery[q][e], AbsentRow}
      BY <1>6 DEF RecoverCommit, RecoverAborts, NothingLoaded
    <3>2. \A q \in Recoverers : recovery[q][e] # AbsentRow => runs[e] # 0
      BY <1>1 DEF CustodyOf
    <3> HIDE DEF TypeInv
    <3>3. QED
      BY <1>3, <3>1, <3>2
  <2>2. row'[e] = row[e] \/ runs[e] # 0
    BY <1>1, <1>6 DEF RecoverCommit, RecoverAborts, CustodyOf
  <2>3. QED
    BY <1>1, <1>3, <1>4, <2>1, <2>2 DEF CustodyOf, Undecided, Holds
<1>7. QED
  BY <1>5, <1>6 DEF RecoveryNext

LEMMA CustodyWorker ==
  ASSUME TypeInv, Custody, NEW w \in Workers, WorkerStep(w) \/ Abort(w)
  PROVE  Custody'
<1> SUFFICES ASSUME NEW e \in Execs \ Flaky PROVE CustodyOf(e)'
  BY DEF Custody
<1> USE DEF TypeInv, TypeOK, HoldsJob, workerVars, history, Advance
<1>1. CustodyOf(e)
  BY DEF Custody
<1>2. api' = api /\ recovery' = recovery
  BY DEF WorkerStep, Pop, Claim, LoadForStart, CommitStart, SandboxEnds, LoadForFinish,
         CommitFinish, Ack, Abort
<1>3. CASE Pop(w)
  BY <1>1, <1>2, <1>3 DEF Pop, CustodyOf, Undecided, Holds
<1>4. CASE CommitStart(w)
  <2>1. CASE job[w] = e
    <3>1. ~Undecided(e)' /\ runs'[e] = 1
      BY <1>1, <1>2, <1>4, <2>1 DEF CommitStart, CustodyOf, Undecided, Holds
    <3>2. UNCHANGED <<queue, job>> /\ \A v \in Workers : Holds(v, e)' <=> Holds(v, e)
      BY <1>4 DEF CommitStart, Holds
    <3>3. QED
      BY <1>1, <1>2, <3>1, <3>2 DEF CustodyOf
  <2>2. CASE job[w] # e
    BY <1>1, <1>2, <1>4, <2>2 DEF CommitStart, CustodyOf, Undecided, Holds
  <2>3. QED
    BY <2>1, <2>2
<1>5. CASE CommitFinish(w)
  <2>1. UNCHANGED <<queue, job, runs>> /\ \A v \in Workers : Holds(v, e)' <=> Holds(v, e)
    BY <1>5 DEF CommitFinish, Holds
  <2>2. Undecided(e)' => Undecided(e) /\ job[w] # e
    BY <1>1, <1>2, <1>5, <2>1 DEF CommitFinish, CustodyOf, Undecided, Holds
  <2>3. job[w] # e => row'[e] = row[e]
    BY <1>5 DEF CommitFinish
  <2>4. row'[e].status = "RUNNING" => row[e].status = "RUNNING"
    BY <1>5, NoStartNoRunning DEF CommitFinish, Next, WorkerStep
  <2>5. QED
    BY <1>1, <1>2, <2>1, <2>2, <2>3, <2>4 DEF CustodyOf
<1>6. CASE Claim(w) \/ LoadForStart(w) \/ SandboxEnds(w) \/ LoadForFinish(w)
  <2>1. UNCHANGED <<row, queue, job, runs>> /\ \A v \in Workers : Holds(v, e)' <=> Holds(v, e)
    BY <1>6 DEF Claim, LoadForStart, SandboxEnds, LoadForFinish, Holds
  <2>2. Undecided(e)' => Undecided(e)
    BY <1>2, <1>6, <2>1 DEF Claim, LoadForStart, SandboxEnds, LoadForFinish, Undecided
  <2>3. QED
    BY <1>1, <1>2, <2>1, <2>2 DEF CustodyOf
<1>7. CASE Ack(w) \/ Abort(w)
  <2>1. UNCHANGED <<row, queue, runs>> /\ \A v \in Workers : Holds(v, e)' => Holds(v, e)
    BY <1>7 DEF Ack, Abort, GoIdle, Holds
  <2>2. Undecided(e)' => Undecided(e)
    BY <1>2, <1>7, <2>1 DEF Ack, Abort, GoIdle, Undecided
  <2>3. QED
    BY <1>1, <1>2, <2>1, <2>2 DEF CustodyOf
<1>8. QED
  BY <1>3, <1>4, <1>5, <1>6, <1>7 DEF WorkerStep

LEMMA CustodyNext == TypeInv /\ Custody /\ [Next]_vars => Custody'
<1> SUFFICES ASSUME TypeInv, Custody, [Next]_vars PROVE Custody'
  OBVIOUS
<1>1. CASE UNCHANGED vars
  BY <1>1 DEF Custody, CustodyOf, Undecided, Holds, vars
<1>2. CASE Next
  BY <1>1, <1>2, CustodyApi, CustodyCancel, CustodyWorker, CustodyRecovery DEF Next, Quiescent
<1>3. QED
  BY <1>1, <1>2

\* Who has custody of a job, for all behaviours.
THEOREM CustodyCorrect == Spec => [](TypeInv /\ Custody)
<1>1. TypeInv /\ Custody /\ [Next]_vars => TypeInv' /\ Custody'
  BY TypeNext, CustodyNext
<1>2. QED
  BY TypeInit, CustodyInit, <1>1, PTL DEF Spec

\* The sandbox is started at most once for an execution that is not flaky.
THEOREM StartedAtMostOnce == Spec => []RunsAtMostOnce
<1>1. Custody => RunsAtMostOnce
  BY DEF Custody, CustodyOf, RunsAtMostOnce
<1>2. QED
  BY CustodyCorrect, <1>1, PTL

\* No finished execution that is not flaky is set RUNNING again.
THEOREM FinishedStaysFinished == Spec => NeverRevived
<1> DEFINE Finished(e) == row[e].status \in {"COMPLETED", "FAILED", "TIMED_OUT"}
<1>1. ASSUME TypeInv, Custody, [Next]_vars, NEW e \in Execs \ Flaky, Finished(e)
      PROVE  row'[e].status # "RUNNING"
  <2> SUFFICES ASSUME row'[e].status = "RUNNING" PROVE FALSE
    OBVIOUS
  <2>1. PICK w \in Workers : CommitStart(w) /\ job[w] = e
    BY <1>1, OnlyStartSetsRunning
  <2>2. Undecided(e)
    BY <2>1 DEF CommitStart, Undecided
  <2>3. QED
    BY <1>1, <2>2 DEF Custody, CustodyOf
<1>2. TypeInv /\ Custody /\ [Next]_vars
        => [\A e \in Execs \ Flaky : Finished(e) => row'[e].status # "RUNNING"]_vars
  BY <1>1
<1>3. QED
  BY CustodyCorrect, <1>2, PTL DEF NeverRevived, Spec

-----------------------------------------------------------------------------
(* What each transaction leaves in the row, column by column.              *)

\* The only steps that change a row are the six commits.
LEMMA WhoWrites ==
  ASSUME TypeInv, [Next]_vars, NEW e \in Execs, row'[e] # row[e]
  PROVE  \/ Submit(e) \/ MarkEnqueueFailed(e) \/ CancelCommit(e)
         \/ \E w \in Workers : (CommitStart(w) \/ CommitFinish(w)) /\ job[w] = e
         \/ \E r \in Recoverers : RecoverCommit(r) /\ recovery[r][e] # AbsentRow
<1> USE DEF TypeInv, TypeOK
<1>1. ASSUME NEW a \in Execs, ApiNext(a) PROVE Submit(e) \/ MarkEnqueueFailed(e)
  BY <1>1 DEF ApiNext, Submit, Enqueue, EnqueueRaises, MarkEnqueueFailed, ApiDies
<1>2. ASSUME NEW a \in Execs, CancelNext(a) PROVE CancelCommit(e)
  BY <1>2 DEF CancelNext, CancelLoad, CancelCommit, CancelAborts
<1>3. ASSUME NEW w \in Workers, WorkerStep(w) \/ Abort(w)
      PROVE  (CommitStart(w) \/ CommitFinish(w)) /\ job[w] = e
  BY <1>3 DEF WorkerStep, Pop, Claim, LoadForStart, CommitStart, SandboxEnds,
              LoadForFinish, CommitFinish, Ack, Abort
<1>4. ASSUME NEW r \in Recoverers, RecoveryNext(r)
      PROVE  RecoverCommit(r) /\ recovery[r][e] # AbsentRow
  BY <1>4 DEF RecoveryNext, RecoverLoad, RecoverCommit, RecoverAborts
<1>5. QED
  BY <1>1, <1>2, <1>3, <1>4 DEF Next, Quiescent, vars

LEMMA SubmitWrites ==
  ASSUME TypeInv, NEW e \in Execs, Submit(e)
  PROVE  /\ row'[e].status = "QUEUED"
         /\ row'[e].kind = "none"
         /\ row'[e].completed_at = "null"
         /\ row'[e].worker = NoWorker
<1>1. row'[e] = NewRow
  BY DEF Submit, TypeInv, TypeOK
<1>2. QED
  BY <1>1 DEF NewRow, AbsentRow

LEMMA EnqueueFailedWrites ==
  ASSUME TypeInv, NEW e \in Execs, MarkEnqueueFailed(e)
  PROVE  /\ row'[e].status = "FAILED"
         /\ row'[e].kind = "queue"
         /\ row'[e].completed_at = row[e].completed_at
         /\ row'[e].worker = row[e].worker
<1> DEFINE new == EnqueueFailed(NewRow)
<1>1. row[e] \in Row /\ NewRow \in Row /\ new \in Row
  BY BuiltRows DEF TypeInv, TypeOK
<1>2. /\ new.status = "FAILED" /\ NewRow.status = "QUEUED"
      /\ new.kind = "queue" /\ NewRow.kind = "none"
      /\ new.completed_at = NewRow.completed_at /\ new.worker = NewRow.worker
  BY DEF EnqueueFailed, NewRow, AbsentRow
<1>3. row'[e] = Flush(row[e], NewRow, new)
  BY DEF MarkEnqueueFailed, TypeInv, TypeOK
<1> HIDE DEF new
<1>4. QED
  BY <1>1, <1>2, <1>3, FlushColumns

LEMMA CancelCommitWrites ==
  ASSUME TypeInv, NEW e \in Execs, CancelCommit(e), CanMove(cancel[e].status, "CANCELLED")
  PROVE  /\ row'[e].status = "CANCELLED"
         /\ row'[e].kind = row[e].kind
         /\ row'[e].completed_at = row[e].completed_at
         /\ row'[e].worker = row[e].worker
<1> DEFINE old == cancel[e]
           new == Cancelled(old)
<1>1. row[e] \in Row /\ old \in Row /\ new \in Row
  BY EditedRows DEF TypeInv, TypeOK
<1>2. /\ new.status = "CANCELLED" /\ old.status # "CANCELLED"
      /\ new.kind = old.kind
      /\ new.completed_at = old.completed_at /\ new.worker = old.worker
  BY <1>1 DEF Cancelled, Row, CanMove, L!CanMove, L!ValidTransitions
<1>3. row'[e] = Flush(row[e], old, new)
  BY DEF CancelCommit, TypeInv, TypeOK
<1> HIDE DEF new, old
<1>4. QED
  BY <1>1, <1>2, <1>3, FlushColumns

LEMMA StartWrites ==
  ASSUME TypeInv, NEW w \in Workers, CommitStart(w),
         seen[w].status = "QUEUED", seen[w].worker = NoWorker
  PROVE  /\ job[w] \in Execs
         /\ row'[job[w]].status = "RUNNING"
         /\ row'[job[w]].kind = row[job[w]].kind
         /\ row'[job[w]].completed_at = row[job[w]].completed_at
         /\ row'[job[w]].worker = w
<1>1. PICK e \in Execs : e = job[w]
  BY DEF CommitStart, TypeInv, HoldsJob
<1> DEFINE old == seen[w]
           new == Started(old, w)
<1>2. row[e] \in Row /\ old \in Row /\ new \in Row
  BY EditedRows DEF TypeInv, TypeOK
<1>3. /\ new.status = "RUNNING" /\ new.worker = w /\ w # NoWorker
      /\ new.kind = old.kind /\ new.completed_at = old.completed_at
  BY <1>2, ConstantsAssumption DEF Started, Row
<1>4. row'[e] = Flush(row[e], old, new)
  BY <1>1 DEF CommitStart, TypeInv, TypeOK
<1>5. old.status = "QUEUED" /\ old.worker = NoWorker
  OBVIOUS
<1> HIDE DEF new, old
<1>6. QED
  BY <1>1, <1>2, <1>3, <1>4, <1>5, FlushColumns

LEMMA FinishWrites ==
  ASSUME TypeInv, NEW w \in Workers, CommitFinish(w)
  PROVE  /\ job[w] \in Execs
         /\ row'[job[w]].status =
              IF CanMove(seen[w].status, NewStatus(out[w])) THEN NewStatus(out[w])
              ELSE row[job[w]].status
         /\ row'[job[w]].kind =
              IF FailureKind(out[w]) # seen[w].kind THEN FailureKind(out[w])
              ELSE row[job[w]].kind
         /\ row'[job[w]].completed_at =
              IF seen[w].completed_at # "set" THEN "set" ELSE row[job[w]].completed_at
         /\ row'[job[w]].worker = row[job[w]].worker
<1>1. PICK e \in Execs : e = job[w]
  BY DEF CommitFinish, TypeInv, HoldsJob
<1> DEFINE old == seen[w]
           o == out[w]
           new == Reported(old, o)
<1>2. row[e] \in Row /\ old \in Row /\ new \in Row
  BY EditedRows DEF TypeInv, TypeOK
<1>3. /\ new.status = IF CanMove(old.status, NewStatus(o)) THEN NewStatus(o) ELSE old.status
      /\ new.kind = FailureKind(o) /\ new.completed_at = "set" /\ new.worker = old.worker
  BY <1>2 DEF Reported, Row
<1>4. CanMove(old.status, NewStatus(o)) => NewStatus(o) # old.status
  BY DEF CanMove, L!CanMove, L!ValidTransitions
<1>5. row'[e] = Flush(row[e], old, new)
  BY <1>1 DEF CommitFinish, TypeInv, TypeOK
<1> HIDE DEF old, new
<1>6. /\ row'[e].status = IF new.status # old.status THEN new.status ELSE row[e].status
      /\ row'[e].kind = IF new.kind # old.kind THEN new.kind ELSE row[e].kind
      /\ row'[e].completed_at = IF new.completed_at # old.completed_at THEN new.completed_at
                               ELSE row[e].completed_at
      /\ row'[e].worker = IF new.worker # old.worker THEN new.worker ELSE row[e].worker
  BY <1>2, <1>5, FlushColumns
<1>7. QED
  BY <1>1, <1>3, <1>4, <1>6 DEF old

LEMMA RecoverWrites ==
  ASSUME TypeInv, NEW r \in Recoverers, RecoverCommit(r), NEW e \in Execs,
         recovery[r][e] # AbsentRow, recovery[r][e].status = "RUNNING"
  PROVE  /\ row'[e].status = "FAILED"
         /\ row'[e].kind =
              IF recovery[r][e].kind # "infra" THEN "infra" ELSE row[e].kind
         /\ row'[e].completed_at =
              IF recovery[r][e].completed_at # "set" THEN "set" ELSE row[e].completed_at
         /\ row'[e].worker = row[e].worker
<1> DEFINE old == recovery[r][e]
           new == Recovered(old)
<1>1. row[e] \in Row /\ old \in Row /\ new \in Row
  BY EditedRows DEF TypeInv, TypeOK
<1>2. /\ new.status = "FAILED" /\ new.kind = "infra"
      /\ new.completed_at = "set" /\ new.worker = old.worker
  BY <1>1 DEF Recovered, Row
<1>3. row'[e] = Flush(row[e], old, new)
  BY DEF RecoverCommit, TypeInv, TypeOK
<1>4. old.status = "RUNNING"
  OBVIOUS
<1> HIDE DEF old, new
<1>5. /\ row'[e].status = IF new.status # old.status THEN new.status ELSE row[e].status
      /\ row'[e].kind = IF new.kind # old.kind THEN new.kind ELSE row[e].kind
      /\ row'[e].completed_at = IF new.completed_at # old.completed_at THEN new.completed_at
                               ELSE row[e].completed_at
      /\ row'[e].worker = IF new.worker # old.worker THEN new.worker ELSE row[e].worker
  BY <1>1, <1>3, FlushColumns
<1>6. QED
  BY <1>2, <1>4, <1>5 DEF old

-----------------------------------------------------------------------------
(* What the open transactions have loaded, whatever crashes, is cancelled, *)
(* overruns or is enqueued twice.                                          *)

\* Somebody other than the request of e knows of e.
Touched(e) ==
  \/ e \in queue
  \/ \E w \in Workers : Holds(w, e)
  \/ cancel[e] # AbsentRow
  \/ \E r \in Recoverers : recovery[r][e] # AbsentRow

\* The row is there from the moment the request has committed it, and nobody
\* knows of e before; a QUEUED row has no worker_id; a cancel request has
\* loaded a row that may be cancelled, a recovery loop a RUNNING one.
LoadsOf(e) ==
  /\ api[e] = "new" <=> row[e].status = "ABSENT"
  /\ Touched(e) => api[e] # "new"
  /\ row[e].status = "QUEUED" => row[e].worker = NoWorker
  /\ row[e].status = "CANCELLED" => e \in Cancellable
  /\ cancel[e] # AbsentRow => e \in Cancellable /\ CanMove(cancel[e].status, "CANCELLED")
  /\ \A r \in Recoverers : recovery[r][e] # AbsentRow => recovery[r][e].status = "RUNNING"

\* A worker about to commit RUNNING has loaded a QUEUED row.
StartsQueued ==
  \A w \in Workers : pc[w] = "starting" => seen[w].status = "QUEUED" /\ seen[w].worker = NoWorker

Loads == StartsQueued /\ \A e \in Execs : LoadsOf(e)

LEMMA LoadsInit == Init => Loads
<1> SUFFICES ASSUME Init PROVE Loads
  OBVIOUS
<1>1. StartsQueued
  BY DEF Init, StartsQueued
<1>2. ASSUME NEW e \in Execs PROVE LoadsOf(e)
  BY BuiltColumns DEF Init, LoadsOf, Touched, Holds
<1>3. QED
  BY <1>1, <1>2 DEF Loads

\* What a step does to the status and the worker_id of row e: nothing, or one of
\* the six commits with what it writes.
FinishedBy(w, e) ==
  /\ CommitFinish(w)
  /\ job[w] = e
  /\ row'[e].worker = row[e].worker
  /\ row'[e].status = IF CanMove(seen[w].status, NewStatus(out[w]))
                        THEN NewStatus(out[w]) ELSE row[e].status

StartedBy(w, e) ==
  /\ CommitStart(w)
  /\ job[w] = e
  /\ row'[e].status = "RUNNING"
  /\ row'[e].worker = w

RecoveredBy(r, e) ==
  /\ RecoverCommit(r)
  /\ recovery[r][e] # AbsentRow
  /\ row'[e].status = "FAILED"

RowStep(e) ==
  \/ row'[e] = row[e]
  \/ Submit(e) /\ row'[e].status = "QUEUED" /\ row'[e].worker = NoWorker
  \/ MarkEnqueueFailed(e) /\ row'[e].status = "FAILED"
  \/ CancelCommit(e) /\ row'[e].status = "CANCELLED"
  \/ \E w \in Workers : StartedBy(w, e) \/ FinishedBy(w, e)
  \/ \E r \in Recoverers : RecoveredBy(r, e)

LEMMA EveryRowStep ==
  ASSUME TypeInv, Loads, [Next]_vars, NEW e \in Execs
  PROVE  RowStep(e)
<1>1. CASE row'[e] = row[e]
  BY <1>1 DEF RowStep
<1>2. CASE Submit(e)
  BY <1>2, SubmitWrites DEF RowStep
<1>3. CASE MarkEnqueueFailed(e)
  BY <1>3, EnqueueFailedWrites DEF RowStep
<1>4. CASE CancelCommit(e)
  <2>1. CanMove(cancel[e].status, "CANCELLED")
    BY <1>4 DEF CancelCommit, Loads, LoadsOf
  <2>2. QED
    BY <1>4, <2>1, CancelCommitWrites DEF RowStep
<1>5. ASSUME NEW w \in Workers, CommitStart(w), job[w] = e
      PROVE  StartedBy(w, e)
  <2>1. seen[w].status = "QUEUED" /\ seen[w].worker = NoWorker
    BY <1>5 DEF CommitStart, Loads, StartsQueued
  <2>2. QED
    BY <1>5, <2>1, StartWrites DEF StartedBy
<1>6. ASSUME NEW w \in Workers, CommitFinish(w), job[w] = e
      PROVE  FinishedBy(w, e)
  BY <1>6, FinishWrites DEF FinishedBy
<1>7. ASSUME NEW r \in Recoverers, RecoverCommit(r), recovery[r][e] # AbsentRow
      PROVE  RecoveredBy(r, e)
  <2>1. recovery[r][e].status = "RUNNING"
    BY <1>7 DEF Loads, LoadsOf
  <2>2. QED
    BY <1>7, <2>1, RecoverWrites DEF RecoveredBy
<1>8. QED
  BY <1>1, <1>2, <1>3, <1>4, <1>5, <1>6, <1>7, WhoWrites DEF RowStep

\* A worker reports a terminal status, never CANCELLED.
LEMMA ReportedStatus ==
  ASSUME NEW o
  PROVE  NewStatus(o) \in {"COMPLETED", "TIMED_OUT", "FAILED"}
BY DEF NewStatus

\* Whether e is new changes only when it is submitted.
LEMMA NewUntilSubmit ==
  ASSUME TypeInv, [Next]_vars, NEW e \in Execs, api'[e] # api[e]
  PROVE  /\ api'[e] # "new"
         /\ Submit(e) \/ api[e] # "new"
<1>1. ASSUME NEW a \in Execs, ApiNext(a)
      PROVE  api'[e] # "new" /\ (Submit(e) \/ api[e] # "new")
  BY <1>1 DEF ApiNext, Submit, Enqueue, EnqueueRaises, MarkEnqueueFailed, ApiDies,
              TypeInv, TypeOK
<1>2. ASSUME NEW a \in Execs, CancelNext(a) PROVE FALSE
  BY <1>2 DEF CancelNext, CancelLoad, CancelCommit, CancelAborts
<1>3. ASSUME NEW w \in Workers, WorkerStep(w) \/ Abort(w) PROVE FALSE
  BY <1>3 DEF WorkerStep, Pop, Claim, LoadForStart, CommitStart, SandboxEnds,
              LoadForFinish, CommitFinish, Ack, Abort
<1>4. ASSUME NEW r \in Recoverers, RecoveryNext(r) PROVE FALSE
  BY <1>4 DEF RecoveryNext, RecoverLoad, RecoverCommit, RecoverAborts
<1>5. QED
  BY <1>1, <1>2, <1>3, <1>4 DEF Next, Quiescent, vars

\* The first part of LoadsOf: what the committed row says.
LEMMA BornNext ==
  ASSUME TypeInv, Loads, [Next]_vars, NEW e \in Execs
  PROVE  /\ api'[e] = "new" <=> row'[e].status = "ABSENT"
         /\ row'[e].status = "QUEUED" => row'[e].worker = NoWorker
         /\ row'[e].status = "CANCELLED" => e \in Cancellable
<1>1. LoadsOf(e)
  BY DEF Loads
<1>2. api'[e] # api[e] => api'[e] # "new" /\ (Submit(e) \/ api[e] # "new")
  BY NewUntilSubmit
<1>3. CASE row'[e] = row[e]
  <2>1. ~Submit(e)
    BY <1>1, <1>3, SubmitWrites DEF LoadsOf, Submit
  <2>2. QED
    BY <1>1, <1>2, <1>3, <2>1 DEF LoadsOf
<1>4. CASE Submit(e) /\ row'[e].status = "QUEUED" /\ row'[e].worker = NoWorker
  BY <1>4 DEF Submit, TypeInv, TypeOK
<1>5. CASE MarkEnqueueFailed(e) /\ row'[e].status = "FAILED"
  BY <1>2, <1>5 DEF MarkEnqueueFailed
<1>6. CASE CancelCommit(e) /\ row'[e].status = "CANCELLED"
  BY <1>1, <1>2, <1>6 DEF CancelCommit, LoadsOf, Touched
<1>7. ASSUME NEW w \in Workers, StartedBy(w, e)
      PROVE  api'[e] # "new" /\ row'[e].status = "RUNNING"
  BY <1>1, <1>2, <1>7 DEF StartedBy, CommitStart, LoadsOf, Touched, Holds
<1>8. ASSUME NEW w \in Workers, FinishedBy(w, e)
      PROVE  /\ api[e] # "new" /\ api'[e] # "new"
             /\ row'[e].worker = row[e].worker
             /\ \/ row'[e].status = row[e].status
                \/ row'[e].status \in {"COMPLETED", "TIMED_OUT", "FAILED"}
  BY <1>1, <1>2, <1>8, ReportedStatus DEF FinishedBy, CommitFinish, LoadsOf, Touched, Holds
<1>9. ASSUME NEW r \in Recoverers, RecoveredBy(r, e)
      PROVE  api'[e] # "new" /\ row'[e].status = "FAILED"
  BY <1>1, <1>2, <1>9 DEF RecoveredBy, LoadsOf, Touched
<1>10. QED
  BY <1>1, <1>3, <1>4, <1>5, <1>6, <1>7, <1>8, <1>9, EveryRowStep DEF RowStep, LoadsOf

\* The second part: who knows of e, and what has been loaded.
LEMMA TouchedNext ==
  ASSUME TypeInv, Loads, [Next]_vars, NEW e \in Execs
  PROVE  /\ Touched(e)' => api'[e] # "new"
         /\ cancel'[e] # AbsentRow => e \in Cancellable /\ CanMove(cancel'[e].status, "CANCELLED")
         /\ \A r \in Recoverers :
              recovery'[r][e] # AbsentRow => recovery'[r][e].status = "RUNNING"
<1> DEFINE LoadsKept == /\ cancel'[e] \in {cancel[e], AbsentRow}
                        /\ \A r \in Recoverers : recovery'[r][e] \in {recovery[r][e], AbsentRow}
<1>1. LoadsOf(e)
  BY DEF Loads
<1>2. api'[e] = "new" => api[e] = "new"
  BY NewUntilSubmit
<1>3. ASSUME LoadsKept, Touched(e)' => Touched(e) \/ api[e] # "new"
      PROVE  /\ Touched(e)' => api'[e] # "new"
             /\ cancel'[e] # AbsentRow
                  => e \in Cancellable /\ CanMove(cancel'[e].status, "CANCELLED")
             /\ \A r \in Recoverers :
                  recovery'[r][e] # AbsentRow => recovery'[r][e].status = "RUNNING"
  BY <1>1, <1>2, <1>3 DEF LoadsOf
<1>4. ASSUME NEW a \in Execs, ApiNext(a)
      PROVE  LoadsKept /\ (Touched(e)' => Touched(e) \/ api[e] # "new")
  BY <1>4 DEF ApiNext, Submit, Enqueue, EnqueueRaises, MarkEnqueueFailed, ApiDies,
              workerVars, Touched, Holds
<1>5. ASSUME NEW w \in Workers, WorkerStep(w) \/ Abort(w)
      PROVE  LoadsKept /\ (Touched(e)' => Touched(e))
  BY <1>5 DEF WorkerStep, Pop, Claim, LoadForStart, CommitStart, SandboxEnds,
              LoadForFinish, CommitFinish, Ack, Abort, GoIdle, Advance, Touched, Holds,
              TypeInv, TypeOK, HoldsJob
<1>6. ASSUME NEW a \in Execs, CancelNext(a)
      PROVE  /\ Touched(e)' => api'[e] # "new"
             /\ cancel'[e] # AbsentRow
                  => e \in Cancellable /\ CanMove(cancel'[e].status, "CANCELLED")
             /\ \A r \in Recoverers :
                  recovery'[r][e] # AbsentRow => recovery'[r][e].status = "RUNNING"
  <2>1. CASE CancelLoad(a) /\ a = e
    <3>1. api[e] # "new" /\ api' = api
      BY <1>1, <2>1 DEF CancelLoad, LoadsOf, CanMove, L!CanMove, L!ValidTransitions
    <3>2. cancel'[e] = row[e] /\ recovery' = recovery
      BY <2>1 DEF CancelLoad, TypeInv, TypeOK
    <3>3. QED
      BY <1>1, <2>1, <3>1, <3>2 DEF CancelLoad, LoadsOf
  <2>2. CASE ~(CancelLoad(a) /\ a = e)
    <3>1. LoadsKept /\ (Touched(e)' => Touched(e))
      BY <1>6, <2>2 DEF CancelNext, CancelLoad, CancelCommit, CancelAborts, workerVars,
                        Touched, Holds, TypeInv, TypeOK
    <3>2. QED
      BY <1>3, <3>1
  <2>3. QED
    BY <2>1, <2>2
<1>7. ASSUME NEW r \in Recoverers, RecoveryNext(r)
      PROVE  /\ Touched(e)' => api'[e] # "new"
             /\ cancel'[e] # AbsentRow
                  => e \in Cancellable /\ CanMove(cancel'[e].status, "CANCELLED")
             /\ \A q \in Recoverers :
                  recovery'[q][e] # AbsentRow => recovery'[q][e].status = "RUNNING"
  <2>1. ASSUME NEW S \in SUBSET Execs, RecoverLoad(r, S), e \in S
        PROVE  /\ api'[e] # "new"
               /\ cancel' = cancel
               /\ \A q \in Recoverers :
                    recovery'[q][e] # AbsentRow => recovery'[q][e].status = "RUNNING"
    BY <1>1, <2>1 DEF RecoverLoad, MayBeStale, LoadsOf, TypeInv, TypeOK
  <2>2. CASE ~\E S \in SUBSET Execs : RecoverLoad(r, S) /\ e \in S
    <3>1. LoadsKept /\ UNCHANGED <<queue, pc, job>>
      <4>1. ASSUME NEW S \in SUBSET Execs, RecoverLoad(r, S), e \notin S
            PROVE  LoadsKept /\ UNCHANGED <<queue, pc, job>>
        BY <4>1 DEF RecoverLoad, workerVars, TypeInv, TypeOK
      <4>2. CASE RecoverCommit(r)
        BY <4>2 DEF RecoverCommit, workerVars, NothingLoaded, TypeInv, TypeOK
      <4>3. CASE RecoverAborts(r)
        BY <4>3 DEF RecoverAborts, workerVars, NothingLoaded, TypeInv, TypeOK
      <4>4. QED
        BY <1>7, <2>2, <4>1, <4>2, <4>3 DEF RecoveryNext
    <3>2. Touched(e)' => Touched(e)
      BY <3>1 DEF Touched, Holds
    <3>3. QED
      BY <1>3, <3>1, <3>2
  <2>3. QED
    BY <1>1, <2>1, <2>2 DEF LoadsOf
<1>8. CASE UNCHANGED vars
  BY <1>1, <1>8 DEF vars, LoadsOf, Touched, Holds
<1>9. QED
  BY <1>3, <1>4, <1>5, <1>6, <1>7, <1>8 DEF Next, Quiescent

LEMMA StartsQueuedNext == TypeInv /\ Loads /\ [Next]_vars => StartsQueued'
<1> SUFFICES ASSUME TypeInv, Loads, [Next]_vars, NEW v \in Workers, pc'[v] = "starting"
             PROVE  seen'[v].status = "QUEUED" /\ seen'[v].worker = NoWorker
  BY DEF StartsQueued
<1>1. CASE pc'[v] = pc[v] /\ seen'[v] = seen[v]
  BY <1>1 DEF Loads, StartsQueued
<1>2. CASE LoadForStart(v)
  <2>1. /\ job[v] \in Execs /\ seen'[v] = row[job[v]]
        /\ CanMove(row[job[v]].status, "RUNNING")
    BY <1>2 DEF LoadForStart, Advance, TypeInv, TypeOK, HoldsJob
  <2>2. row[job[v]].status = "QUEUED"
    BY <2>1 DEF CanMove, L!CanMove, L!ValidTransitions
  <2>3. QED
    BY <2>1, <2>2 DEF Loads, LoadsOf
<1>3. ASSUME NEW w \in Workers, WorkerStep(w) \/ Abort(w), ~LoadForStart(v)
      PROVE  pc'[v] = pc[v] /\ seen'[v] = seen[v]
  BY <1>3 DEF WorkerStep, Pop, Claim, LoadForStart, CommitStart, SandboxEnds,
              LoadForFinish, CommitFinish, Ack, Abort, GoIdle, Advance, TypeInv, TypeOK
<1>4. CASE UNCHANGED workerVars
  BY <1>1, <1>4 DEF workerVars
<1>5. QED
  BY <1>1, <1>2, <1>3, <1>4
     DEF Next, Quiescent, vars, workerVars, ApiNext, Submit, Enqueue, EnqueueRaises,
         MarkEnqueueFailed, ApiDies, CancelNext, CancelLoad, CancelCommit, CancelAborts,
         RecoveryNext, RecoverLoad, RecoverCommit, RecoverAborts

LEMMA LoadsNext == TypeInv /\ Loads /\ [Next]_vars => Loads'
<1>1. ASSUME TypeInv, Loads, [Next]_vars, NEW e \in Execs PROVE LoadsOf(e)'
  BY <1>1, BornNext, TouchedNext DEF LoadsOf
<1>2. QED
  BY <1>1, StartsQueuedNext DEF Loads

\* What the open transactions have loaded, for all behaviours.
THEOREM LoadsCorrect == Spec => [](TypeInv /\ Loads)
<1>1. TypeInv /\ Loads /\ [Next]_vars => TypeInv' /\ Loads'
  BY TypeNext, LoadsNext
<1>2. QED
  BY TypeInit, LoadsInit, <1>1, PTL DEF Spec

\* Once every open transaction has seen a cancellation, it stands.
THEOREM CancellationStands == Spec => CancellationSticks
<1> DEFINE SeenByAll(e) ==
             /\ row[e].status = "CANCELLED"
             /\ \A w \in Workers :
                  job[w] = e /\ pc[w] \in {"starting", "writing"} => seen[w].status = "CANCELLED"
             /\ \A r \in Recoverers : recovery[r][e].status \in {"ABSENT", "CANCELLED"}
             /\ api[e] # "failed"
<1>1. ASSUME TypeInv, Loads, [Next]_vars, NEW e \in Execs, SeenByAll(e)
      PROVE  row'[e].status = "CANCELLED"
  <2>1. ~Submit(e) /\ ~MarkEnqueueFailed(e)
    BY <1>1 DEF Loads, LoadsOf, Submit, MarkEnqueueFailed
  <2>2. ASSUME NEW w \in Workers, StartedBy(w, e) PROVE FALSE
    BY <1>1, <2>2 DEF StartedBy, CommitStart, Loads, StartsQueued
  <2>3. ASSUME NEW w \in Workers, FinishedBy(w, e) PROVE row'[e].status = row[e].status
    <3>1. seen[w].status = "CANCELLED"
      BY <1>1, <2>3 DEF FinishedBy, CommitFinish
    <3>2. QED
      BY <2>3, <3>1 DEF FinishedBy, CanMove, L!CanMove, L!ValidTransitions
  <2>4. ASSUME NEW r \in Recoverers, RecoveredBy(r, e) PROVE FALSE
    BY <1>1, <2>4 DEF RecoveredBy, Loads, LoadsOf
  <2>5. QED
    BY <1>1, <2>1, <2>2, <2>3, <2>4, EveryRowStep DEF RowStep
<1>2. TypeInv /\ Loads /\ [Next]_vars
        => [\A e \in Execs : SeenByAll(e) => row'[e].status = "CANCELLED"]_vars
  BY <1>1
<1>3. QED
  BY LoadsCorrect, <1>2, PTL DEF CancellationSticks, Spec

-----------------------------------------------------------------------------
(* The story of an execution that is neither flaky nor overruns: what the  *)
(* columns of its row can say while somebody still has a write to make.    *)

\* failure_kind and completed_at have not been written.
Blank(x) == x.kind = "none" /\ x.completed_at = "null"

BeingRun(e) == \E w \in Workers : Runs(w, e)

\* Until somebody decides about e, and while a worker runs it, the row has no
\* verdict, and a running row is RUNNING or CANCELLED.  The worker about to
\* report has loaded RUNNING, or a CANCELLED that still stands; a recovery loop
\* has loaded a row without a verdict, and nobody has run e since.
StoryOf(e) ==
  /\ api[e] = "failed" => runs[e] = 0 /\ row[e].status \in {"QUEUED", "CANCELLED"}
  /\ Undecided(e) \/ api[e] = "failed" \/ BeingRun(e) => Blank(row[e])
  /\ BeingRun(e) => row[e].status \in {"RUNNING", "CANCELLED"}
  /\ \A w \in Workers : job[w] = e =>
       /\ pc[w] \in {"starting", "writing"} => Blank(seen[w])
       /\ pc[w] = "writing" => \/ seen[w].status = "RUNNING"
                               \/ seen[w].status = "CANCELLED" /\ row[e].status = "CANCELLED"
  /\ \A r \in Recoverers : recovery[r][e] # AbsentRow =>
       /\ Blank(recovery[r][e])
       /\ ~BeingRun(e)
       /\ row[e].status \in {"RUNNING", "FAILED", "CANCELLED"}
  /\ VerdictOf(e)

Story == \A e \in Execs \ (Flaky \cup Overrun) : StoryOf(e)

LEMMA StoryInit == Init => Story
<1> SUFFICES ASSUME Init, NEW e \in Execs PROVE StoryOf(e)
  BY DEF Story
<1>1. row[e].status = "ABSENT" /\ Blank(row[e])
  BY DEF Init, AbsentRow, Blank
<1>2. QED
  BY <1>1 DEF Init, StoryOf, BeingRun, Runs, VerdictOf

LEMMA StoryApi ==
  ASSUME TypeInv, Loads, Custody, Story, NEW a \in Execs, ApiNext(a)
  PROVE  Story'
<1> SUFFICES ASSUME NEW e \in Execs \ (Flaky \cup Overrun) PROVE StoryOf(e)'
  BY DEF Story
<1> USE DEF workerVars, history
<1>1. StoryOf(e) /\ CustodyOf(e) /\ LoadsOf(e)
  BY DEF Story, Custody, Loads
<1>2. UNCHANGED <<runs, pc, job, seen, recovery>> /\ BeingRun(e)' = BeingRun(e)
  BY DEF ApiNext, Submit, Enqueue, EnqueueRaises, MarkEnqueueFailed, ApiDies, BeingRun, Runs
<1>3. CASE Submit(a) /\ a = e
  <2>1. Blank(row'[e]) /\ row'[e].status = "QUEUED"
    BY <1>3, SubmitWrites DEF Blank
  <2>2. VerdictOf(e)'
    BY <2>1 DEF VerdictOf, Blank
  <2>3. ~Touched(e) /\ api'[e] = "enqueue"
    BY <1>1, <1>3 DEF Submit, LoadsOf, TypeInv, TypeOK
  <2>4. /\ \A w \in Workers : ~Holds(w, e)
        /\ \A r \in Recoverers : recovery[r][e] = AbsentRow
    BY <2>3 DEF Touched
  <2>5. QED
    BY <1>2, <2>1, <2>2, <2>3, <2>4 DEF StoryOf, BeingRun, Runs, Holds
<1>4. CASE MarkEnqueueFailed(a) /\ a = e
  <2>1. row'[e].status = "FAILED" /\ row'[e].kind = "queue" /\ row'[e].completed_at = "null"
    BY <1>1, <1>4, EnqueueFailedWrites DEF MarkEnqueueFailed, StoryOf, Blank
  <2>2. VerdictOf(e)'
    BY <2>1 DEF VerdictOf
  <2>3. /\ e \notin queue /\ \A w \in Workers : ~Holds(w, e)
        /\ \A r \in Recoverers : recovery[r][e] = AbsentRow
    BY <1>1, <1>4 DEF MarkEnqueueFailed, CustodyOf, StoryOf
  <2>4. api'[e] = "done" /\ queue' = queue
    BY <1>4 DEF MarkEnqueueFailed, TypeInv, TypeOK
  <2>5. QED
    BY <1>2, <2>2, <2>3, <2>4 DEF StoryOf, Undecided, BeingRun, Runs, Holds
<1>5. CASE EnqueueRaises(a) /\ a = e
  <2>1. Undecided(e) /\ api[e] = "enqueue"
    BY <1>5 DEF EnqueueRaises, Undecided
  <2>2. row' = row /\ runs[e] = 0 /\ row[e].status \in {"QUEUED", "CANCELLED"} /\ Blank(row[e])
    BY <1>1, <1>5, <2>1 DEF EnqueueRaises, CustodyOf, LoadsOf, StoryOf
  <2>3. QED
    BY <1>1, <1>2, <2>2 DEF StoryOf, VerdictOf
<1>6. CASE ~(Submit(a) /\ a = e) /\ ~(MarkEnqueueFailed(a) /\ a = e) /\ ~(EnqueueRaises(a) /\ a = e)
  <2>1. row'[e] = row[e] /\ (api'[e] = "failed" => api[e] = "failed")
    BY <1>6 DEF ApiNext, Submit, Enqueue, EnqueueRaises, MarkEnqueueFailed, ApiDies,
                TypeInv, TypeOK
  <2>2. Undecided(e)' => Undecided(e)
    BY <1>6 DEF ApiNext, Submit, Enqueue, EnqueueRaises, MarkEnqueueFailed, ApiDies,
                Undecided, TypeInv, TypeOK
  <2>3. QED
    BY <1>1, <1>2, <2>1, <2>2 DEF StoryOf, VerdictOf
<1>7. QED
  BY <1>3, <1>4, <1>5, <1>6

LEMMA StoryCancel ==
  ASSUME TypeInv, Loads, Custody, Story, NEW a \in Execs, CancelNext(a)
  PROVE  Story'
<1> SUFFICES ASSUME NEW e \in Execs \ (Flaky \cup Overrun) PROVE StoryOf(e)'
  BY DEF Story
<1> USE DEF workerVars, history
<1>1. StoryOf(e) /\ LoadsOf(e)
  BY DEF Story, Loads
<1>2. /\ UNCHANGED <<runs, pc, job, seen, recovery, api, queue>>
      /\ BeingRun(e)' = BeingRun(e) /\ Undecided(e)' = Undecided(e)
  BY DEF CancelNext, CancelLoad, CancelCommit, CancelAborts, BeingRun, Runs, Undecided
<1>3. CASE CancelCommit(a) /\ a = e
  <2>1. /\ row'[e].status = "CANCELLED" /\ row'[e].kind = row[e].kind
        /\ row'[e].completed_at = row[e].completed_at
    BY <1>1, <1>3, CancelCommitWrites DEF CancelCommit, LoadsOf
  <2>2. VerdictOf(e)' /\ (Blank(row[e]) => Blank(row'[e]))
    BY <2>1 DEF VerdictOf, Blank
  <2>3. QED
    BY <1>1, <1>2, <2>1, <2>2 DEF StoryOf
<1>4. CASE ~(CancelCommit(a) /\ a = e)
  <2>1. row'[e] = row[e]
    BY <1>4 DEF CancelNext, CancelLoad, CancelCommit, CancelAborts, TypeInv, TypeOK
  <2>2. QED
    BY <1>1, <1>2, <2>1 DEF StoryOf, VerdictOf
<1>5. QED
  BY <1>3, <1>4

LEMMA StoryRecovery ==
  ASSUME TypeInv, Loads, Custody, Story, NEW r \in Recoverers, RecoveryNext(r)
  PROVE  Story'
<1> SUFFICES ASSUME NEW e \in Execs \ (Flaky \cup Overrun) PROVE StoryOf(e)'
  BY DEF Story
<1> USE DEF workerVars, history
<1>1. StoryOf(e) /\ CustodyOf(e) /\ LoadsOf(e)
  BY DEF Story, Custody, Loads
<1>2. /\ UNCHANGED <<runs, pc, job, seen, api, queue>>
      /\ BeingRun(e)' = BeingRun(e) /\ Undecided(e)' = Undecided(e)
  BY DEF RecoveryNext, RecoverLoad, RecoverCommit, RecoverAborts, BeingRun, Runs, Undecided
<1>3. ASSUME NEW S \in SUBSET Execs, RecoverLoad(r, S)
      PROVE  StoryOf(e)'
  <2>1. row' = row
    BY <1>3 DEF RecoverLoad
  <2>2. ASSUME NEW q \in Recoverers, recovery'[q][e] # AbsentRow, recovery'[q][e] # recovery[q][e]
        PROVE  recovery'[q][e] = row[e] /\ row[e].status = "RUNNING" /\ ~BeingRun(e)
    BY <1>3, <2>2 DEF RecoverLoad, MayBeStale, BeingRun, TypeInv, TypeOK
  <2>3. row[e].status = "RUNNING" => Blank(row[e])
    BY <1>1 DEF StoryOf, VerdictOf, Blank
  <2>4. \A q \in Recoverers : recovery'[q][e] # AbsentRow =>
          /\ Blank(recovery'[q][e])
          /\ ~BeingRun(e)
          /\ row[e].status \in {"RUNNING", "FAILED", "CANCELLED"}
    BY <1>1, <2>2, <2>3 DEF StoryOf
  <2>5. QED
    BY <1>1, <1>2, <2>1, <2>4 DEF StoryOf, VerdictOf
<1>4. CASE RecoverCommit(r) /\ recovery[r][e] # AbsentRow
  <2>1. /\ row'[e].status = "FAILED" /\ row'[e].kind = "infra" /\ row'[e].completed_at = "set"
    BY <1>1, <1>4, RecoverWrites DEF LoadsOf, StoryOf, Blank
  <2>2. ~Undecided(e) /\ ~BeingRun(e) /\ api[e] # "failed"
    BY <1>1, <1>4 DEF StoryOf, CustodyOf
  <2>3. VerdictOf(e)'
    BY <2>1 DEF VerdictOf
  <2>4. \A w \in Workers : job[w] = e => pc[w] \notin {"starting", "writing"}
    BY <2>2 DEF Undecided, BeingRun, Runs
  <2>5. \A q \in Recoverers : recovery'[q][e] \in {recovery[q][e], AbsentRow}
    BY <1>4 DEF RecoverCommit, NothingLoaded, TypeInv, TypeOK
  <2>6. QED
    BY <1>1, <1>2, <2>1, <2>2, <2>3, <2>4, <2>5 DEF StoryOf
<1>5. CASE RecoverAborts(r) \/ (RecoverCommit(r) /\ recovery[r][e] = AbsentRow)
  <2>1. row'[e] = row[e]
    BY <1>5 DEF RecoverCommit, RecoverAborts
  <2>2. \A q \in Recoverers : recovery'[q][e] \in {recovery[q][e], AbsentRow}
    BY <1>5 DEF RecoverCommit, RecoverAborts, NothingLoaded, TypeInv, TypeOK
  <2>3. QED
    BY <1>1, <1>2, <2>1, <2>2 DEF StoryOf, VerdictOf
<1>6. QED
  BY <1>3, <1>4, <1>5 DEF RecoveryNext

\* A worker's steps outside the two commits leave every row alone.
LEMMA StoryWorker ==
  ASSUME TypeInv, Loads, Custody, Story, NEW w \in Workers, WorkerStep(w) \/ Abort(w)
  PROVE  Story'
<1> SUFFICES ASSUME NEW e \in Execs \ (Flaky \cup Overrun) PROVE StoryOf(e)'
  BY DEF Story
<1> USE DEF history, Advance
<1>1. StoryOf(e) /\ CustodyOf(e) /\ LoadsOf(e)
  BY DEF Story, Custody, Loads
<1>2. /\ UNCHANGED <<api, recovery>>
      /\ pc \in [Workers -> {"idle", "popped", "claimed", "starting", "sandbox", "ran",
                             "writing", "acking"}]
      /\ job \in [Workers -> Execs \cup {NoJob}] /\ seen \in [Workers -> Row]
      /\ row \in [Execs -> Row] /\ runs \in [Execs -> Nat]
  BY DEF WorkerStep, Pop, Claim, LoadForStart, CommitStart, SandboxEnds, LoadForFinish,
         CommitFinish, Ack, Abort, TypeInv, TypeOK
<1>3. CASE CommitStart(w) /\ job[w] = e
  <2>1. Undecided(e) /\ Holds(w, e)
    BY <1>3 DEF CommitStart, Undecided, Holds
  <2>2. /\ row'[e].status = "RUNNING" /\ row'[e].kind = row[e].kind
        /\ row'[e].completed_at = row[e].completed_at
    <3>1. seen[w].status = "QUEUED" /\ seen[w].worker = NoWorker
      BY <1>3 DEF CommitStart, Loads, StartsQueued
    <3>2. QED
      BY <1>3, <3>1, StartWrites
  <2>3. Blank(row'[e]) /\ VerdictOf(e)'
    BY <1>1, <2>1, <2>2 DEF StoryOf, VerdictOf, Blank
  <2>4. \A r \in Recoverers : recovery[r][e] = AbsentRow
    BY <1>1, <2>1 DEF CustodyOf
  <2>5. api[e] = "done" /\ \A v \in Workers : Holds(v, e) => v = w
    BY <1>1, <2>1 DEF CustodyOf
  <2>6. job' = job /\ \A v \in Workers : job'[v] = e => pc'[v] \notin {"starting", "writing"}
    BY <1>2, <1>3, <2>5 DEF CommitStart, Holds
  <2>7. QED
    BY <1>2, <2>2, <2>3, <2>4, <2>5, <2>6 DEF StoryOf
<1>4. CASE CommitFinish(w) /\ job[w] = e
  <2>1. BeingRun(e) /\ Holds(w, e)
    BY <1>4 DEF CommitFinish, BeingRun, Runs, Holds
  <2>2. /\ Blank(row[e]) /\ Blank(seen[w]) /\ row[e].status \in {"RUNNING", "CANCELLED"}
        /\ \/ seen[w].status = "RUNNING"
           \/ seen[w].status = "CANCELLED" /\ row[e].status = "CANCELLED"
    BY <1>1, <1>4, <2>1 DEF CommitFinish, StoryOf
  <2>3. /\ row'[e].kind = FailureKind(out[w])
        /\ row'[e].completed_at = "set"
        /\ row'[e].status = IF CanMove(seen[w].status, NewStatus(out[w]))
                              THEN NewStatus(out[w]) ELSE row[e].status
    BY <1>4, <2>2, FinishWrites DEF Blank
  <2>4. row'[e].status \in {NewStatus(out[w]), "CANCELLED"}
    BY <2>2, <2>3, ReportedStatus DEF CanMove, L!CanMove, L!ValidTransitions
  <2>5. VerdictOf(e)'
    BY <2>3, <2>4 DEF VerdictOf, NewStatus, FailureKind
  <2>6. api[e] = "done" /\ e \notin queue /\ \A v \in Workers : Holds(v, e) => v = w
    BY <1>1, <2>1 DEF CustodyOf
  <2>7. \A r \in Recoverers : recovery[r][e] = AbsentRow
    BY <1>1, <2>1 DEF StoryOf
  <2>8. /\ queue' = queue /\ job' = job
        /\ \A v \in Workers : job'[v] = e => pc'[v] \in {"idle", "acking"}
    BY <1>2, <1>4, <2>6 DEF CommitFinish, Holds
  <2>9. ~Undecided(e)' /\ ~BeingRun(e)'
    BY <1>2, <2>6, <2>8 DEF Undecided, BeingRun, Runs
  <2>10. QED
    BY <1>2, <2>5, <2>6, <2>7, <2>8, <2>9 DEF StoryOf
<1>5. CASE LoadForStart(w) /\ job[w] = e
  <2>1. row' = row /\ runs' = runs /\ job' = job /\ queue' = queue
    BY <1>5 DEF LoadForStart
  <2>2. BeingRun(e)' => BeingRun(e)
    BY <1>2, <1>5 DEF LoadForStart, BeingRun, Runs
  <2>3. Undecided(e) /\ Blank(row[e])
    BY <1>1, <1>5 DEF LoadForStart, Undecided, StoryOf
  <2>4. \A v \in Workers : job'[v] = e =>
          /\ pc'[v] \in {"starting", "writing"} => Blank(seen'[v])
          /\ pc'[v] = "writing" => pc[v] = "writing" /\ seen'[v] = seen[v]
    BY <1>1, <1>2, <1>5, <2>3 DEF LoadForStart, StoryOf
  <2>5. QED
    BY <1>1, <1>2, <2>1, <2>2, <2>3, <2>4 DEF StoryOf, VerdictOf
<1>6. CASE LoadForFinish(w) /\ job[w] = e
  <2>1. row' = row /\ runs' = runs /\ job' = job /\ queue' = queue
    BY <1>6 DEF LoadForFinish
  <2>2. BeingRun(e)
    BY <1>6 DEF LoadForFinish, BeingRun, Runs
  <2>3. Blank(row[e]) /\ row[e].status \in {"RUNNING", "CANCELLED"}
    BY <1>1, <2>2 DEF StoryOf
  <2>4. \A r \in Recoverers : recovery[r][e] = AbsentRow
    BY <1>1, <2>2 DEF StoryOf
  <2>5. \A v \in Workers : job'[v] = e =>
          /\ pc'[v] \in {"starting", "writing"} => Blank(seen'[v])
          /\ pc'[v] = "writing" => \/ seen'[v].status = "RUNNING"
                                   \/ seen'[v].status = "CANCELLED" /\ row[e].status = "CANCELLED"
    BY <1>1, <1>2, <1>6, <2>3 DEF LoadForFinish, StoryOf
  <2>6. api[e] # "failed"
    BY <1>1, <1>6 DEF LoadForFinish, CustodyOf, Holds
  <2>7. QED
    BY <1>1, <1>2, <2>1, <2>3, <2>4, <2>5, <2>6 DEF StoryOf, VerdictOf
<1>7. CASE ~((CommitStart(w) \/ CommitFinish(w) \/ LoadForStart(w) \/ LoadForFinish(w)) /\ job[w] = e)
  <2>1. row'[e] = row[e] /\ runs'[e] = runs[e]
    BY <1>2, <1>7 DEF WorkerStep, Pop, Claim, LoadForStart, CommitStart, SandboxEnds,
                      LoadForFinish, CommitFinish, Ack, Abort
  <2>2. Undecided(e)' => Undecided(e)
    BY <1>2, <1>7 DEF WorkerStep, Pop, Claim, LoadForStart, CommitStart, SandboxEnds,
                      LoadForFinish, CommitFinish, Ack, Abort, GoIdle, Undecided
  <2>3. BeingRun(e)' => BeingRun(e)
    BY <1>2, <1>7 DEF WorkerStep, Pop, Claim, LoadForStart, CommitStart, SandboxEnds,
                      LoadForFinish, CommitFinish, Ack, Abort, GoIdle, BeingRun, Runs
  <2>4. \A v \in Workers : job'[v] = e /\ pc'[v] \in {"starting", "writing"} =>
          job[v] = e /\ pc'[v] = pc[v] /\ seen'[v] = seen[v]
    BY <1>2, <1>7 DEF WorkerStep, Pop, Claim, LoadForStart, CommitStart, SandboxEnds,
                      LoadForFinish, CommitFinish, Ack, Abort, GoIdle
  <2>5. QED
    BY <1>1, <1>2, <2>1, <2>2, <2>3, <2>4 DEF StoryOf, VerdictOf
<1>8. QED
  BY <1>3, <1>4, <1>5, <1>6, <1>7

LEMMA StoryNext == TypeInv /\ Loads /\ Custody /\ Story /\ [Next]_vars => Story'
<1> SUFFICES ASSUME TypeInv, Loads, Custody, Story, [Next]_vars PROVE Story'
  OBVIOUS
<1>1. CASE UNCHANGED vars
  BY <1>1 DEF Story, StoryOf, VerdictOf, Undecided, BeingRun, Runs, vars
<1>2. CASE Next
  BY <1>1, <1>2, StoryApi, StoryCancel, StoryWorker, StoryRecovery DEF Next, Quiescent
<1>3. QED
  BY <1>1, <1>2

\* The inductive invariant of the pipeline.
PipelineInv == TypeInv /\ Loads /\ Custody /\ Story

THEOREM PipelineCorrect == Spec => []PipelineInv
<1>1. Init => PipelineInv
  BY TypeInit, LoadsInit, CustodyInit, StoryInit DEF PipelineInv
<1>2. PipelineInv /\ [Next]_vars => PipelineInv'
  BY TypeNext, LoadsNext, CustodyNext, StoryNext DEF PipelineInv
<1>3. QED
  BY <1>1, <1>2, PTL DEF Spec

\* The columns of a committed row tell one story.
THEOREM VerdictCorrect == Spec => []VerdictAgrees
<1>1. PipelineInv => VerdictAgrees
  BY DEF PipelineInv, Story, StoryOf, VerdictAgrees
<1>2. QED
  BY PipelineCorrect, <1>1, PTL

\* One step of a calm execution is one the table of shared/db/models.py allows.
LEMMA CalmStep ==
  ASSUME PipelineInv, [Next]_vars, NEW e \in Calm
  PROVE  C!LifecycleStep(row[e].status, row'[e].status)
<1> USE DEF C!LifecycleStep, C!Birth, C!CanMove, C!ValidTransitions
<1>1. e \in Execs /\ e \notin Cancellable /\ LoadsOf(e) /\ CustodyOf(e) /\ StoryOf(e)
  BY DEF Calm, PipelineInv, Loads, Custody, Story
<1>2. row[e].status # "CANCELLED"
  BY <1>1 DEF LoadsOf
<1>3. ASSUME Submit(e), row'[e].status = "QUEUED"
      PROVE  C!LifecycleStep(row[e].status, row'[e].status)
  BY <1>1, <1>3 DEF Submit, LoadsOf
<1>4. ASSUME MarkEnqueueFailed(e), row'[e].status = "FAILED"
      PROVE  C!LifecycleStep(row[e].status, row'[e].status)
  BY <1>1, <1>2, <1>4 DEF MarkEnqueueFailed, StoryOf
<1>5. ~CancelCommit(e)
  BY <1>1 DEF CancelCommit, LoadsOf
<1>6. ASSUME NEW w \in Workers, StartedBy(w, e)
      PROVE  C!LifecycleStep(row[e].status, row'[e].status)
  <2>1. Undecided(e) /\ Holds(w, e)
    BY <1>6 DEF StartedBy, CommitStart, Undecided, Holds
  <2>2. row[e].status = "QUEUED"
    BY <1>1, <1>2, <2>1 DEF CustodyOf, LoadsOf
  <2>3. QED
    BY <1>6, <2>2 DEF StartedBy
<1>7. ASSUME NEW w \in Workers, FinishedBy(w, e)
      PROVE  C!LifecycleStep(row[e].status, row'[e].status)
  <2>1. BeingRun(e)
    BY <1>7 DEF FinishedBy, CommitFinish, BeingRun, Runs
  <2>2. row[e].status = "RUNNING"
    BY <1>1, <1>2, <2>1 DEF StoryOf
  <2>3. row'[e].status \in {"RUNNING", "COMPLETED", "TIMED_OUT", "FAILED"}
    BY <1>7, <2>2, ReportedStatus DEF FinishedBy
  <2>4. QED
    BY <2>2, <2>3
<1>8. ASSUME NEW r \in Recoverers, RecoveredBy(r, e)
      PROVE  C!LifecycleStep(row[e].status, row'[e].status)
  <2>1. row[e].status \in {"RUNNING", "FAILED"}
    BY <1>1, <1>2, <1>8 DEF RecoveredBy, StoryOf
  <2>2. QED
    BY <1>8, <2>1 DEF RecoveredBy
<1>9. RowStep(e)
  BY <1>1, EveryRowStep DEF PipelineInv
<1>10. QED
  BY <1>3, <1>4, <1>5, <1>6, <1>7, <1>8, <1>9 DEF RowStep

\* The rows of the calm executions follow the state machine of
\* shared/db/models.py: the pipeline implements ExecutionLifecycle.
THEOREM CalmImplementsLifecycle == Spec => CalmLifecycle
<1> DEFINE status == [e \in Calm |-> row[e].status]
<1>1. Init => C!Init
  BY BuiltColumns DEF Init, C!Init, Calm
<1>2. PipelineInv /\ PipelineInv' /\ [Next]_vars => [C!Next]_status
  <2> SUFFICES ASSUME PipelineInv, PipelineInv', [Next]_vars PROVE C!Next
    OBVIOUS
  <2>1. \A e \in Calm : row'[e].status \in C!Status
    BY DEF PipelineInv, TypeInv, TypeOK, Row, Calm, L!Status, C!Status, L!Terminal, C!Terminal
  <2>2. \A e \in Calm : C!LifecycleStep(status[e], status'[e])
    BY CalmStep
  <2>3. QED
    BY <2>1, <2>2 DEF C!Next
<1>3. QED
  BY <1>1, <1>2, PipelineCorrect, PTL DEF Spec, CalmLifecycle, C!Spec

-----------------------------------------------------------------------------
(* Nobody is left to himself: for every execution, as long as no fault has *)
(* hit it.                                                                 *)

\* RunningIsBeingRun with what the worker will do: when it is about to report
\* it has loaded RUNNING, so that its report ends the execution.
OwnerReports ==
  \A e \in Execs \ struck : row[e].status = "RUNNING" =>
    \E w \in Workers : /\ Runs(w, e)
                       /\ row[e].worker = w
                       /\ pc[w] = "writing" => seen[w].status = "RUNNING"

Hands == QueuedIsOnItsWay /\ OwnerReports /\ ProcessingIsHeld

LEMMA HandsInit == Init => Hands
<1> SUFFICES ASSUME Init PROVE Hands
  OBVIOUS
<1>1. \A e \in Execs : row[e].status = "ABSENT"
  BY BuiltColumns DEF Init
<1>2. QED
  BY <1>1 DEF Init, Hands, QueuedIsOnItsWay, OwnerReports, ProcessingIsHeld

\* A struck execution stays struck.
LEMMA StruckStays == [Next]_vars => struck \subseteq struck'
BY DEF Next, Quiescent, vars, history, ApiNext, Submit, Enqueue, EnqueueRaises,
       MarkEnqueueFailed, ApiDies, CancelNext, CancelLoad, CancelCommit, CancelAborts,
       RecoveryNext, RecoverLoad, RecoverCommit, RecoverAborts, WorkerStep, Pop, Claim,
       LoadForStart, CommitStart, SandboxEnds, LoadForFinish, CommitFinish, Ack, Abort

\* Only its own steps change what a worker holds.
LEMMA WorkerFrame ==
  ASSUME TypeInv, [Next]_vars, NEW w \in Workers
  PROVE  \/ WorkerStep(w) \/ Abort(w)
         \/ pc'[w] = pc[w] /\ job'[w] = job[w] /\ seen'[w] = seen[w]
<1>1. ASSUME NEW v \in Workers, v # w, WorkerStep(v) \/ Abort(v)
      PROVE  pc'[w] = pc[w] /\ job'[w] = job[w] /\ seen'[w] = seen[w]
  BY <1>1 DEF WorkerStep, Pop, Claim, LoadForStart, CommitStart, SandboxEnds,
              LoadForFinish, CommitFinish, Ack, Abort, GoIdle, Advance, TypeInv, TypeOK
<1>2. QED
  BY <1>1
     DEF Next, Quiescent, vars, workerVars, ApiNext, Submit, Enqueue, EnqueueRaises,
         MarkEnqueueFailed, ApiDies, CancelNext, CancelLoad, CancelCommit, CancelAborts,
         RecoveryNext, RecoverLoad, RecoverCommit, RecoverAborts

LEMMA OwnerNext == TypeInv /\ Loads /\ OwnerReports /\ [Next]_vars => OwnerReports'
<1> SUFFICES ASSUME TypeInv, Loads, OwnerReports, [Next]_vars,
                    NEW e \in Execs, e \notin struck', row'[e].status = "RUNNING"
             PROVE  \E w \in Workers : /\ Runs(w, e)'
                                       /\ row'[e].worker = w
                                       /\ pc'[w] = "writing" => seen'[w].status = "RUNNING"
  BY DEF OwnerReports
<1>1. RowStep(e)
  BY EveryRowStep
<1>2. ASSUME NEW w \in Workers, StartedBy(w, e)
      PROVE  Runs(w, e)' /\ row'[e].worker = w /\ pc'[w] = "sandbox"
  BY <1>2 DEF StartedBy, CommitStart, Advance, Runs, TypeInv, TypeOK
<1>3. CASE ~\E w \in Workers : StartedBy(w, e)
  <2>1. row[e].status = "RUNNING" /\ row'[e].worker = row[e].worker
    BY <1>1, <1>3, ReportedStatus DEF RowStep, FinishedBy, RecoveredBy
  <2>2. PICK w \in Workers : /\ Runs(w, e)
                             /\ row[e].worker = w
                             /\ pc[w] = "writing" => seen[w].status = "RUNNING"
    BY <2>1, StruckStays DEF OwnerReports
  <2>3. ~CommitFinish(w)
    <3> SUFFICES ASSUME CommitFinish(w) PROVE FALSE
      OBVIOUS
    <3>1. seen[w].status = "RUNNING" /\ job[w] = e
      BY <2>2 DEF CommitFinish, Runs
    <3>2. CanMove(seen[w].status, NewStatus(out[w]))
      BY <3>1, ReportedStatus DEF CanMove, L!CanMove, L!ValidTransitions
    <3>3. row'[e].status = NewStatus(out[w])
      BY <3>1, <3>2, FinishWrites
    <3>4. QED
      BY <3>3, ReportedStatus
  <2>4. ASSUME WorkerStep(w) \/ Abort(w)
        PROVE  Runs(w, e)' /\ (pc'[w] = "writing" => seen'[w].status = "RUNNING")
    BY <2>1, <2>2, <2>3, <2>4
       DEF WorkerStep, Pop, Claim, LoadForStart, CommitStart, SandboxEnds, LoadForFinish,
           CommitFinish, Ack, Abort, GoIdle, Advance, Runs, Exists, TypeInv, TypeOK
  <2>5. Runs(w, e)' /\ (pc'[w] = "writing" => seen'[w].status = "RUNNING")
    BY <2>2, <2>4, WorkerFrame DEF Runs
  <2>6. QED
    BY <2>1, <2>2, <2>5
<1>4. QED
  BY <1>2, <1>3

LEMMA QueuedNext == TypeInv /\ Loads /\ QueuedIsOnItsWay /\ [Next]_vars => QueuedIsOnItsWay'
<1> DEFINE Deciding(w, e) == pc[w] \in {"popped", "claimed", "starting"} /\ job[w] = e
<1> SUFFICES ASSUME TypeInv, Loads, QueuedIsOnItsWay, [Next]_vars,
                    NEW e \in Execs, e \notin struck', row'[e].status = "QUEUED"
             PROVE  \/ api'[e] \in {"enqueue", "failed"}
                    \/ e \in queue'
                    \/ \E w \in Workers : Deciding(w, e)'
  BY DEF QueuedIsOnItsWay
<1>1. RowStep(e)
  BY EveryRowStep
<1>2. CASE Submit(e)
  BY <1>2 DEF Submit, TypeInv, TypeOK
<1>3. CASE ~Submit(e)
  <2>1. row[e].status = "QUEUED"
    BY <1>1, <1>3, ReportedStatus DEF RowStep, StartedBy, FinishedBy, RecoveredBy
  <2>2. CASE api[e] \in {"enqueue", "failed"}
    <3>1. ~MarkEnqueueFailed(e)
      BY EnqueueFailedWrites
    <3>2. ASSUME NEW a \in Execs, ApiNext(a)
          PROVE  api'[e] \in {"enqueue", "failed"} \/ e \in queue'
      BY <2>2, <3>1, <3>2 DEF ApiNext, Submit, Enqueue, EnqueueRaises, MarkEnqueueFailed,
                              ApiDies, TypeInv, TypeOK
    <3>3. QED
      BY <2>2, <3>2
         DEF Next, Quiescent, vars, CancelNext, CancelLoad, CancelCommit, CancelAborts,
             RecoveryNext, RecoverLoad, RecoverCommit, RecoverAborts, WorkerStep, Pop, Claim,
             LoadForStart, CommitStart, SandboxEnds, LoadForFinish, CommitFinish, Ack, Abort
  <2>3. CASE e \in queue
    <3>1. ASSUME NEW w \in Workers, Pop(w)
          PROVE  e \in queue' \/ Deciding(w, e)'
      BY <2>3, <3>1 DEF Pop, Advance, TypeInv, TypeOK
    <3>2. QED
      BY <2>3, <3>1
         DEF Next, Quiescent, vars, ApiNext, Submit, Enqueue, EnqueueRaises,
             MarkEnqueueFailed, ApiDies, CancelNext, CancelLoad, CancelCommit, CancelAborts,
             RecoveryNext, RecoverLoad, RecoverCommit, RecoverAborts, WorkerStep, Claim,
             LoadForStart, CommitStart, SandboxEnds, LoadForFinish, CommitFinish, Ack, Abort
  <2>4. ASSUME NEW w \in Workers, Deciding(w, e)
        PROVE  Deciding(w, e)'
    <3>1. ~CommitStart(w)
      BY <2>4, StartWrites DEF CommitStart, Loads, StartsQueued
    <3>2. CanMove(row[e].status, "RUNNING")
      BY <2>1 DEF CanMove, L!CanMove, L!ValidTransitions
    <3>3. ASSUME WorkerStep(w) \/ Abort(w) PROVE Deciding(w, e)'
      BY <2>4, <3>1, <3>2, <3>3
         DEF WorkerStep, Pop, Claim, LoadForStart, SandboxEnds, LoadForFinish,
             CommitFinish, Ack, Abort, Advance, TypeInv, TypeOK
    <3>4. QED
      BY <2>4, <3>3, WorkerFrame
  <2>5. e \notin struck
    BY StruckStays
  <2>6. QED
    BY <2>1, <2>2, <2>3, <2>4, <2>5 DEF QueuedIsOnItsWay
<1>4. QED
  BY <1>2, <1>3

LEMMA ProcessingNext == TypeInv /\ ProcessingIsHeld /\ [Next]_vars => ProcessingIsHeld'
<1> SUFFICES ASSUME TypeInv, ProcessingIsHeld, [Next]_vars,
                    NEW e \in processing', e \notin struck'
             PROVE  \E w \in Workers : Holds(w, e)'
  BY DEF ProcessingIsHeld
<1>1. e \notin struck
  BY StruckStays
<1>2. CASE e \in processing
  <2>1. PICK w \in Workers : Holds(w, e)
    BY <1>1, <1>2 DEF ProcessingIsHeld
  <2>2. ~Ack(w)
    BY <2>1 DEF Ack, Holds
  <2>3. ASSUME WorkerStep(w) \/ Abort(w) PROVE Holds(w, e)'
    BY <2>1, <2>2, <2>3
       DEF WorkerStep, Pop, Claim, LoadForStart, CommitStart, SandboxEnds, LoadForFinish,
           CommitFinish, Abort, Advance, Holds, TypeInv, TypeOK
  <2>4. QED
    BY <2>1, <2>3, WorkerFrame DEF Holds
<1>3. CASE e \notin processing
  <2>1. PICK w \in Workers : Claim(w) /\ job[w] = e
    BY <1>3
       DEF Next, Quiescent, vars, history, ApiNext, Submit, Enqueue, EnqueueRaises,
           MarkEnqueueFailed, ApiDies, CancelNext, CancelLoad, CancelCommit, CancelAborts,
           RecoveryNext, RecoverLoad, RecoverCommit, RecoverAborts, WorkerStep, Pop, Claim,
           LoadForStart, CommitStart, SandboxEnds, LoadForFinish, CommitFinish, Ack, Abort
  <2>2. Holds(w, e)'
    BY <2>1 DEF Claim, Advance, Holds, TypeInv, TypeOK
  <2>3. QED
    BY <2>2
<1>4. QED
  BY <1>2, <1>3

\* Unless a fault hits it, an execution is never left to itself.
THEOREM NeverLeftToItself == Spec => []InGoodHands
<1>1. TypeInv /\ Loads /\ Hands /\ [Next]_vars => Hands'
  BY OwnerNext, QueuedNext, ProcessingNext DEF Hands
<1>2. Hands => InGoodHands
  BY DEF Hands, OwnerReports, InGoodHands, RunningIsBeingRun
<1>3. QED
  BY HandsInit, LoadsCorrect, <1>1, <1>2, PTL DEF Spec

-----------------------------------------------------------------------------
(* How often a job exists.                                                 *)

\* How often the job of e may have been stored so far.
Stored(e) ==
  IF api[e] = "new" THEN 0
  ELSE IF e \in Flaky THEN IF api[e] = "enqueue" THEN tries[e] ELSE MaxAttempts
  ELSE IF api[e] = "enqueue" THEN 0 ELSE 1

\* The inductive form of JobsAreCounted: no more jobs than were stored.  Only
\* those who pop can hold a job, so they are finitely many, whatever Workers is.
Counted ==
  \A e \in Execs : IsFiniteSet(Deciders(e)) /\ Jobs(e) <= Stored(e)

LEMMA CountedInit == Init => Counted
<1> SUFFICES ASSUME Init, NEW e \in Execs
             PROVE  IsFiniteSet(Deciders(e)) /\ Jobs(e) <= Stored(e)
  BY DEF Counted
<1>1. Deciders(e) = {} /\ e \notin queue /\ runs[e] = 0 /\ api[e] = "new"
  BY DEF Init, Deciders
<1>2. IsFiniteSet(Deciders(e)) /\ Cardinality(Deciders(e)) = 0
  BY <1>1, FS_EmptySet
<1>3. QED
  BY <1>1, <1>2 DEF Jobs, Stored

\* A step that neither stores nor pops the job of e adds nothing to it: at most
\* a worker gives it up, or commits RUNNING and counts as a start instead.
NoMoreJobs(e) ==
  \/ Deciders(e)' \subseteq Deciders(e) /\ runs'[e] = runs[e]
  \/ \E w \in Deciders(e) : Deciders(e)' = Deciders(e) \ {w} /\ runs'[e] = runs[e] + 1

LEMMA JobsWorker ==
  ASSUME TypeInv, NEW w \in Workers, WorkerStep(w) \/ Abort(w), NEW e \in Execs
  PROVE  \/ NoMoreJobs(e) /\ queue' = queue
         \/ Pop(w) /\ job'[w] # e /\ NoMoreJobs(e) /\ (e \in queue' <=> e \in queue)
         \/ /\ Pop(w) /\ job'[w] = e /\ e \in queue /\ e \notin queue'
            /\ w \notin Deciders(e) /\ Deciders(e)' = Deciders(e) \cup {w}
            /\ runs'[e] = runs[e]
<1> USE DEF TypeInv, TypeOK, Advance, history, workerVars
<1>o. \A v \in Workers \ {w} : pc'[v] = pc[v] /\ job'[v] = job[v]
  BY DEF WorkerStep, Pop, Claim, LoadForStart, CommitStart, SandboxEnds, LoadForFinish,
         CommitFinish, Ack, Abort, GoIdle
<1>1. CASE Pop(w)
  <2>0. pc[w] = "idle" /\ pc'[w] = "popped" /\ runs' = runs
    BY <1>1 DEF Pop
  <2>1. CASE job'[w] = e
    <3>1. e \in queue /\ e \notin queue'
      BY <1>1, <2>1 DEF Pop
    <3>2. w \notin Deciders(e) /\ Deciders(e)' = Deciders(e) \cup {w}
      BY <1>o, <2>0, <2>1 DEF Deciders
    <3>3. QED
      BY <1>1, <2>0, <2>1, <3>1, <3>2
  <2>2. CASE job'[w] # e
    <3>1. Deciders(e)' \subseteq Deciders(e) /\ runs'[e] = runs[e]
      BY <1>o, <2>0, <2>2 DEF Deciders
    <3>2. e \in queue' <=> e \in queue
      BY <1>1, <2>2 DEF Pop
    <3>3. QED
      BY <1>1, <2>2, <3>1, <3>2 DEF NoMoreJobs
  <2>3. QED
    BY <2>1, <2>2
<1>2. CASE CommitStart(w)
  <2>1. queue' = queue
    BY <1>2 DEF CommitStart
  <2>2. CASE job[w] = e
    <3>1. runs'[e] = runs[e] + 1
      BY <1>2, <2>2 DEF CommitStart
    <3>2. w \in Deciders(e) /\ Deciders(e)' = Deciders(e) \ {w}
      BY <1>2, <2>2 DEF CommitStart, Deciders
    <3>3. QED
      BY <2>1, <3>1, <3>2 DEF NoMoreJobs
  <2>3. CASE job[w] # e
    BY <1>2, <2>1, <2>3 DEF CommitStart, Deciders, NoMoreJobs
  <2>4. QED
    BY <2>2, <2>3
<1>3. CASE ~Pop(w) /\ ~CommitStart(w)
  <2>1. queue' = queue /\ runs' = runs
    BY <1>3 DEF WorkerStep, Claim, LoadForStart, SandboxEnds, LoadForFinish,
                CommitFinish, Ack, Abort
  <2>2. /\ pc'[w] \in {"popped", "claimed", "starting"} =>
             pc[w] \in {"popped", "claimed", "starting"}
        /\ pc'[w] # "idle" => job'[w] = job[w]
    BY <1>3 DEF WorkerStep, Claim, LoadForStart, SandboxEnds, LoadForFinish,
                CommitFinish, Ack, Abort, GoIdle
  <2>4. Deciders(e)' \subseteq Deciders(e)
    BY <1>o, <2>2 DEF Deciders
  <2>3. QED
    BY <2>1, <2>4 DEF NoMoreJobs
<1>4. QED
  BY <1>1, <1>2, <1>3

\* What NoMoreJobs means for the numbers.
LEMMA NoMoreIsNoMore ==
  ASSUME TypeInv, NEW e \in Execs, IsFiniteSet(Deciders(e)), NoMoreJobs(e)
  PROVE  /\ IsFiniteSet(Deciders(e)')
         /\ runs'[e] + Cardinality(Deciders(e)') <= runs[e] + Cardinality(Deciders(e))
<1>0. runs[e] \in Nat /\ Cardinality(Deciders(e)) \in Nat
  BY FS_CardinalityType DEF TypeInv, TypeOK
<1>1. CASE Deciders(e)' \subseteq Deciders(e) /\ runs'[e] = runs[e]
  <2>1. /\ IsFiniteSet(Deciders(e)')
        /\ Cardinality(Deciders(e)') <= Cardinality(Deciders(e))
    BY <1>1, FS_Subset
  <2>2. Cardinality(Deciders(e)') \in Nat
    BY <2>1, FS_CardinalityType
  <2>3. QED
    BY <1>0, <1>1, <2>1, <2>2
<1>2. ASSUME NEW w \in Deciders(e), Deciders(e)' = Deciders(e) \ {w}, runs'[e] = runs[e] + 1
      PROVE  /\ IsFiniteSet(Deciders(e)')
             /\ runs'[e] + Cardinality(Deciders(e)') <= runs[e] + Cardinality(Deciders(e))
  <2>1. /\ IsFiniteSet(Deciders(e)')
        /\ Cardinality(Deciders(e)') = Cardinality(Deciders(e)) - 1
    BY <1>2, FS_RemoveElement
  <2>2. QED
    BY <1>0, <1>2, <2>1
<1>3. QED
  BY <1>1, <1>2 DEF NoMoreJobs

\* A request stores the job of e, and uses an attempt for it, or adds nothing.
LEMMA JobsApi ==
  ASSUME TypeInv, NEW a \in Execs, ApiNext(a), NEW e \in Execs
  PROVE  /\ Deciders(e)' = Deciders(e) /\ runs' = runs
         /\ Stored(e) \in Nat /\ Stored(e)' \in Nat
         /\ \/ (e \in queue' <=> e \in queue) /\ Stored(e) <= Stored(e)'
            \/ e \in queue' /\ Stored(e) + 1 <= Stored(e)'
<1> USE ConstantsAssumption DEF TypeInv, TypeOK, AttemptLeft
<1>1. Deciders(e)' = Deciders(e) /\ runs' = runs
  BY DEF ApiNext, Submit, Enqueue, EnqueueRaises, MarkEnqueueFailed, ApiDies, workerVars,
         history, Deciders
<1>2. tries[e] \in Nat /\ tries'[e] \in Nat
  BY TypeNext DEF ApiNext, Submit, Enqueue, EnqueueRaises, MarkEnqueueFailed, ApiDies
<1>3. Stored(e) \in Nat /\ Stored(e)' \in Nat
  BY <1>2 DEF Stored
<1>4. CASE a # e
  <2>1. (e \in queue' <=> e \in queue) /\ api'[e] = api[e] /\ tries'[e] = tries[e]
    BY <1>4 DEF ApiNext, Submit, Enqueue, EnqueueRaises, MarkEnqueueFailed, ApiDies
  <2>2. Stored(e)' = Stored(e)
    BY <2>1 DEF Stored
  <2>3. QED
    BY <1>1, <1>3, <2>1, <2>2
<1>5. CASE Submit(e) \/ MarkEnqueueFailed(e) \/ ApiDies(e)
  <2>1. queue' = queue
    BY <1>5 DEF Submit, MarkEnqueueFailed, ApiDies
  <2>2. Stored(e) <= Stored(e)'
    BY <1>2, <1>5 DEF Stored, Submit, MarkEnqueueFailed, ApiDies
  <2>3. QED
    BY <1>1, <1>3, <2>1, <2>2
<1>6. CASE Enqueue(e)
  <2>1. e \in queue' /\ api[e] = "enqueue" /\ api'[e] = "done" /\ tries'[e] = tries[e]
    BY <1>6 DEF Enqueue
  <2>2. Stored(e) + 1 <= Stored(e)'
    BY <1>2, <2>1 DEF Stored
  <2>3. QED
    BY <1>1, <1>3, <2>1, <2>2
<1>7. CASE EnqueueRaises(e)
  <2>1. /\ api[e] = "enqueue" /\ tries'[e] = tries[e] + 1
        /\ api'[e] = IF tries[e] + 1 < MaxAttempts THEN "enqueue" ELSE "failed"
        /\ queue' = queue \/ (e \in Flaky /\ e \in queue')
    BY <1>7 DEF EnqueueRaises
  <2>5. tries[e] + 1 <= MaxAttempts
    BY <1>2, <2>1
  <2>2. CASE e \in Flaky
    <3>1. Stored(e) = tries[e] /\ Stored(e)' = tries[e] + 1
      BY <1>2, <2>1, <2>2, <2>5 DEF Stored
    <3>2. QED
      BY <1>1, <1>3, <2>1, <2>2, <3>1
  <2>3. CASE e \notin Flaky
    <3>1. Stored(e) <= Stored(e)'
      BY <1>2, <2>1, <2>3 DEF Stored
    <3>2. QED
      BY <1>1, <1>3, <2>1, <2>3, <3>1
  <2>4. QED
    BY <2>2, <2>3
<1>8. QED
  BY <1>4, <1>5, <1>6, <1>7 DEF ApiNext

LEMMA CountedNext == TypeInv /\ Counted /\ [Next]_vars => Counted'
<1> DEFINE InQueue(S, e) == IF e \in S THEN 1 ELSE 0
<1> SUFFICES ASSUME TypeInv, Counted, [Next]_vars, NEW e \in Execs
             PROVE  IsFiniteSet(Deciders(e)') /\ Jobs(e)' <= Stored(e)'
  BY DEF Counted
<1>0. /\ IsFiniteSet(Deciders(e)) /\ Jobs(e) <= Stored(e)
      /\ runs[e] \in Nat /\ Cardinality(Deciders(e)) \in Nat
      /\ InQueue(queue, e) \in 0 .. 1 /\ InQueue(queue', e) \in 0 .. 1
      /\ Jobs(e) = runs[e] + Cardinality(Deciders(e)) + InQueue(queue, e)
      /\ Jobs(e)' = runs'[e] + Cardinality(Deciders(e)') + InQueue(queue', e)
  <2>1. IsFiniteSet(Deciders(e)) /\ Jobs(e) <= Stored(e)
    BY DEF Counted
  <2>2. runs[e] \in Nat /\ Cardinality(Deciders(e)) \in Nat
    BY <2>1, FS_CardinalityType DEF TypeInv, TypeOK
  <2>3. QED
    BY <2>1, <2>2 DEF Jobs
<1>n. Stored(e) \in Nat /\ tries[e] \in Nat
  BY ConstantsAssumption DEF Stored, TypeInv, TypeOK
<1>t. TypeInv'
  BY TypeNext
<1>m. runs'[e] \in Nat
  BY <1>t DEF TypeInv, TypeOK
<1>1. ASSUME NEW a \in Execs, ApiNext(a)
      PROVE  IsFiniteSet(Deciders(e)') /\ Jobs(e)' <= Stored(e)'
  <2>1. /\ Deciders(e)' = Deciders(e) /\ runs' = runs
        /\ Stored(e) \in Nat /\ Stored(e)' \in Nat
        /\ \/ (e \in queue' <=> e \in queue) /\ Stored(e) <= Stored(e)'
           \/ e \in queue' /\ Stored(e) + 1 <= Stored(e)'
    BY <1>1, JobsApi
  <2>2. Jobs(e)' = runs[e] + Cardinality(Deciders(e)) + InQueue(queue', e)
    BY <1>0, <2>1
  <2>3. IsFiniteSet(Deciders(e)')
    BY <1>0, <2>1
  <2>4. CASE (e \in queue' <=> e \in queue) /\ Stored(e) <= Stored(e)'
    <3>1. InQueue(queue', e) = InQueue(queue, e)
      BY <2>4
    <3> HIDE DEF InQueue
    <3>2. QED
      BY <1>0, <2>1, <2>2, <2>3, <2>4, <3>1
  <2>5. CASE e \in queue' /\ Stored(e) + 1 <= Stored(e)'
    <3> HIDE DEF InQueue
    <3>1. QED
      BY <1>0, <2>1, <2>2, <2>3, <2>5
  <2>6. QED
    BY <2>1, <2>4, <2>5
<1>2. ASSUME NEW w \in Workers, WorkerStep(w) \/ Abort(w)
      PROVE  IsFiniteSet(Deciders(e)') /\ Jobs(e)' <= Stored(e)'
  <2>1. Stored(e)' = Stored(e)
    BY <1>2 DEF WorkerStep, Pop, Claim, LoadForStart, CommitStart, SandboxEnds,
                LoadForFinish, CommitFinish, Ack, Abort, Stored
  <2>2. CASE NoMoreJobs(e) /\ (e \in queue' <=> e \in queue)
    <3>1. InQueue(queue', e) = InQueue(queue, e)
      BY <2>2
    <3>2. /\ IsFiniteSet(Deciders(e)')
          /\ runs'[e] + Cardinality(Deciders(e)') <= runs[e] + Cardinality(Deciders(e))
      BY <1>0, <2>2, NoMoreIsNoMore
    <3>3. Cardinality(Deciders(e)') \in Nat
      BY <3>2, FS_CardinalityType
    <3> HIDE DEF InQueue
    <3>4. QED
      BY <1>0, <1>n, <1>m, <2>1, <3>1, <3>2, <3>3
  <2>3. CASE /\ e \in queue /\ e \notin queue'
             /\ w \notin Deciders(e) /\ Deciders(e)' = Deciders(e) \cup {w}
             /\ runs'[e] = runs[e]
    <3>1. InQueue(queue, e) = 1 /\ InQueue(queue', e) = 0
      BY <2>3
    <3>2. /\ IsFiniteSet(Deciders(e)')
          /\ Cardinality(Deciders(e)') = Cardinality(Deciders(e)) + 1
      BY <1>0, <2>3, FS_AddElement
    <3> HIDE DEF InQueue
    <3>3. QED
      BY <1>0, <1>n, <2>1, <2>3, <3>1, <3>2
  <2>4. QED
    BY <1>2, <2>2, <2>3, JobsWorker
<1>3. CASE UNCHANGED <<queue, runs, pc, job, api, tries>>
  <2>1. Deciders(e)' = Deciders(e) /\ Stored(e)' = Stored(e)
    BY <1>3 DEF Deciders, Stored
  <2>2. Jobs(e)' = Jobs(e)
    BY <1>0, <1>3, <2>1
  <2>3. QED
    BY <1>0, <2>1, <2>2
<1>4. QED
  BY <1>1, <1>2, <1>3
     DEF Next, Quiescent, vars, workerVars, history, CancelNext, CancelLoad, CancelCommit,
         CancelAborts, RecoveryNext, RecoverLoad, RecoverCommit, RecoverAborts

\* A job is never multiplied: whatever replies are lost, whoever races for it,
\* crashes or is cancelled, there are no more copies of it, waiting, held or
\* started, than attempts of enqueue_job (redis_client.py:146-157).
THEOREM JobsNeverMultiply == Spec => []JobsAreCounted
<1>1. TypeInv /\ Counted => JobsAreCounted
  <2> SUFFICES ASSUME TypeInv, Counted, NEW e \in Execs
               PROVE  Jobs(e) <= IF e \in Flaky THEN MaxAttempts ELSE 1
    BY DEF JobsAreCounted
  <2>1. /\ Stored(e) \in Nat
        /\ Stored(e) <= IF e \in Flaky THEN MaxAttempts ELSE 1
    BY ConstantsAssumption DEF Stored, TypeInv, TypeOK
  <2>2. IsFiniteSet(Deciders(e)) /\ Jobs(e) <= Stored(e)
    BY DEF Counted
  <2>3. Jobs(e) \in Nat
    BY <2>2, FS_CardinalityType DEF Jobs, TypeInv, TypeOK
  <2>4. QED
    BY <2>1, <2>2, <2>3, ConstantsAssumption
<1>2. QED
  BY <1>1, TypeInit, TypeNext, CountedInit, CountedNext, PTL DEF Spec

StartsBounded == \A e \in Execs : runs[e] <= IF e \in Flaky THEN MaxAttempts ELSE 1

\* So the sandbox is started for an execution at most as often as its job was
\* stored, and at most once unless a reply was lost (worker.py:115-145).
THEOREM StartsAreBounded == Spec => []StartsBounded
<1>1. TypeInv /\ Counted /\ JobsAreCounted => StartsBounded
  <2> SUFFICES ASSUME TypeInv, Counted, JobsAreCounted, NEW e \in Execs
               PROVE  runs[e] <= IF e \in Flaky THEN MaxAttempts ELSE 1
    BY DEF StartsBounded
  <2>1. runs[e] \in Nat /\ Cardinality(Deciders(e)) \in Nat
    BY FS_CardinalityType DEF Counted, TypeInv, TypeOK
  <2>2. runs[e] <= Jobs(e) /\ Jobs(e) \in Nat
    BY <2>1 DEF Jobs
  <2>3. QED
    BY <2>1, <2>2, ConstantsAssumption DEF JobsAreCounted
<1>2. QED
  BY <1>1, JobsNeverMultiply, TypeInit, TypeNext, CountedInit, CountedNext, PTL DEF Spec

=============================================================================
