------------------------------ MODULE Scheduler ------------------------------
(***************************************************************************)
(* Replicas of scheduler/scheduler.py fire cron schedules under the lock   *)
(* of DistributedLock, while the users edit and delete those schedules     *)
(* (api/routers/schedules.py).                                             *)
(*                                                                         *)
(* Firing is two transactions with Redis between them: the execution is    *)
(* committed, its job enqueued, and only then next_run_at is moved on.     *)
(* What becomes of an enqueued execution is the matter of                  *)
(* ExecutionPipeline.                                                      *)
(***************************************************************************)
EXTENDS DistributedLock, Sequences, FiniteSets

CONSTANTS
  Schedules,
  NoSchedule,
  Crons,                               \* cron expressions
  CronNext(_, _),                      \* croniter(c, t).get_next(datetime)
  MaxGap,      \* scheduler_poll_interval * scheduler_max_missed_runs
  Recron,      \* schedules whose user may change the cron expression
  Horizon,     \* bound on the clock
  LastChange,  \* bound: no fault and no request of a user after that time
  MaxFaults,   \* bound on crashes and failed transactions
  MaxEdits     \* bound on the updates of each schedule

ASSUME SchedulerAssumption ==
  /\ NoSchedule \notin Schedules
  /\ Crons # {}
  /\ MaxGap \in Nat
  /\ Recron \subseteq Schedules
  /\ Horizon \in Nat
  /\ LastChange \in 0..Horizon
  /\ MaxFaults \in Nat
  /\ MaxEdits \in Nat

\* All that is used of croniter: the next occurrence lies after the base.
ASSUME CronAssumption ==
  \A c \in Crons : \A t \in 0..Horizon : CronNext(c, t) \in Nat /\ CronNext(c, t) > t

VARIABLES
  now,                       \* the clock, the same on every host
  row,         \* row[s]: the schedules row, as committed
  edit,        \* edit[s]: the row an update request has loaded, and its new form
  edits,       \* edits[s]: number of updates so far
  executions,  \* the executions rows, in the order of their insertion
  pc,          \* pc[r]: where replica r stands in _tick
  due,         \* due[r]: the due schedules it has not come to yet
  fire,        \* fire[r]: the local variables of _fire_schedule
  faults,      \* number of faults so far
  recast       \* history: schedules whose next_run_at an update sets

users == <<row, edit, edits, recast>>
vars == <<now, lockVars, users, executions, pc, due, fire, faults>>

\* The clients of the lock are the replicas.
Replicas == Clients

Statuses == {"ACTIVE", "PAUSED", "DELETED"}

\* "NEW" and "GONE" stand for the absence of the row.
Row == [status : Statuses \cup {"NEW", "GONE"}, cron : Crons, next : Nat, last : Nat]

NoRow == [status |-> "NEW", cron |-> CHOOSE c \in Crons : TRUE, next |-> 0, last |-> 0]

Exists(s) == row[s].status \in Statuses

\* Of an execution: the occurrence it was fired for, when, what the scheduler
\* made of it, and whether a fault hit the firing after the insertion.
Execution == [schedule : Schedules, slot : Nat, at : 0..Horizon,
              status : {"QUEUED", "FAILED"}, job : BOOLEAN, struck : BOOLEAN]

\* `schedule`, `now`, `fresh`, `execution` (an index, 0 for none) and whether
\* enqueue_job raised.
Firing == [schedule : Schedules \cup {NoSchedule}, at : 0..Horizon, fresh : Row,
           execution : Nat, refused : BOOLEAN]

NoFiring == [schedule |-> NoSchedule, at |-> 0, fresh |-> NoRow,
             execution |-> 0, refused |-> FALSE]

\* Mutant: a unit of work writes every column.
FlushAll(current, old, new) == [f \in DOMAIN current |-> new[f]]

\* A unit of work writes the columns that differ from what it loaded.
Flush(current, old, new) ==
  [f \in DOMAIN current |-> IF new[f] # old[f] THEN new[f] ELSE current[f]]

IsDue(rw, t) == rw.status = "ACTIVE" /\ rw.next <= t

Init ==
  /\ now = 0
  /\ LockInit
  /\ row = [s \in Schedules |-> NoRow]
  /\ edit = [s \in Schedules |-> [old |-> NoRow, new |-> NoRow]]
  /\ edits = [s \in Schedules |-> 0]
  /\ executions = <<>>
  /\ pc = [r \in Replicas |-> "idle"]
  /\ due = [r \in Replicas |-> {}]
  /\ fire = [r \in Replicas |-> NoFiring]
  /\ faults = 0
  /\ recast = {}

-----------------------------------------------------------------------------
(* The users: create_schedule, update_schedule, delete_schedule.           *)

Create(s) ==
  /\ now <= LastChange
  /\ row[s].status = "NEW"
  /\ \E c \in Crons :
       row' = [row EXCEPT ![s] = [status |-> "ACTIVE", cron |-> c,
                                  next |-> CronNext(c, now), last |-> 0]]
  /\ UNCHANGED <<now, lockVars, edit, edits, recast, executions, pc, due, fire, faults>>

\* A row as it is, or with a cron expression and the next_run_at it brings.
Timings(s, rw) ==
  {rw} \cup {[rw EXCEPT !.cron = c, !.next = CronNext(c, now)]
                : c \in IF s \in Recron THEN Crons ELSE {}}

\* What the body of an update may ask for: a status, a cron expression, or both.
Updates(s) == UNION {Timings(s, [row[s] EXCEPT !.status = x]) : x \in Statuses}

UpdateLoad(s) ==
  /\ now <= LastChange
  /\ Exists(s)
  /\ edit[s].old = NoRow
  /\ edits[s] < MaxEdits
  /\ edits' = [edits EXCEPT ![s] = @ + 1]
  /\ \E new \in Updates(s) :
       /\ edit' = [edit EXCEPT ![s] = [old |-> row[s], new |-> new]]
       /\ recast' = IF new.next = row[s].next THEN recast ELSE recast \cup {s}
  /\ UNCHANGED <<now, lockVars, row, executions, pc, due, fire, faults>>

\* Against a row that was deleted meanwhile the UPDATE fails.
UpdateCommit(s) ==
  /\ edit[s].old # NoRow
  /\ row' = IF Exists(s)
              THEN [row EXCEPT ![s] = Flush(@, edit[s].old, edit[s].new)]
              ELSE row
  /\ edit' = [edit EXCEPT ![s] = [old |-> NoRow, new |-> NoRow]]
  /\ UNCHANGED <<now, lockVars, edits, recast, executions, pc, due, fire, faults>>

\* Also the cascade of delete_function.
Delete(s) ==
  /\ now <= LastChange
  /\ Exists(s)
  /\ row' = [row EXCEPT ![s].status = "GONE"]
  /\ UNCHANGED <<now, lockVars, edit, edits, recast, executions, pc, due, fire, faults>>

-----------------------------------------------------------------------------
(* The tick: lock, select what is due, fire it one by one, release.        *)

At(r, from) == pc[r] = from
Advance(r, to) == pc' = [pc EXCEPT ![r] = to]

TickBegins(r) ==
  /\ At(r, "idle")
  /\ Enter(r)
  /\ Advance(r, "locking")
  /\ UNCHANGED <<now, users, executions, due, fire, faults>>

Locks(r) ==
  /\ At(r, "locking")
  /\ \/ Take(r) /\ Advance(r, "selecting")
     \/ GiveUp(r) /\ Advance(r, "leaving")
  /\ UNCHANGED <<now, users, executions, due, fire, faults>>

\* _process_due_schedules: the list is read in a transaction of its own.
SelectDue(r) ==
  /\ At(r, "selecting")
  /\ due' = [due EXCEPT ![r] = {s \in Schedules : IsDue(row[s], now)}]
  /\ Advance(r, "choosing")
  /\ UNCHANGED <<now, lockVars, users, executions, fire, faults>>

AllFired(r) ==
  /\ At(r, "choosing")
  /\ due[r] = {}
  /\ Advance(r, "leaving")
  /\ UNCHANGED <<now, lockVars, users, executions, due, fire, faults>>

Loaded(s) == [NoFiring EXCEPT !.schedule = s, !.at = now, !.fresh = row[s]]

\* Mutant: a second look that takes a schedule up only in the moment it is due.
StillPunctual(s) == row[s].status = "ACTIVE" /\ row[s].next = now

\* The second look at a schedule of the list, in the transaction that fires it.
StillDue(s) == IsDue(row[s], now)

\* _fire_schedule up to its decision: the schedule is fetched again (without a
\* row lock) and dropped if it is no longer due.  Without a function or a
\* version, or too late, the occurrence is skipped; else it will be executed.
FireLoad(r) ==
  /\ At(r, "choosing")
  /\ \E s \in due[r] :
       /\ due' = [due EXCEPT ![r] = @ \ {s}]
       /\ IF StillDue(s)
            THEN /\ fire' = [fire EXCEPT ![r] = Loaded(s)]
                 /\ \/ Advance(r, "skipping")
                    \/ now - row[s].next <= MaxGap /\ Advance(r, "inserting")
            ELSE UNCHANGED <<pc, fire>>
  /\ UNCHANGED <<now, lockVars, users, executions, faults>>

FiringEnds(r) ==
  /\ fire' = [fire EXCEPT ![r] = NoFiring]
  /\ Advance(r, "choosing")

\* Mutant: counted from the occurrence that was due.
FollowingSlot(r) == CronNext(fire[r].fresh.cron, fire[r].fresh.next)

Following(r) == CronNext(fire[r].fresh.cron, fire[r].at)

\* Mutant: the early return leaves next_run_at alone.
SkippedInPlace(r) == fire[r].fresh

\* What a firing leaves in `fresh`: without an execution, and with one.
Skipped(r) == [fire[r].fresh EXCEPT !.next = Following(r)]

\* Mutant: what could not be enqueued stays due.
FiredIfEnqueued(r) ==
  IF fire[r].refused THEN [fire[r].fresh EXCEPT !.last = fire[r].execution]
  ELSE [Skipped(r) EXCEPT !.last = fire[r].execution]

Fired(r) == [Skipped(r) EXCEPT !.last = fire[r].execution]

\* The schedule is written; if it was deleted meanwhile, the UPDATE fails.
Write(r, new) ==
  LET s == fire[r].schedule IN
  row' = IF Exists(s) THEN [row EXCEPT ![s] = Flush(@, fire[r].fresh, new)] ELSE row

\* next_run_at moves on without an execution.
SkipCommit(r) ==
  /\ At(r, "skipping")
  /\ Write(r, Skipped(r))
  /\ FiringEnds(r)
  /\ UNCHANGED <<now, lockVars, edit, edits, recast, executions, due, faults>>

\* The execution is committed.  Its foreign key fails if the schedule is gone.
Insert(r) ==
  LET s == fire[r].schedule IN
  /\ At(r, "inserting")
  /\ IF Exists(s)
       THEN /\ executions' =
                 Append(executions, [schedule |-> s, slot |-> fire[r].fresh.next,
                                     at |-> fire[r].at, status |-> "QUEUED",
                                     job |-> FALSE, struck |-> FALSE])
            /\ fire' = [fire EXCEPT ![r].execution = Len(executions) + 1]
            /\ Advance(r, "enqueueing")
       ELSE FiringEnds(r) /\ UNCHANGED executions
  /\ UNCHANGED <<now, lockVars, users, due, faults>>

\* enqueue_job returns, or raises when its attempts are used up; in that case
\* an attempt may have been applied.
Enqueue(r) ==
  /\ At(r, "enqueueing")
  /\ \E raised, applied \in BOOLEAN :
       /\ raised \/ applied
       /\ fire' = [fire EXCEPT ![r].refused = raised]
       /\ executions' = [executions EXCEPT ![fire[r].execution].job = applied]
  /\ Advance(r, "closing")
  /\ UNCHANGED <<now, lockVars, users, due, faults>>

\* Mutant: the failed enqueue is not written down.
VerdictMissing(r) == "QUEUED"

Verdict(r) == IF fire[r].refused THEN "FAILED" ELSE "QUEUED"

\* The last commit: the failure of the enqueue and the schedule's columns, both
\* or, when the UPDATE of the schedule fails, neither.
Close(r) ==
  /\ At(r, "closing")
  /\ Write(r, Fired(r))
  /\ executions' = IF Exists(fire[r].schedule)
                     THEN [executions EXCEPT ![fire[r].execution].status = Verdict(r)]
                     ELSE executions
  /\ FiringEnds(r)
  /\ UNCHANGED <<now, lockVars, edit, edits, recast, due, faults>>

Leave(r) ==
  /\ At(r, "leaving")
  /\ Release(r)
  /\ Advance(r, "idle")
  /\ UNCHANGED <<now, users, executions, due, fire, faults>>

-----------------------------------------------------------------------------
(* Faults.                                                                 *)

Fault == now <= LastChange /\ faults < MaxFaults /\ faults' = faults + 1

\* The execution of an interrupted firing, if it has one, remembers the fault.
Strike(r) ==
  executions' = IF fire[r].execution = 0 THEN executions
                ELSE [executions EXCEPT ![fire[r].execution].struck = TRUE]

\* A transaction raises: the list cannot be read and the tick is over, or one
\* firing fails, at its last commit or where the inserted row is read back, and
\* the loop goes on with the next schedule.
DatabaseRaises(r) ==
  /\ Fault
  /\ \/ At(r, "selecting") /\ Advance(r, "leaving") /\ UNCHANGED <<executions, fire>>
     \/ /\ pc[r] \in {"skipping", "inserting", "enqueueing", "closing"}
        /\ Strike(r)
        /\ FiringEnds(r)
  /\ UNCHANGED <<now, lockVars, users, due>>

\* Redis raises in acquire or in the release, or acquire loses the reply that
\* gave it the lock.
LockRaises(r) ==
  /\ Fault
  /\ \/ At(r, "locking") /\ TakeUnheard(r) /\ UNCHANGED pc
     \/ At(r, "locking") /\ TakeRaises(r) /\ Advance(r, "idle")
     \/ At(r, "leaving") /\ ReleaseFails(r) /\ Advance(r, "idle")
  /\ UNCHANGED <<now, users, executions, due, fire>>

\* The process dies and is started again.
ReplicaDies(r) ==
  /\ Fault
  /\ ~At(r, "idle")
  /\ Crash(r)
  /\ Strike(r)
  /\ fire' = [fire EXCEPT ![r] = NoFiring]
  /\ due' = [due EXCEPT ![r] = {}]
  /\ Advance(r, "idle")
  /\ UNCHANGED <<now, users>>

-----------------------------------------------------------------------------

TimePasses ==
  /\ now < Horizon
  /\ now' = now + 1
  /\ Pass
  /\ UNCHANGED <<users, executions, pc, due, fire, faults>>

\* The bound of the clock: nothing is claimed about what comes after it.
EndOfTime == now = Horizon /\ UNCHANGED vars

UserNext(s) == Create(s) \/ UpdateLoad(s) \/ UpdateCommit(s) \/ Delete(s)

ReplicaStep(r) ==
  \/ TickBegins(r) \/ Locks(r) \/ SelectDue(r) \/ AllFired(r) \/ FireLoad(r)
  \/ SkipCommit(r) \/ Insert(r) \/ Enqueue(r) \/ Close(r) \/ Leave(r)

FaultNext(r) == DatabaseRaises(r) \/ LockRaises(r) \/ ReplicaDies(r)

Next == \/ \E s \in Schedules : UserNext(s)
        \/ \E r \in Replicas : ReplicaStep(r) \/ FaultNext(r)
        \/ TimePasses \/ EndOfTime

Spec == Init /\ [][Next]_vars

\* Time passes; the loop of a replica never stops for long; the commit of a
\* request that has loaded its row follows.
Fairness ==
  /\ WF_vars(TimePasses)
  /\ \A r \in Replicas : WF_vars(ReplicaStep(r))
  /\ \A s \in Schedules : WF_vars(UpdateCommit(s))

FairSpec == Spec /\ Fairness

-----------------------------------------------------------------------------
(* Properties.                                                             *)

\* The types of the variables, and which pc goes with which mode of the lock.
TypeOK ==
  /\ now \in 0..Horizon
  /\ LockTypeOK
  /\ row \in [Schedules -> Row]
  /\ edit \in [Schedules -> [old : Row, new : Row]]
  /\ edits \in [Schedules -> 0..MaxEdits]
  /\ executions \in Seq(Execution)
  /\ pc \in [Replicas -> {"idle", "locking", "selecting", "choosing", "skipping",
                          "inserting", "enqueueing", "closing", "leaving"}]
  /\ due \in [Replicas -> SUBSET Schedules]
  /\ fire \in [Replicas -> Firing]
  /\ faults \in 0..MaxFaults
  /\ recast \subseteq Schedules

\* No backfill: nothing is executed before it is due, although the list of due
\* schedules was read in an earlier transaction; and the executions of a schedule
\* are for later and later occurrences, each after the time the one before it was
\* fired, so that occurrences that were missed are executed once.  A fault between
\* the insertion and the last commit makes the scheduler fire that occurrence
\* again, and no other.  Not claimed of a replica that outlives its lock, nor of
\* an update that sets next_run_at, which may overwrite what a firing wrote.
NoBackfill ==
  /\ \A i \in DOMAIN executions : executions[i].slot <= executions[i].at
  /\ Laggards = {} =>
       \A i, j \in DOMAIN executions :
         LET x == executions[i]  y == executions[j] IN
         i < j /\ x.schedule = y.schedule /\ x.schedule \notin recast
           => x.at < y.slot \/ (x.struck /\ x.slot = y.slot)

\* The scheduler never takes next_run_at back, with the same exceptions.
NextOnlyAdvances ==
  [][Laggards = {} => \A s \in Schedules \ recast : row'[s].next >= row[s].next]_vars

\* Every execution the scheduler inserts has a job in the queue or is marked
\* FAILED once its firing is over, unless a fault hit it or its schedule was
\* deleted under it.
NoneForgotten ==
  \A i \in DOMAIN executions :
    LET x == executions[i] IN
    \/ x.job \/ x.status = "FAILED" \/ x.struck
    \/ row[x.schedule].status = "GONE"
    \/ \E r \in Replicas : fire[r].execution = i

\* The executions of an occurrence that was executed before.
Repeats ==
  {j \in DOMAIN executions :
     /\ executions[j].schedule \notin recast
     /\ \E i \in 1..(j - 1) : /\ executions[i].schedule = executions[j].schedule
                             /\ executions[i].slot = executions[j].slot}

\* The executions that wait for a worker for ever: no job, and no verdict.
Stranded ==
  {i \in DOMAIN executions :
     LET x == executions[i] IN
     /\ ~x.job
     /\ x.status = "QUEUED"
     /\ row[x.schedule].status # "GONE"
     /\ \A r \in Replicas : fire[r].execution # i}

\* What a fault may cost between the insertion and the last commit of a firing:
\* each crash and each failed transaction repeats one occurrence at the most and
\* strands one execution at the most, whatever else happens in the ticks that
\* follow it.
RepeatsNeedFaults ==
  Laggards = {} => Cardinality(Repeats) <= faults /\ Cardinality(Stranded) <= faults

\* A due schedule is dealt with, by whichever replica gets the lock.
DueIsServed ==
  \A s \in Schedules : IsDue(row[s], now) ~> ~IsDue(row[s], now)

\* After a change of the cron expression next_run_at follows it sooner or
\* later, even if a firing overlaps the change and writes an occurrence of the
\* former expression (which the clock must be able to reach).
FollowsCron(s) == \E t \in 0..Horizon : row[s].next = CronNext(row[s].cron, t)

EditTakesEffect ==
  \A s \in Schedules :
    ~FollowsCron(s)
      ~> FollowsCron(s) \/ row[s].status # "ACTIVE" \/ row[s].next > Horizon

=============================================================================
