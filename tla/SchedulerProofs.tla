--------------------------- MODULE SchedulerProofs ---------------------------
(***************************************************************************)
(* DistributedLock is a lock for the clients that leave before their key   *)
(* expires, for any number of clients, any expiry and any crashes.         *)
(*                                                                         *)
(* Scheduler executes occurrences in their order, and one of them again    *)
(* only after a fault, each of which pays for one repetition: for any      *)
(* schedules, replicas, cron expressions and status updates, as long as    *)
(* no replica outlives its lock.                                           *)
(***************************************************************************)
EXTENDS Scheduler, SequenceTheorems, FiniteSetTheorems,
        WellFoundedInduction, TLAPS

USE DEF Replicas

-----------------------------------------------------------------------------
(* The lock by itself.                                                     *)

LockInv == LockTypeOK /\ InsideOwnsKey

LEMMA LockInvInit == LockInit => LockInv
  BY LockAssumption DEF LockInit, LockInv, LockTypeOK, InsideOwnsKey, Modes

LEMMA LockInvNext == LockInv /\ [LockNext]_lockVars => LockInv'
<1> SUFFICES ASSUME LockInv, [LockNext]_lockVars PROVE LockInv'
  OBVIOUS
<1> USE LockAssumption DEF LockInv, LockTypeOK, InsideOwnsKey, Modes, Goes
<1>1. ASSUME NEW c \in Clients, Enter(c) PROVE LockInv'
  BY <1>1 DEF Enter
<1>2. ASSUME NEW c \in Clients, Take(c) \/ TakeUnheard(c) PROVE LockInv'
  BY <1>2 DEF Take, TakeUnheard
<1>3. ASSUME NEW c \in Clients, GiveUp(c) PROVE LockInv'
  BY <1>3 DEF GiveUp
<1>4. ASSUME NEW c \in Clients, TakeRaises(c) PROVE LockInv'
  BY <1>4 DEF TakeRaises
<1>5. ASSUME NEW c \in Clients, Release(c) PROVE LockInv'
  BY <1>5 DEF Release
<1>6. ASSUME NEW c \in Clients, Abandon(c) PROVE LockInv'
  BY <1>6 DEF Abandon
<1>7. ASSUME Pass PROVE LockInv'
  BY <1>7 DEF Pass, WaitersWait
<1>8. CASE UNCHANGED lockVars
  BY <1>8 DEF lockVars
<1> QED
  BY <1>1, <1>2, <1>3, <1>4, <1>5, <1>6, <1>7, <1>8 DEF LockNext, ReleaseFails, Crash

\* The inductive invariant: the types, and that whoever is inside in time owns
\* the key.
THEOREM LockSafe == LockSpec => []LockInv
  BY LockInvInit, LockInvNext, PTL DEF LockSpec

\* No two clients that leave before their key expires are inside together.
THEOREM LockExcludes == LockSpec => []MutualExclusion
<1>1. LockInv => MutualExclusion
  BY DEF LockInv, InsideOwnsKey, MutualExclusion
<1> QED
  BY <1>1, LockSafe, PTL

\* The key of a client that stays inside is taken from it by its expiry only:
\* the release of a client that outstayed its own expiry leaves it alone.
THEOREM LockSparesOthers == LockSpec => OthersKeySpared
<1> DEFINE Spared == \A c \in Clients :
                       mode[c] = "inside" /\ key = c /\ mode'[c] = "inside" /\ left > 1
                         => key' = c
<1>1. ASSUME LockInv, [LockNext]_lockVars PROVE Spared
  <2> SUFFICES ASSUME NEW c \in Clients, mode[c] = "inside", key = c,
                      mode'[c] = "inside", left > 1
               PROVE key' = c
    OBVIOUS
  <2> USE LockAssumption, <1>1 DEF LockInv, LockTypeOK, Goes
  <2>1. ASSUME NEW d \in Clients,
               Enter(d) \/ Take(d) \/ TakeUnheard(d) \/ GiveUp(d) \/ TakeRaises(d)
        PROVE  key' = c
    BY <2>1 DEF Enter, Take, TakeUnheard, GiveUp, TakeRaises
  <2>2. ASSUME NEW d \in Clients, Release(d) PROVE key' = c
    BY <2>2 DEF Release
  <2>3. ASSUME NEW d \in Clients, Abandon(d) PROVE key' = c
    BY <2>3 DEF Abandon
  <2>4. CASE Pass
    BY <2>4 DEF Pass
  <2>5. CASE UNCHANGED lockVars
    BY <2>5 DEF lockVars
  <2> QED
    BY <2>1, <2>2, <2>3, <2>4, <2>5 DEF LockNext, ReleaseFails, Crash
<1> QED
  BY <1>1, LockSafe, PTL DEF LockSpec, OthersKeySpared

-----------------------------------------------------------------------------
(* The scheduler's invariant.                                               *)

Firings == {"skipping", "inserting", "enqueueing", "closing"}

Inserted == {"enqueueing", "closing"}

\* Where a replica stands in the tick is where it stands in the lock.
PcFitsLock ==
  \A r \in Replicas :
    /\ pc[r] = "idle" <=> mode[r] = "out"
    /\ pc[r] = "locking" <=> mode[r] = "trying"
    /\ pc[r] \in Firings \cup {"selecting", "choosing"} => mode[r] = "inside"

\* The local variables of _fire_schedule fit the place in it.
FiringFits ==
  \A r \in Replicas :
    LET f == fire[r] IN
    /\ pc[r] \notin Firings => f = NoFiring
    /\ pc[r] \in Firings => /\ f.schedule \in Schedules
                            /\ row[f.schedule].status # "NEW"
                            /\ f.fresh.next <= f.at
    /\ pc[r] \notin Inserted => f.execution = 0
    /\ pc[r] \in Inserted => /\ f.execution \in DOMAIN executions
                             /\ executions[f.execution].schedule = f.schedule
                             /\ executions[f.execution].at = f.at
                             /\ executions[f.execution].slot = f.fresh.next

\* What is executed was due, and was fired in the past.
InThePast ==
  /\ \A i \in DOMAIN executions : executions[i].slot <= executions[i].at /\ executions[i].at <= now
  /\ \A r \in Replicas : pc[r] \in Firings => fire[r].at <= now

\* An open update leaves next_run_at alone unless it is known to set it.
EditFits ==
  \A s \in Schedules :
    edit[s].old # NoRow => /\ row[s].status # "NEW"
                           /\ edit[s].new.status \in Statuses
                           /\ s \notin recast => edit[s].new.next = edit[s].old.next

\* Executions belong to schedules that were created.
HasSchedule == \A i \in DOMAIN executions : row[executions[i].schedule].status # "NEW"

\* A row that was not yet inserted is blank.
Blank == \A s \in Schedules : row[s].status = "NEW" => row[s].next = 0

\* The one that fires knows next_run_at.
FreshIsFresh ==
  \A r \in Replicas :
    pc[r] \in Firings /\ fire[r].schedule \notin recast /\ Exists(fire[r].schedule)
      => row[fire[r].schedule].next = fire[r].fresh.next

\* Nothing was executed after the one that fires looked at the clock.
FiringIsLatest ==
  \A r \in Replicas : pc[r] \in Firings =>
    \A i \in DOMAIN executions :
      executions[i].schedule = fire[r].schedule => executions[i].at <= fire[r].at

\* Once a firing is over, next_run_at lies after it, unless a fault struck it and
\* left next_run_at where it was.
NextIsAhead ==
  \A i \in DOMAIN executions :
    LET x == executions[i] IN
    \/ x.schedule \in recast \/ ~Exists(x.schedule)
    \/ \E r \in Replicas : fire[r].execution = i
    \/ x.at < row[x.schedule].next
    \/ x.struck /\ x.slot = row[x.schedule].next

Local == /\ TypeOK /\ InsideOwnsKey /\ PcFitsLock /\ FiringFits
         /\ EditFits /\ HasSchedule /\ Blank

\* What holds while nobody outlives the lock.
Orderly == FreshIsFresh /\ FiringIsLatest /\ NextIsAhead /\ NoBackfill

Inv == Local /\ InThePast /\ (Laggards = {} => Orderly)

-----------------------------------------------------------------------------
(* The lock: every step of the scheduler is a step of the lock or leaves it *)
(* alone, so what holds of the lock holds here.                             *)

LEMMA StepsOfTheLock == [Next]_vars => LockNext \/ UNCHANGED lockVars
<1> SUFFICES ASSUME [Next]_vars PROVE LockNext \/ UNCHANGED lockVars
  OBVIOUS
<1>1. CASE \E s \in Schedules : UserNext(s)
  BY <1>1 DEF UserNext, Create, UpdateLoad, UpdateCommit, Delete
<1>2. ASSUME NEW r \in Replicas, ReplicaStep(r) PROVE LockNext \/ UNCHANGED lockVars
  BY <1>2 DEF ReplicaStep, TickBegins, Locks, SelectDue, AllFired, FireLoad, SkipCommit,
              Insert, Enqueue, Close, Leave, LockNext
<1>3. ASSUME NEW r \in Replicas, FaultNext(r) PROVE LockNext \/ UNCHANGED lockVars
  BY <1>3 DEF FaultNext, DatabaseRaises, LockRaises, ReplicaDies, LockNext
<1>4. CASE TimePasses
  BY <1>4 DEF TimePasses, LockNext
<1>5. CASE EndOfTime \/ UNCHANGED vars
  BY <1>5 DEF EndOfTime, vars
<1> QED
  BY <1>1, <1>2, <1>3, <1>4, <1>5 DEF Next

LEMMA LockHolds ==
  ASSUME LockTypeOK, InsideOwnsKey, LockNext \/ UNCHANGED lockVars
  PROVE  LockTypeOK' /\ InsideOwnsKey'
BY LockInvNext DEF LockInv

-----------------------------------------------------------------------------
(* Types.                                                                   *)

LEMMA RowsAreRows ==
  /\ NoRow \in Row
  /\ NoFiring \in Firing
  /\ \A t \in 0..Horizon, c \in Crons : CronNext(c, t) \in Nat
  /\ \A current, old, new \in Row : Flush(current, old, new) \in Row
<1>1. NoRow \in Row
  BY LockAssumption, SchedulerAssumption DEF NoRow, Row, Statuses
<1>2. NoFiring \in Firing
  BY <1>1, LockAssumption, SchedulerAssumption DEF NoFiring, Firing
<1>3. \A current, old, new \in Row : Flush(current, old, new) \in Row
  BY DEF Flush, Row
<1> QED
  BY <1>1, <1>2, <1>3, CronAssumption

LEMMA FlushColumns ==
  ASSUME NEW current \in Row, NEW old \in Row, NEW new \in Row
  PROVE  /\ Flush(current, old, new).status =
              IF new.status # old.status THEN new.status ELSE current.status
         /\ Flush(current, old, new).next =
              IF new.next # old.next THEN new.next ELSE current.next
BY DEF Flush, Row

LEMMA FollowingIsLater ==
  ASSUME TypeOK, NEW r \in Replicas
  PROVE  Following(r) \in Nat /\ Following(r) > fire[r].at
BY CronAssumption, LockAssumption, SchedulerAssumption DEF TypeOK, Firing, Row, Following

LEMMA WrittenRows ==
  ASSUME TypeOK, FiringFits, NEW r \in Replicas
  PROVE  Skipped(r) \in Row /\ Fired(r) \in Row
<1>1. fire[r].fresh \in Row /\ fire[r].execution \in Nat
  BY DEF TypeOK, Firing
<1> QED
  BY <1>1, FollowingIsLater DEF Skipped, Fired, Row

LEMMA WritesRows ==
  ASSUME TypeOK, NEW r \in Replicas, fire[r].schedule \in Schedules,
         NEW new \in Row, Write(r, new)
  PROVE  row' \in [Schedules -> Row]
<1>1. row[fire[r].schedule] \in Row /\ fire[r].fresh \in Row
  BY DEF TypeOK, Firing
<1>2. Flush(row[fire[r].schedule], fire[r].fresh, new) \in Row
  BY <1>1, RowsAreRows
<1> QED
  BY <1>2 DEF Write, TypeOK

LEMMA UpdatesTimed ==
  ASSUME NEW s, NEW u \in Updates(s)
  PROVE  \E x \in Statuses : u \in Timings(s, [row[s] EXCEPT !.status = x])
<1> DEFINE T(x) == Timings(s, [row[s] EXCEPT !.status = x])
<1>1. u \in UNION {T(x) : x \in Statuses}
  BY Zenon DEF Updates
<1> HIDE DEF T
<1>2. \E x \in Statuses : u \in T(x)
  BY <1>1
<1> QED
  BY <1>2, Zenon DEF T

LEMMA TimingsAreRows ==
  ASSUME NEW s, now \in 0..Horizon, NEW rw \in Row, NEW u \in Timings(s, rw)
  PROVE  u \in Row /\ u.status = rw.status
<1>1. u = rw \/ \E c \in Crons : u = [rw EXCEPT !.cron = c, !.next = CronNext(c, now)]
  BY Zenon DEF Timings
<1>2. ASSUME NEW c \in Crons, u = [rw EXCEPT !.cron = c, !.next = CronNext(c, now)]
      PROVE  u \in Row /\ u.status = rw.status
  BY <1>2, CronAssumption DEF Row
<1> QED
  BY <1>1, <1>2

LEMMA TypeUsers ==
  ASSUME TypeOK, LockTypeOK', NEW s \in Schedules, UserNext(s)
  PROVE  TypeOK'
<1> USE LockAssumption, SchedulerAssumption, RowsAreRows DEF TypeOK
<1>1. CASE Create(s)
  <2>1. row' \in [Schedules -> Row]
    BY <1>1 DEF Create, Row, Statuses
  <2> QED
    BY <1>1, <2>1 DEF Create
<1>2. CASE UpdateLoad(s)
  <2>1. row[s] \in Row /\ now \in 0..Horizon
    OBVIOUS
  <2>2. \A x \in Statuses : [row[s] EXCEPT !.status = x] \in Row
    BY <2>1 DEF Row
  <2>3. ASSUME NEW u \in Updates(s) PROVE u \in Row
    <3>1. PICK x \in Statuses : u \in Timings(s, [row[s] EXCEPT !.status = x])
      BY UpdatesTimed
    <3>2. [row[s] EXCEPT !.status = x] \in Row
      BY <2>2
    <3> QED
      BY <2>1, <3>1, <3>2, TimingsAreRows
  <2>4. edit' \in [Schedules -> [old : Row, new : Row]]
    BY <1>2, <2>1, <2>3 DEF UpdateLoad
  <2>5. edits' \in [Schedules -> 0..MaxEdits]
    BY <1>2 DEF UpdateLoad
  <2>6. recast' \subseteq Schedules
    BY <1>2 DEF UpdateLoad
  <2>7. UNCHANGED <<now, row, executions, pc, due, fire, faults>>
    BY <1>2 DEF UpdateLoad
  <2> QED
    BY <2>4, <2>5, <2>6, <2>7
<1>3. CASE UpdateCommit(s)
  BY <1>3 DEF UpdateCommit
<1>4. CASE Delete(s)
  <2>1. row[s] \in Row
    OBVIOUS
  <2>2. [row[s] EXCEPT !.status = "GONE"] \in Row
    BY <2>1 DEF Row
  <2>3. row' \in [Schedules -> Row]
    BY <1>4, <2>2 DEF Delete
  <2> QED
    BY <1>4, <2>3 DEF Delete
<1> QED
  BY <1>1, <1>2, <1>3, <1>4 DEF UserNext

LEMMA TypeReplicas ==
  ASSUME TypeOK, FiringFits, LockTypeOK', NEW r \in Replicas, ReplicaStep(r)
  PROVE  TypeOK'
<1> USE DEF TypeOK, Advance, At
<1>0. NoFiring \in Firing
  BY RowsAreRows
<1>1. CASE TickBegins(r) \/ Locks(r) \/ AllFired(r) \/ Leave(r)
  <2>1. UNCHANGED <<now, users, executions, due, fire, faults>>
    BY <1>1 DEF TickBegins, Locks, AllFired, Leave
  <2>2. \/ pc' = [pc EXCEPT ![r] = "locking"] \/ pc' = [pc EXCEPT ![r] = "selecting"]
        \/ pc' = [pc EXCEPT ![r] = "leaving"] \/ pc' = [pc EXCEPT ![r] = "idle"]
    BY <1>1 DEF TickBegins, Locks, AllFired, Leave
  <2> QED
    BY <2>1, <2>2 DEF users
<1>s. CASE SelectDue(r)
  BY <1>s DEF SelectDue, users
<1>2. CASE FireLoad(r)
  <2>1. \A s \in Schedules : Loaded(s) \in Firing
    BY <1>0 DEF Loaded, Firing
  <2>2. PICK s \in due[r] :
           /\ due' = [due EXCEPT ![r] = @ \ {s}]
           /\ fire' \in {[fire EXCEPT ![r] = Loaded(s)], fire}
           /\ pc' \in {pc, [pc EXCEPT ![r] = "skipping"], [pc EXCEPT ![r] = "inserting"]}
    BY <1>2 DEF FireLoad
  <2>3. due' \in [Replicas -> SUBSET Schedules]
    BY <2>2
  <2>4. fire' \in [Replicas -> Firing]
    <3>1. s \in Schedules
      OBVIOUS
    <3> QED
      BY <2>1, <2>2, <3>1
  <2> QED
    BY <1>2, <2>2, <2>3, <2>4 DEF FireLoad, users
<1>3. CASE SkipCommit(r)
  <2>1. row' \in [Schedules -> Row]
    BY <1>3, WrittenRows, WritesRows DEF SkipCommit, FiringFits, Firings
  <2> QED
    BY <1>0, <1>3, <2>1 DEF SkipCommit, FiringEnds
<1>4. CASE Insert(r)
  <2>1. fire[r].fresh.next \in Nat /\ fire[r].at \in 0..Horizon
    BY DEF Firing, Row
  <2> DEFINE x == [schedule |-> fire[r].schedule, slot |-> fire[r].fresh.next,
                   at |-> fire[r].at, status |-> "QUEUED", job |-> FALSE, struck |-> FALSE]
  <2>2. x \in Execution
    BY <1>4, <2>1 DEF Insert, Execution, Firings, FiringFits
  <2>3. executions' \in Seq(Execution)
    <3> HIDE DEF x
    <3>1. executions' = executions \/ executions' = Append(executions, x)
      BY <1>4 DEF Insert, x
    <3>2. executions \in Seq(Execution)
      OBVIOUS
    <3>3. Append(executions, x) \in Seq(Execution)
      BY <2>2, <3>2, AppendProperties
    <3> QED
      BY <3>1, <3>2, <3>3
  <2>4. [fire[r] EXCEPT !.execution = Len(executions) + 1] \in Firing
    <3>1. fire[r] \in Firing /\ Len(executions) + 1 \in Nat
      BY LenProperties
    <3> QED
      BY <3>1 DEF Firing
  <2>5. fire' \in [Replicas -> Firing]
    BY <1>0, <1>4, <2>4 DEF Insert, FiringEnds
  <2> QED
    BY <1>4, <2>3, <2>5 DEF Insert, FiringEnds, users
<1>5. CASE Enqueue(r)
  <2> DEFINE n == fire[r].execution
  <2>1. n \in 1..Len(executions)
    BY <1>5 DEF Enqueue, FiringFits, Firings, Inserted
  <2>2. executions[n] \in Execution
    BY <2>1
  <2>3. \A b \in BOOLEAN : [executions[n] EXCEPT !.job = b] \in Execution
    BY <2>2 DEF Execution
  <2>4. executions' \in Seq(Execution)
    BY <1>5, <2>1, <2>3, ExceptSeq DEF Enqueue
  <2>5. fire' \in [Replicas -> Firing]
    <3>1. \A b \in BOOLEAN : [fire[r] EXCEPT !.refused = b] \in Firing
      BY DEF Firing
    <3> QED
      BY <1>5, <3>1 DEF Enqueue
  <2> QED
    BY <1>5, <2>4, <2>5 DEF Enqueue, users
<1>6. CASE Close(r)
  <2> DEFINE n == fire[r].execution
  <2>1. n \in 1..Len(executions)
    BY <1>6 DEF Close, FiringFits, Firings, Inserted
  <2>2. executions[n] \in Execution
    BY <2>1
  <2>3. [executions[n] EXCEPT !.status = Verdict(r)] \in Execution
    BY <2>2 DEF Execution, Verdict
  <2>4. executions' \in Seq(Execution)
    BY <1>6, <2>1, <2>3, ExceptSeq DEF Close
  <2>5. row' \in [Schedules -> Row]
    BY <1>6, WrittenRows, WritesRows DEF Close, FiringFits, Firings
  <2> QED
    BY <1>0, <1>6, <2>4, <2>5 DEF Close, FiringEnds
<1> QED
  BY <1>1, <1>s, <1>2, <1>3, <1>4, <1>5, <1>6 DEF ReplicaStep

\* What a step that inserts nothing does to the executions.
Kept ==
  /\ executions' \in Seq(Execution)
  /\ DOMAIN executions' = DOMAIN executions
  /\ \A i \in DOMAIN executions :
       /\ executions'[i].schedule = executions[i].schedule
       /\ executions'[i].slot = executions[i].slot
       /\ executions'[i].at = executions[i].at
       /\ executions[i].struck => executions'[i].struck

LEMMA ExecutionsKept ==
  ASSUME TypeOK, FiringFits, NEW r \in Replicas,
         Enqueue(r) \/ Close(r) \/ Strike(r)
  PROVE  Kept
<1> DEFINE n == fire[r].execution
<1>1. \A i \in DOMAIN executions : executions[i] \in Execution
  BY DEF TypeOK
<1>2. CASE executions' = executions
  BY <1>2 DEF Kept, TypeOK
<1>3. CASE executions' # executions
  <2>1. n \in DOMAIN executions
    BY <1>3 DEF Enqueue, Close, Strike, At, FiringFits, Firings, Inserted
  <2>2. PICK x \in Execution :
           /\ executions' = [executions EXCEPT ![n] = x]
           /\ x.schedule = executions[n].schedule
           /\ x.slot = executions[n].slot
           /\ x.at = executions[n].at
           /\ executions[n].struck => x.struck
    <3>1. CASE Enqueue(r)
      <4>1. PICK b \in BOOLEAN : executions' = [executions EXCEPT ![n].job = b]
        BY <3>1 DEF Enqueue
      <4>2. [executions[n] EXCEPT !.job = b] \in Execution
        BY <1>1, <2>1 DEF Execution
      <4> QED
        BY <1>1, <2>1, <4>1, <4>2 DEF Execution
    <3>2. CASE Close(r)
      <4>1. executions' = [executions EXCEPT ![n].status = Verdict(r)]
        BY <1>3, <3>2 DEF Close
      <4>2. [executions[n] EXCEPT !.status = Verdict(r)] \in Execution
        BY <1>1, <2>1 DEF Execution, Verdict
      <4> QED
        BY <1>1, <2>1, <4>1, <4>2 DEF Execution
    <3>3. CASE Strike(r)
      <4>1. executions' = [executions EXCEPT ![n].struck = TRUE]
        BY <1>3, <3>3 DEF Strike
      <4>2. [executions[n] EXCEPT !.struck = TRUE] \in Execution
        BY <1>1, <2>1 DEF Execution
      <4> QED
        BY <1>1, <2>1, <4>1, <4>2 DEF Execution
    <3> QED
      BY <3>1, <3>2, <3>3
  <2>3. n \in 1..Len(executions) /\ executions \in Seq(Execution)
    BY <2>1 DEF TypeOK
  <2>4. /\ executions' \in Seq(Execution)
        /\ DOMAIN executions' = DOMAIN executions
    BY <2>2, <2>3, ExceptSeq
  <2> QED
    BY <2>1, <2>2, <2>3, <2>4 DEF Kept
<1> QED
  BY <1>2, <1>3

LEMMA TypeFaults ==
  ASSUME TypeOK, FiringFits, LockTypeOK', NEW r \in Replicas, FaultNext(r)
  PROVE  TypeOK'
<1> USE LockAssumption, SchedulerAssumption DEF TypeOK, Fault, Advance, FiringEnds
<1>0. NoFiring \in Firing
  BY RowsAreRows
<1>1. CASE DatabaseRaises(r)
  <2>1. executions' \in Seq(Execution)
    BY <1>1, ExecutionsKept DEF DatabaseRaises, Kept
  <2>2. fire' \in [Replicas -> Firing]
    BY <1>0, <1>1 DEF DatabaseRaises
  <2>3. pc' \in {[pc EXCEPT ![r] = "leaving"], [pc EXCEPT ![r] = "choosing"]}
    BY <1>1 DEF DatabaseRaises
  <2>4. faults' \in 0..MaxFaults
    BY <1>1 DEF DatabaseRaises
  <2> QED
    BY <1>1, <2>1, <2>2, <2>3, <2>4 DEF DatabaseRaises, users
<1>2. CASE LockRaises(r)
  BY <1>2 DEF LockRaises, users
<1>3. CASE ReplicaDies(r)
  <2>1. executions' \in Seq(Execution)
    BY <1>3, ExecutionsKept DEF ReplicaDies, Kept
  <2> QED
    BY <1>0, <1>3, <2>1 DEF ReplicaDies, users
<1> QED
  BY <1>1, <1>2, <1>3 DEF FaultNext

LEMMA TypeNext ==
  ASSUME TypeOK, FiringFits, InsideOwnsKey, [Next]_vars
  PROVE  TypeOK' /\ InsideOwnsKey'
<1>1. LockTypeOK' /\ InsideOwnsKey'
  BY StepsOfTheLock, LockHolds DEF TypeOK
<1>2. CASE TimePasses
  BY <1>1, <1>2, LockAssumption, SchedulerAssumption DEF TimePasses, TypeOK, users
<1>3. CASE EndOfTime \/ UNCHANGED vars
  BY <1>1, <1>3 DEF EndOfTime, TypeOK, vars, users
<1> QED
  BY <1>1, <1>2, <1>3, TypeUsers, TypeReplicas, TypeFaults DEF Next

-----------------------------------------------------------------------------
(* The rest of the invariant, part by part.                                 *)

\* A replica that moves within the tick and within the lock together.
LEMMA PcFitsLockMove ==
  ASSUME TypeOK, PcFitsLock, NEW r \in Replicas, NEW to, NEW m,
         pc' = [pc EXCEPT ![r] = to], mode' = [mode EXCEPT ![r] = m],
         to = "idle" <=> m = "out",
         to = "locking" <=> m = "trying",
         to \in Firings \cup {"selecting", "choosing"} => m = "inside"
  PROVE  PcFitsLock'
<1>1. r \in DOMAIN pc /\ r \in DOMAIN mode
  BY DEF TypeOK, LockTypeOK
<1>2. pc'[r] = to /\ mode'[r] = m
  BY <1>1
<1>3. \A q \in Replicas \ {r} : pc'[q] = pc[q] /\ mode'[q] = mode[q]
  BY DEF TypeOK, LockTypeOK
<1> HIDE DEF Firings
<1> QED
  BY <1>2, <1>3 DEF PcFitsLock

LEMMA PcFitsLockNext ==
  ASSUME TypeOK, PcFitsLock, [Next]_vars
  PROVE  PcFitsLock'
<1> USE DEF TypeOK, PcFitsLock, Firings, Advance, At, FiringEnds, Goes, Abandon
<1>0. mode \in [Replicas -> Modes]
  BY DEF LockTypeOK
<1>1. CASE \E s \in Schedules : UserNext(s)
  BY <1>1 DEF UserNext, Create, UpdateLoad, UpdateCommit, Delete, lockVars
<1>2. ASSUME NEW r \in Replicas,
             SelectDue(r) \/ AllFired(r) \/ FireLoad(r) \/ SkipCommit(r) \/ Insert(r)
      PROVE  PcFitsLock'
  BY <1>2 DEF SelectDue, AllFired, FireLoad, SkipCommit, Insert, lockVars
<1>3. ASSUME NEW r \in Replicas, Enqueue(r) \/ Close(r) \/ DatabaseRaises(r)
      PROVE  PcFitsLock'
  BY <1>3 DEF Enqueue, Close, DatabaseRaises, lockVars
<1>4. ASSUME NEW r \in Replicas, TickBegins(r) \/ Locks(r) \/ Leave(r)
      PROVE  PcFitsLock'
  <2>1. \/ pc' = [pc EXCEPT ![r] = "locking"] /\ mode' = [mode EXCEPT ![r] = "trying"]
        \/ pc' = [pc EXCEPT ![r] = "selecting"] /\ mode' = [mode EXCEPT ![r] = "inside"]
        \/ pc' = [pc EXCEPT ![r] = "leaving"] /\ mode' = [mode EXCEPT ![r] = "refused"]
        \/ pc' = [pc EXCEPT ![r] = "idle"] /\ mode' = [mode EXCEPT ![r] = "out"]
    BY <1>4 DEF TickBegins, Locks, Leave, Enter, Take, GiveUp, Release
  <2> HIDE DEF TypeOK, PcFitsLock
  <2>2. CASE pc' = [pc EXCEPT ![r] = "locking"] /\ mode' = [mode EXCEPT ![r] = "trying"]
    BY <2>2, PcFitsLockMove
  <2>3. CASE pc' = [pc EXCEPT ![r] = "selecting"] /\ mode' = [mode EXCEPT ![r] = "inside"]
    BY <2>3, PcFitsLockMove
  <2>4. CASE pc' = [pc EXCEPT ![r] = "leaving"] /\ mode' = [mode EXCEPT ![r] = "refused"]
    BY <2>4, PcFitsLockMove
  <2>5. CASE pc' = [pc EXCEPT ![r] = "idle"] /\ mode' = [mode EXCEPT ![r] = "out"]
    BY <2>5, PcFitsLockMove
  <2> QED
    BY <2>1, <2>2, <2>3, <2>4, <2>5
<1>5. ASSUME NEW r \in Replicas, LockRaises(r) \/ ReplicaDies(r)
      PROVE  PcFitsLock'
  <2>1. \/ UNCHANGED <<pc, mode>>
        \/ pc' = [pc EXCEPT ![r] = "idle"] /\ mode' = [mode EXCEPT ![r] = "out"]
    BY <1>5 DEF LockRaises, ReplicaDies, TakeUnheard, TakeRaises, ReleaseFails, Crash
  <2>2. CASE UNCHANGED <<pc, mode>>
    BY <2>2
  <2>3. CASE pc' = [pc EXCEPT ![r] = "idle"] /\ mode' = [mode EXCEPT ![r] = "out"]
    <3> HIDE DEF TypeOK, PcFitsLock
    <3> QED
      BY <2>3, PcFitsLockMove
  <2> QED
    BY <2>1, <2>2, <2>3
<1>6. CASE TimePasses
  BY <1>6 DEF TimePasses, Pass
<1>7. CASE EndOfTime \/ UNCHANGED vars
  BY <1>7 DEF EndOfTime, vars, lockVars
<1> QED
  BY <1>1, <1>2, <1>3, <1>4, <1>5, <1>6, <1>7 DEF Next, ReplicaStep, FaultNext

\* What a firing writes into its schedule's row: next_run_at, and no status.
LEMMA WriteColumns ==
  ASSUME TypeOK, FiringFits, NEW r \in Replicas, pc[r] \in Firings,
         Write(r, Skipped(r)) \/ Write(r, Fired(r))
  PROVE  /\ \A t \in Schedules : row'[t].status = row[t].status
         /\ \A t \in Schedules :
              t # fire[r].schedule \/ ~Exists(t) => row'[t] = row[t]
         /\ Exists(fire[r].schedule) => row'[fire[r].schedule].next = Following(r)
<1> DEFINE s == fire[r].schedule
           old == fire[r].fresh
<1>1. /\ s \in Schedules
      /\ old \in Row
      /\ old.next \in Nat /\ fire[r].at \in Nat
      /\ old.next <= fire[r].at
  BY LockAssumption, SchedulerAssumption DEF FiringFits, TypeOK, Firing, Row
<1>2. Following(r) # old.next
  BY <1>1, FollowingIsLater
<1>3. /\ Skipped(r) \in Row /\ Fired(r) \in Row
      /\ Skipped(r).status = old.status /\ Fired(r).status = old.status
      /\ Skipped(r).next = Following(r) /\ Fired(r).next = Following(r)
  BY <1>1, WrittenRows DEF Skipped, Fired, Row
<1>4. PICK new \in Row : Write(r, new) /\ new.status = old.status /\ new.next = Following(r)
  BY <1>3
<1>5. row[s] \in Row
  BY <1>1 DEF TypeOK
<1>6. /\ Flush(row[s], old, new).status = row[s].status
      /\ Flush(row[s], old, new).next = Following(r)
  BY <1>1, <1>2, <1>4, <1>5, FlushColumns
<1> QED
  BY <1>1, <1>4, <1>6 DEF Write, TypeOK

\* What an update writes: no next_run_at, unless one is known to set it.
LEMMA UpdateColumns ==
  ASSUME TypeOK, EditFits, NEW s \in Schedules, UpdateCommit(s)
  PROVE  /\ \A t \in Schedules : t # s \/ ~Exists(t) => row'[t] = row[t]
         /\ row'[s].status \in Statuses \/ row'[s] = row[s]
         /\ s \notin recast => row'[s].next = row[s].next
<1>1. /\ row[s] \in Row /\ edit[s].old \in Row /\ edit[s].new \in Row
      /\ edit[s].new.status \in Statuses
      /\ s \notin recast => edit[s].new.next = edit[s].old.next
  BY DEF TypeOK, EditFits, UpdateCommit
<1>2. CASE Exists(s)
  <2>1. /\ row'[s] = Flush(row[s], edit[s].old, edit[s].new)
        /\ \A t \in Schedules : t # s => row'[t] = row[t]
    BY <1>2 DEF UpdateCommit, TypeOK
  <2>2. Flush(row[s], edit[s].old, edit[s].new).status \in Statuses
    BY <1>1, <1>2, FlushColumns DEF Exists
  <2>3. s \notin recast => Flush(row[s], edit[s].old, edit[s].new).next = row[s].next
    BY <1>1, FlushColumns
  <2> QED
    BY <1>2, <2>1, <2>2, <2>3
<1>3. CASE ~Exists(s)
  BY <1>3 DEF UpdateCommit
<1> QED
  BY <1>2, <1>3

\* The schedules whose next_run_at an update sets only become more.
LEMMA RecastGrows == [Next]_vars => recast \subseteq recast'
<1> SUFFICES ASSUME [Next]_vars PROVE recast \subseteq recast'
  OBVIOUS
<1>1. ASSUME NEW s \in Schedules, UserNext(s) PROVE recast \subseteq recast'
  BY <1>1 DEF UserNext, Create, UpdateLoad, UpdateCommit, Delete
<1>2. ASSUME NEW r \in Replicas, ReplicaStep(r) PROVE recast' = recast
  BY <1>2 DEF ReplicaStep, TickBegins, Locks, SelectDue, AllFired, FireLoad, SkipCommit, Insert,
              Enqueue, Close, Leave, users
<1>3. ASSUME NEW r \in Replicas, FaultNext(r) PROVE recast' = recast
  BY <1>3 DEF FaultNext, DatabaseRaises, LockRaises, ReplicaDies, users
<1>4. CASE TimePasses \/ EndOfTime \/ UNCHANGED vars
  BY <1>4 DEF TimePasses, EndOfTime, vars, users
<1> QED
  BY <1>1, <1>2, <1>3, <1>4 DEF Next

\* A schedule that was created stays created, and one that was deleted is not
\* created again.
Stays(s) ==
  /\ row[s].status # "NEW" => row'[s].status # "NEW"
  /\ row[s].status = "GONE" => row'[s].status = "GONE"

LEMMA RowsStay ==
  ASSUME TypeOK, FiringFits, EditFits, [Next]_vars, NEW s \in Schedules
  PROVE  Stays(s)
<1> USE DEF Stays, TypeOK
<1>1. ASSUME NEW t \in Schedules, Create(t) PROVE Stays(s)
  BY <1>1 DEF Create
<1>2. ASSUME NEW t \in Schedules, UpdateLoad(t) PROVE Stays(s)
  BY <1>2 DEF UpdateLoad
<1>3. ASSUME NEW t \in Schedules, UpdateCommit(t) PROVE Stays(s)
  BY <1>3, UpdateColumns DEF Exists, Statuses
<1>4. ASSUME NEW t \in Schedules, Delete(t) PROVE Stays(s)
  BY <1>4 DEF Delete, Row
<1>5. ASSUME NEW r \in Replicas, SkipCommit(r) \/ Close(r) PROVE Stays(s)
  BY <1>5, WriteColumns DEF SkipCommit, Close, At, Firings
<1>6. ASSUME NEW r \in Replicas, ReplicaStep(r) \/ FaultNext(r), ~SkipCommit(r), ~Close(r)
      PROVE  Stays(s)
  BY <1>6 DEF ReplicaStep, FaultNext, TickBegins, Locks, SelectDue, AllFired, FireLoad, Insert,
              Enqueue, Leave, DatabaseRaises, LockRaises, ReplicaDies, users
<1>7. CASE TimePasses \/ EndOfTime \/ UNCHANGED vars
  BY <1>7 DEF TimePasses, EndOfTime, vars, users
<1> QED
  BY <1>1, <1>2, <1>3, <1>4, <1>5, <1>6, <1>7 DEF Next, UserNext

LEMMA EditFitsNext ==
  ASSUME TypeOK, FiringFits, EditFits, [Next]_vars
  PROVE  EditFits'
<1> SUFFICES ASSUME NEW s \in Schedules, edit'[s].old # NoRow
             PROVE  /\ row'[s].status # "NEW"
                    /\ edit'[s].new.status \in Statuses
                    /\ s \notin recast' => edit'[s].new.next = edit'[s].old.next
  BY DEF EditFits
<1>1. CASE edit'[s] = edit[s]
  BY <1>1, RowsStay, RecastGrows DEF EditFits, Stays
<1>2. CASE edit'[s] # edit[s]
  <2>1. UpdateLoad(s)
    <3>1. ASSUME NEW t \in Schedules, UserNext(t), ~UpdateLoad(s) PROVE FALSE
      BY <1>2, <3>1 DEF UserNext, Create, UpdateLoad, UpdateCommit, Delete, TypeOK
    <3>2. ASSUME NEW r \in Replicas, ReplicaStep(r) \/ FaultNext(r) PROVE FALSE
      BY <1>2, <3>2 DEF ReplicaStep, FaultNext, TickBegins, Locks, SelectDue, AllFired, FireLoad,
            SkipCommit, Insert, Enqueue, Close, Leave, DatabaseRaises, LockRaises, ReplicaDies, users
    <3>3. CASE TimePasses \/ EndOfTime \/ UNCHANGED vars
      BY <1>2, <3>3 DEF TimePasses, EndOfTime, vars, users
    <3> QED
      BY <3>1, <3>2, <3>3 DEF Next
  <2>2. PICK new \in Updates(s) :
           /\ edit' = [edit EXCEPT ![s] = [old |-> row[s], new |-> new]]
           /\ recast' = IF new.next = row[s].next THEN recast ELSE recast \cup {s}
    BY <2>1 DEF UpdateLoad
  <2>3. edit'[s].old = row[s] /\ edit'[s].new = new
    BY <2>2 DEF TypeOK
  <2>4. row[s] \in Row /\ row'[s] = row[s] /\ Exists(s)
    BY <2>1 DEF UpdateLoad, TypeOK
  <2>5. new.status \in Statuses
    <3>1. PICK x \in Statuses : new \in Timings(s, [row[s] EXCEPT !.status = x])
      BY <2>2, UpdatesTimed
    <3>2. [row[s] EXCEPT !.status = x] \in Row /\ [row[s] EXCEPT !.status = x].status = x
      BY <2>4 DEF Row
    <3>3. now \in 0..Horizon
      BY DEF TypeOK
    <3> QED
      BY <3>1, <3>2, <3>3, TimingsAreRows
  <2>6. s \notin recast' => new.next = row[s].next
    BY <2>2
  <2> QED
    BY <2>3, <2>4, <2>5, <2>6 DEF Exists, Statuses
<1> QED
  BY <1>1, <1>2

\* The execution a firing inserts.
Inserts(r) == [schedule |-> fire[r].schedule, slot |-> fire[r].fresh.next, at |-> fire[r].at,
               status |-> "QUEUED", job |-> FALSE, struck |-> FALSE]

LEMMA InsertAppends ==
  ASSUME TypeOK, FiringFits, NEW r \in Replicas, Insert(r)
  PROVE  \/ /\ executions' = executions
            /\ fire' = [fire EXCEPT ![r] = NoFiring]
            /\ pc' = [pc EXCEPT ![r] = "choosing"]
         \/ /\ Exists(fire[r].schedule)
            /\ executions' \in Seq(Execution)
            /\ DOMAIN executions = 1..Len(executions)
            /\ DOMAIN executions' = 1..(Len(executions) + 1)
            /\ \A i \in DOMAIN executions : executions'[i] = executions[i]
            /\ executions'[Len(executions) + 1] = Inserts(r)
            /\ Len(executions) + 1 \notin DOMAIN executions
            /\ fire' = [fire EXCEPT ![r].execution = Len(executions) + 1]
            /\ pc' = [pc EXCEPT ![r] = "enqueueing"]
<1> DEFINE x == Inserts(r)
<1>1. fire[r].schedule \in Schedules /\ fire[r].fresh.next \in Nat /\ fire[r].at \in 0..Horizon
  BY DEF Insert, At, FiringFits, Firings, TypeOK, Firing, Row
<1>2. x \in Execution
  BY <1>1 DEF Execution, Inserts
<1>3. executions \in Seq(Execution) /\ Len(executions) \in Nat
  BY LenProperties DEF TypeOK
<1>4. CASE Exists(fire[r].schedule)
  <2>1. /\ executions' = Append(executions, x)
        /\ fire' = [fire EXCEPT ![r].execution = Len(executions) + 1]
        /\ pc' = [pc EXCEPT ![r] = "enqueueing"]
    BY <1>4, Zenon DEF Insert, Advance, Inserts
  <2> HIDE DEF x
  <2>2. /\ Append(executions, x) \in Seq(Execution)
        /\ Len(Append(executions, x)) = Len(executions) + 1
        /\ \A i \in 1..Len(executions) : Append(executions, x)[i] = executions[i]
        /\ Append(executions, x)[Len(executions) + 1] = x
    BY <1>2, <1>3, AppendProperties
  <2>3. /\ DOMAIN executions = 1..Len(executions)
        /\ DOMAIN Append(executions, x) = 1..(Len(executions) + 1)
    BY <1>3, <2>2
  <2>4. Len(executions) + 1 \notin 1..Len(executions)
    BY <1>3
  <2> QED
    BY <1>4, <2>1, <2>2, <2>3, <2>4, Zenon DEF x
<1>5. CASE ~Exists(fire[r].schedule)
  BY <1>5 DEF Insert, FiringEnds, Advance
<1> QED
  BY <1>4, <1>5

\* No step takes an execution back or changes what it was fired for.
Grows ==
  /\ DOMAIN executions \subseteq DOMAIN executions'
  /\ \A i \in DOMAIN executions :
       /\ executions'[i].schedule = executions[i].schedule
       /\ executions'[i].slot = executions[i].slot
       /\ executions'[i].at = executions[i].at
       /\ executions[i].struck => executions'[i].struck

LEMMA ExecutionsGrow ==
  ASSUME TypeOK, FiringFits, [Next]_vars
  PROVE  Grows
<1>1. ASSUME NEW r \in Replicas, Insert(r) PROVE Grows
  BY <1>1, InsertAppends DEF Grows
<1>2. ASSUME NEW r \in Replicas, Enqueue(r) \/ Close(r) \/ Strike(r) PROVE Grows
  BY <1>2, ExecutionsKept DEF Grows, Kept
<1>3. CASE UNCHANGED executions
  BY <1>3 DEF Grows
<1>4. ASSUME NEW r \in Replicas, FaultNext(r)
      PROVE  Strike(r) \/ UNCHANGED executions
  BY <1>4 DEF FaultNext, DatabaseRaises, LockRaises, ReplicaDies
<1>5. ASSUME NEW r \in Replicas, ReplicaStep(r)
      PROVE  Insert(r) \/ Enqueue(r) \/ Close(r) \/ UNCHANGED executions
  BY <1>5 DEF ReplicaStep, TickBegins, Locks, SelectDue, AllFired, FireLoad, SkipCommit, Leave
<1>6. ASSUME NEW s \in Schedules, UserNext(s) PROVE UNCHANGED executions
  BY <1>6 DEF UserNext, Create, UpdateLoad, UpdateCommit, Delete
<1>7. CASE TimePasses \/ EndOfTime \/ UNCHANGED vars
  BY <1>3, <1>7 DEF TimePasses, EndOfTime, vars
<1> QED
  BY <1>1, <1>2, <1>3, <1>4, <1>5, <1>6, <1>7 DEF Next

\* A step is taken by one replica at most: the local variables of the others
\* stay as they are.
AlikeAt(q) == fire'[q] = fire[q] /\ pc'[q] = pc[q]

LEMMA FiringFitsAt ==
  ASSUME TypeOK, FiringFits, EditFits, [Next]_vars, NEW q \in Replicas, AlikeAt(q)
  PROVE  LET f == fire'[q] IN
         /\ pc'[q] \notin Firings => f = NoFiring
         /\ pc'[q] \in Firings => /\ f.schedule \in Schedules
                                  /\ row'[f.schedule].status # "NEW"
                                  /\ f.fresh.next <= f.at
         /\ pc'[q] \notin Inserted => f.execution = 0
         /\ pc'[q] \in Inserted => /\ f.execution \in DOMAIN executions'
                                   /\ executions'[f.execution].schedule = f.schedule
                                   /\ executions'[f.execution].at = f.at
                                   /\ executions'[f.execution].slot = f.fresh.next
<1>1. Grows /\ \A s \in Schedules : Stays(s)
  BY ExecutionsGrow, RowsStay
<1> QED
  BY <1>1 DEF FiringFits, AlikeAt, Grows, Stays

LEMMA FiringFitsNext ==
  ASSUME TypeOK, FiringFits, EditFits, [Next]_vars
  PROVE  FiringFits'
<1> DEFINE Fits(q) == LET f == fire[q] IN
             /\ pc[q] \notin Firings => f = NoFiring
             /\ pc[q] \in Firings => /\ f.schedule \in Schedules
                                     /\ row[f.schedule].status # "NEW"
                                     /\ f.fresh.next <= f.at
             /\ pc[q] \notin Inserted => f.execution = 0
             /\ pc[q] \in Inserted => /\ f.execution \in DOMAIN executions
                                      /\ executions[f.execution].schedule = f.schedule
                                      /\ executions[f.execution].at = f.at
                                      /\ executions[f.execution].slot = f.fresh.next
<1>1. SUFFICES ASSUME NEW q \in Replicas PROVE Fits(q)'
  BY DEF FiringFits
<1>2. CASE AlikeAt(q)
  BY <1>2, FiringFitsAt
<1>3. Grows /\ \A s \in Schedules : Stays(s)
  BY ExecutionsGrow, RowsStay
<1>4. ASSUME fire'[q] = NoFiring, pc'[q] \notin Firings PROVE Fits(q)'
  BY <1>4 DEF NoFiring, Firings, Inserted
<1>5. fire[q] \in Firing /\ Fits(q)
  BY DEF TypeOK, FiringFits
<1>6. ASSUME NEW r \in Replicas, r # q, ReplicaStep(r) \/ FaultNext(r) PROVE AlikeAt(q)
  BY <1>6 DEF AlikeAt, ReplicaStep, FaultNext, TickBegins, Locks, SelectDue, AllFired, FireLoad,
        SkipCommit, Insert, Enqueue, Close, Leave, DatabaseRaises, LockRaises, ReplicaDies, Advance,
        FiringEnds, TypeOK
<1>7. CASE (\E s \in Schedules : UserNext(s)) \/ TimePasses \/ EndOfTime \/ UNCHANGED vars
  <2>1. AlikeAt(q)
    BY <1>7 DEF AlikeAt, UserNext, Create, UpdateLoad, UpdateCommit, Delete, TimePasses,
                EndOfTime, vars
  <2> QED
    BY <1>2, <2>1
<1>8. CASE FaultNext(q)
  <2>1. CASE fire'[q] = fire[q] /\ pc'[q] \notin Firings /\ pc[q] \notin Firings
    BY <1>4, <1>5, <2>1
  <2>2. CASE fire'[q] = NoFiring /\ pc'[q] \notin Firings
    BY <1>4, <2>2
  <2> QED
    BY <1>8, <2>1, <2>2 DEF FaultNext, DatabaseRaises, LockRaises, ReplicaDies, At, Advance, FiringEnds,
                            TypeOK, Firings
<1>9. CASE TickBegins(q) \/ Locks(q) \/ SelectDue(q) \/ AllFired(q) \/ Leave(q)
  <2>1. fire'[q] = fire[q] /\ pc'[q] \notin Firings /\ pc[q] \notin Firings
    BY <1>9 DEF TickBegins, Locks, SelectDue, AllFired, Leave, At, Advance, TypeOK, Firings
  <2> QED
    BY <1>4, <1>5, <2>1
<1>10. CASE SkipCommit(q) \/ Close(q)
  BY <1>4, <1>10 DEF SkipCommit, Close, FiringEnds, Advance, TypeOK, Firings
<1>11. CASE FireLoad(q)
  <2>1. PICK s \in Schedules :
           \/ AlikeAt(q)
           \/ /\ fire'[q] = Loaded(s)
              /\ pc'[q] \in {"skipping", "inserting"}
              /\ StillDue(s)
    BY <1>11 DEF FireLoad, Advance, TypeOK, AlikeAt
  <2>2. CASE /\ fire'[q] = Loaded(s)
             /\ pc'[q] \in {"skipping", "inserting"}
             /\ StillDue(s)
    <3>1. row'[s].status # "NEW" /\ row[s].next <= now
      BY <1>3, <2>2 DEF StillDue, IsDue, Stays
    <3> QED
      BY <2>2, <3>1 DEF Loaded, NoFiring, Firings, Inserted
  <2> QED
    BY <1>2, <2>1, <2>2
<1>12. CASE Insert(q)
  <2>1. CASE fire' = [fire EXCEPT ![q] = NoFiring] /\ pc' = [pc EXCEPT ![q] = "choosing"]
    BY <1>4, <2>1 DEF TypeOK, Firings
  <2>2. CASE /\ Exists(fire[q].schedule)
             /\ DOMAIN executions' = 1..(Len(executions) + 1)
             /\ executions'[Len(executions) + 1] = Inserts(q)
             /\ fire' = [fire EXCEPT ![q].execution = Len(executions) + 1]
             /\ pc' = [pc EXCEPT ![q] = "enqueueing"]
    <3>1. Len(executions) + 1 \in DOMAIN executions'
      BY <2>2, LenProperties DEF TypeOK
    <3>2. /\ pc[q] \in Firings /\ pc'[q] \in Firings /\ pc'[q] \in Inserted
          /\ fire'[q].schedule = fire[q].schedule
          /\ fire'[q].fresh = fire[q].fresh
          /\ fire'[q].at = fire[q].at
          /\ fire'[q].execution = Len(executions) + 1
      BY <1>5, <1>12, <2>2 DEF Insert, At, TypeOK, Firings, Inserted, Firing
    <3> QED
      BY <1>3, <1>5, <2>2, <3>1, <3>2 DEF Inserts, Stays
  <2> QED
    BY <1>12, <2>1, <2>2, InsertAppends
<1>13. CASE Enqueue(q)
  <2>1. /\ pc[q] \in Firings /\ pc'[q] \in Firings /\ pc[q] \in Inserted /\ pc'[q] \in Inserted
        /\ fire'[q].schedule = fire[q].schedule
        /\ fire'[q].fresh = fire[q].fresh
        /\ fire'[q].at = fire[q].at
        /\ fire'[q].execution = fire[q].execution
    BY <1>5, <1>13 DEF Enqueue, At, Advance, TypeOK, Firings, Inserted, Firing
  <2> QED
    BY <1>3, <1>5, <2>1 DEF Grows, Stays
<1> QED
  BY <1>6, <1>2, <1>7, <1>8, <1>9, <1>10, <1>11, <1>12, <1>13 DEF Next, ReplicaStep

LEMMA HasScheduleNext ==
  ASSUME TypeOK, FiringFits, EditFits, HasSchedule, [Next]_vars
  PROVE  HasSchedule'
<1>1. Grows /\ \A s \in Schedules : Stays(s)
  BY ExecutionsGrow, RowsStay
<1>2. ASSUME NEW i \in DOMAIN executions PROVE executions[i].schedule \in Schedules
  <2>1. executions[i] \in Execution
    BY DEF TypeOK
  <2> QED
    BY <2>1 DEF Execution
<1>3. CASE DOMAIN executions' = DOMAIN executions
  BY <1>1, <1>2, <1>3 DEF HasSchedule, Grows, Stays
<1>4. CASE DOMAIN executions' # DOMAIN executions
  <2>1. PICK r \in Replicas : Insert(r)
    <3>1. ASSUME NEW r \in Replicas, Enqueue(r) \/ Close(r) \/ Strike(r) PROVE FALSE
      BY <1>4, <3>1, ExecutionsKept DEF Kept
    <3> QED
      BY <1>4, <3>1 DEF Next, UserNext, ReplicaStep, FaultNext, Create, UpdateLoad, UpdateCommit,
            Delete, TickBegins, Locks, SelectDue, AllFired, FireLoad, SkipCommit, Leave,
            DatabaseRaises, LockRaises, ReplicaDies, TimePasses, EndOfTime, vars
  <2>2. /\ Exists(fire[r].schedule)
        /\ DOMAIN executions = 1..Len(executions)
        /\ DOMAIN executions' = 1..(Len(executions) + 1)
        /\ executions'[Len(executions) + 1].schedule = fire[r].schedule
    <3>1. executions' # executions
      BY <1>4
    <3>2. Inserts(r).schedule = fire[r].schedule
      BY DEF Inserts
    <3> QED
      BY <2>1, <3>1, <3>2, InsertAppends
  <2>3. fire[r].schedule \in Schedules
    BY <2>1 DEF Insert, At, FiringFits, Firings
  <2>4. row'[fire[r].schedule].status # "NEW"
    BY <1>1, <2>2, <2>3 DEF Stays, Exists, Statuses
  <2>5. \A i \in DOMAIN executions' : i \in DOMAIN executions \/ i = Len(executions) + 1
    BY <2>2, LenProperties DEF TypeOK
  <2> QED
    BY <1>1, <1>2, <2>2, <2>4, <2>5 DEF HasSchedule, Grows, Stays
<1> QED
  BY <1>3, <1>4

\* A schedule that does not exist is left alone until it is created.
LEMMA AbsentRows ==
  ASSUME TypeOK, FiringFits, EditFits, [Next]_vars, NEW s \in Schedules, ~Exists(s)
  PROVE  row'[s] = row[s] \/ Create(s)
<1> USE DEF TypeOK
<1>1. ASSUME NEW t \in Schedules, UserNext(t), ~Create(s) PROVE row'[s] = row[s]
  <2>1. CASE Create(t)
    BY <1>1, <2>1 DEF Create
  <2>2. CASE UpdateLoad(t)
    BY <2>2 DEF UpdateLoad
  <2>3. CASE UpdateCommit(t)
    BY <2>3, UpdateColumns
  <2>4. CASE Delete(t)
    BY <2>4 DEF Delete
  <2> QED
    BY <1>1, <2>1, <2>2, <2>3, <2>4 DEF UserNext
<1>2. ASSUME NEW r \in Replicas, SkipCommit(r) \/ Close(r) PROVE row'[s] = row[s]
  BY <1>2, WriteColumns DEF SkipCommit, Close, At, Firings
<1>3. ASSUME NEW r \in Replicas, ReplicaStep(r) \/ FaultNext(r), ~SkipCommit(r), ~Close(r)
      PROVE  row'[s] = row[s]
  BY <1>3 DEF ReplicaStep, FaultNext, TickBegins, Locks, SelectDue, AllFired, FireLoad, Insert,
              Enqueue, Leave, DatabaseRaises, LockRaises, ReplicaDies, users
<1>4. CASE TimePasses \/ EndOfTime \/ UNCHANGED vars
  BY <1>4 DEF TimePasses, EndOfTime, vars, users
<1> QED
  BY <1>1, <1>2, <1>3, <1>4 DEF Next

LEMMA BlankNext ==
  ASSUME TypeOK, FiringFits, EditFits, Blank, [Next]_vars
  PROVE  Blank'
<1> SUFFICES ASSUME NEW s \in Schedules, row'[s].status = "NEW" PROVE row'[s].next = 0
  BY DEF Blank
<1>1. row[s].status = "NEW" /\ ~Exists(s)
  BY RowsStay DEF Stays, Exists, Statuses
<1>2. ~Create(s)
  BY DEF Create, TypeOK
<1> QED
  BY <1>1, <1>2, AbsentRows DEF Blank

LEMMA LocalNext == Local /\ [Next]_vars => Local'
BY TypeNext, PcFitsLockNext, FiringFitsNext, EditFitsNext, HasScheduleNext, BlankNext
   DEF Local

-----------------------------------------------------------------------------
(* One replica fires at a time, and what follows for next_run_at.           *)

LEMMA OneFires ==
  ASSUME Local, Laggards = {}, NEW r \in Replicas, NEW q \in Replicas,
         pc[r] \in Firings, pc[q] \in Firings
  PROVE  r = q
<1>1. mode[r] = "inside" /\ mode[q] = "inside"
  BY DEF Local, PcFitsLock
<1> QED
  BY <1>1 DEF Local, InsideOwnsKey

\* Only the last commit of a firing moves next_run_at of a schedule for
\* which no update does.
NextMovedBy(s, r) ==
  /\ SkipCommit(r) \/ Close(r)
  /\ pc[r] \in Firings
  /\ fire[r].schedule = s
  /\ Exists(s)
  /\ row'[s].next = Following(r)

LEMMA NextMoves ==
  ASSUME Local, [Next]_vars, NEW s \in Schedules \ recast, row[s].status # "NEW"
  PROVE  row'[s].next = row[s].next \/ \E r \in Replicas : NextMovedBy(s, r)
<1> USE DEF Local, TypeOK
<1>1. ASSUME NEW t \in Schedules, UserNext(t) PROVE row'[s].next = row[s].next
  <2>1. CASE Create(t)
    BY <2>1 DEF Create
  <2>2. CASE UpdateLoad(t)
    BY <2>2 DEF UpdateLoad
  <2>3. CASE UpdateCommit(t)
    <3>1. CASE t = s
      BY <2>3, <3>1, UpdateColumns
    <3>2. CASE t # s
      BY <2>3, <3>2, UpdateColumns
    <3> QED
      BY <3>1, <3>2
  <2>4. CASE Delete(t)
    BY <2>4 DEF Delete, Row
  <2> QED
    BY <1>1, <2>1, <2>2, <2>3, <2>4 DEF UserNext
<1>2. ASSUME NEW r \in Replicas, SkipCommit(r) \/ Close(r)
      PROVE  row'[s].next = row[s].next \/ NextMovedBy(s, r)
  BY <1>2, WriteColumns DEF SkipCommit, Close, At, Firings, NextMovedBy
<1>3. ASSUME NEW r \in Replicas, ReplicaStep(r) \/ FaultNext(r), ~SkipCommit(r), ~Close(r)
      PROVE  row'[s].next = row[s].next
  BY <1>3 DEF ReplicaStep, FaultNext, TickBegins, Locks, SelectDue, AllFired, FireLoad, Insert,
              Enqueue, Leave, DatabaseRaises, LockRaises, ReplicaDies, users
<1>4. CASE TimePasses \/ EndOfTime \/ UNCHANGED vars
  BY <1>4 DEF TimePasses, EndOfTime, vars, users
<1> QED
  BY <1>1, <1>2, <1>3, <1>4 DEF Next

\* The one that fires loaded next_run_at as it still is, and moves it on.
LEMMA MovesOn ==
  ASSUME Local, FreshIsFresh, NEW s \in Schedules \ recast, NEW r \in Replicas,
         NextMovedBy(s, r)
  PROVE  /\ row'[s].next > fire[r].at
         /\ row'[s].next > row[s].next
<1>1. row[s].next = fire[r].fresh.next
  BY DEF FreshIsFresh, NextMovedBy
<1>2. /\ fire[r].fresh.next <= fire[r].at
      /\ fire[r].fresh.next \in Nat /\ fire[r].at \in Nat
  <2>1. fire[r] \in Firing
    BY DEF Local, TypeOK
  <2>2. fire[r].fresh.next \in Nat /\ fire[r].at \in Nat
    BY <2>1, LockAssumption, SchedulerAssumption DEF Firing, Row
  <2>3. fire[r].fresh.next <= fire[r].at
    BY DEF Local, FiringFits, NextMovedBy
  <2> QED
    BY <2>2, <2>3
<1>3. Following(r) \in Nat /\ Following(r) > fire[r].at
  BY FollowingIsLater DEF Local
<1> QED
  BY <1>1, <1>2, <1>3 DEF NextMovedBy

\* How a step can bring a replica to a place within _fire_schedule.
LEMMA FiringMoves ==
  ASSUME Local, [Next]_vars, NEW q \in Replicas, pc'[q] \in Firings
  PROVE  \/ AlikeAt(q)
         \/ /\ UNCHANGED <<row, executions>>
            /\ \E s \in Schedules : fire'[q] = Loaded(s)
         \/ /\ UNCHANGED row
            /\ pc[q] \in Firings
            /\ fire'[q].schedule = fire[q].schedule
            /\ fire'[q].fresh = fire[q].fresh
            /\ fire'[q].at = fire[q].at
<1> USE DEF Local, TypeOK, At, Advance, FiringEnds, Firings, users
<1>1. CASE (\E s \in Schedules : UserNext(s)) \/ TimePasses \/ EndOfTime \/ UNCHANGED vars
  BY <1>1 DEF AlikeAt, UserNext, Create, UpdateLoad, UpdateCommit, Delete, TimePasses,
              EndOfTime, vars
<1>2. ASSUME NEW r \in Replicas, r # q, ReplicaStep(r) \/ FaultNext(r) PROVE AlikeAt(q)
  BY <1>2 DEF AlikeAt, ReplicaStep, FaultNext, TickBegins, Locks, SelectDue, AllFired, FireLoad,
        SkipCommit, Insert, Enqueue, Close, Leave, DatabaseRaises, LockRaises, ReplicaDies
<1>3. CASE FaultNext(q)
  BY <1>3 DEF FaultNext, DatabaseRaises, LockRaises, ReplicaDies
<1>4. CASE TickBegins(q) \/ Locks(q) \/ SelectDue(q) \/ AllFired(q) \/ SkipCommit(q)
             \/ Close(q) \/ Leave(q)
  BY <1>4 DEF TickBegins, Locks, SelectDue, AllFired, SkipCommit, Close, Leave
<1>5. CASE FireLoad(q)
  BY <1>5 DEF FireLoad, AlikeAt
<1>6. CASE Insert(q) \/ Enqueue(q)
  <2>1. fire[q] \in Firing
    OBVIOUS
  <2> QED
    BY <1>6, <2>1 DEF Insert, Enqueue, Firing
<1> QED
  BY <1>1, <1>2, <1>3, <1>4, <1>5, <1>6 DEF Next, ReplicaStep

LEMMA FreshIsFreshNext ==
  ASSUME Local, Laggards = {}, FreshIsFresh, [Next]_vars
  PROVE  FreshIsFresh'
<1> SUFFICES ASSUME NEW q \in Replicas, pc'[q] \in Firings,
                    fire'[q].schedule \notin recast',
                    row'[fire'[q].schedule].status \in Statuses
             PROVE  row'[fire'[q].schedule].next = fire'[q].fresh.next
  BY DEF FreshIsFresh, Exists
<1> DEFINE s == fire'[q].schedule
<1>1. CASE AlikeAt(q)
  <2>1. /\ pc[q] \in Firings /\ s = fire[q].schedule /\ s \in Schedules \ recast
        /\ row[s].status # "NEW"
    BY <1>1, RecastGrows DEF AlikeAt, Local, FiringFits
  <2>2. Exists(s)
    <3>1. row[s] \in Row /\ Stays(s)
      BY <2>1, RowsStay DEF Local, TypeOK
    <3> QED
      BY <2>1, <3>1 DEF Stays, Exists, Statuses, Row
  <2>3. row[s].next = fire'[q].fresh.next
    BY <1>1, <2>1, <2>2 DEF FreshIsFresh, AlikeAt
  <2>4. ASSUME NEW r \in Replicas, NextMovedBy(s, r) PROVE FALSE
    <3>1. r = q
      BY <2>1, <2>4, OneFires DEF NextMovedBy
    <3> QED
      BY <2>4, <3>1 DEF NextMovedBy, SkipCommit, Close, FiringEnds, Advance, Firings, Local, TypeOK
  <2> QED
    BY <2>1, <2>3, <2>4, NextMoves
<1>2. CASE UNCHANGED row /\ \E t \in Schedules : fire'[q] = Loaded(t)
  BY <1>2 DEF Loaded, NoFiring
<1>3. CASE /\ UNCHANGED row
           /\ pc[q] \in Firings
           /\ fire'[q].schedule = fire[q].schedule
           /\ fire'[q].fresh = fire[q].fresh
  BY <1>3, RecastGrows DEF FreshIsFresh, Exists
<1> QED
  BY <1>1, <1>2, <1>3, FiringMoves

\* How a firing that has inserted its execution can go on.
LEMMA InsertedMoves ==
  ASSUME Local, [Next]_vars, NEW q \in Replicas, pc[q] \in Inserted
  PROVE  \/ fire'[q].execution = fire[q].execution
         \/ Close(q)
         \/ Strike(q) /\ UNCHANGED row
<1> USE DEF Local, TypeOK, At, Advance, FiringEnds, Inserted, users
<1>1. CASE (\E s \in Schedules : UserNext(s)) \/ TimePasses \/ EndOfTime \/ UNCHANGED vars
  BY <1>1 DEF UserNext, Create, UpdateLoad, UpdateCommit, Delete, TimePasses, EndOfTime, vars
<1>2. ASSUME NEW r \in Replicas, r # q, ReplicaStep(r) \/ FaultNext(r)
      PROVE  fire'[q] = fire[q]
  BY <1>2 DEF ReplicaStep, FaultNext, TickBegins, Locks, SelectDue, AllFired, FireLoad,
        SkipCommit, Insert, Enqueue, Close, Leave, DatabaseRaises, LockRaises, ReplicaDies
<1>3. CASE FaultNext(q)
  BY <1>3 DEF FaultNext, DatabaseRaises, LockRaises, ReplicaDies
<1>4. CASE Enqueue(q)
  <2>1. fire[q] \in Firing
    OBVIOUS
  <2> QED
    BY <1>4, <2>1 DEF Enqueue, Firing
<1>5. ASSUME ReplicaStep(q), ~Enqueue(q), ~Close(q) PROVE FALSE
  BY <1>5 DEF ReplicaStep, TickBegins, Locks, SelectDue, AllFired, FireLoad, SkipCommit, Insert,
              Leave
<1> QED
  BY <1>1, <1>2, <1>3, <1>4, <1>5 DEF Next

\* What NextIsAhead says of execution i.
Ahead(i) ==
  LET x == executions[i] IN
  \/ x.schedule \in recast \/ ~Exists(x.schedule)
  \/ \E r \in Replicas : fire[r].execution = i
  \/ x.at < row[x.schedule].next
  \/ x.struck /\ x.slot = row[x.schedule].next

LEMMA StaysAhead ==
  ASSUME Local, Laggards = {}, FreshIsFresh, FiringIsLatest, [Next]_vars,
         NEW i \in DOMAIN executions, Ahead(i)
  PROVE  Ahead(i)'
<1> DEFINE x == executions[i]
           s == x.schedule
<1>0. x \in Execution
  BY DEF Local, TypeOK
<1>1. /\ s \in Schedules /\ x.at \in Nat /\ x.slot \in Nat
      /\ row[s] \in Row /\ row'[s] \in Row /\ row[s].next \in Nat /\ row'[s].next \in Nat
      /\ row[s].status # "NEW" /\ row'[s].status # "NEW"
      /\ row[s].status = "GONE" => row'[s].status = "GONE"
  <2>1. s \in Schedules /\ x.at \in Nat /\ x.slot \in Nat
    BY <1>0, LockAssumption, SchedulerAssumption DEF Execution
  <2>2. Local'
    BY LocalNext
  <2>3. row[s] \in Row /\ row'[s] \in Row
    BY <2>1, <2>2 DEF Local, TypeOK
  <2>4. row[s].status # "NEW" /\ Stays(s)
    BY <2>1, RowsStay DEF Local, HasSchedule
  <2> QED
    BY <2>1, <2>3, <2>4 DEF Stays, Row
<1>2. /\ executions'[i].schedule = s /\ executions'[i].at = x.at /\ executions'[i].slot = x.slot
      /\ x.struck => executions'[i].struck
  BY ExecutionsGrow DEF Grows, Local
<1>3. CASE s \in recast \/ row[s].status = "GONE" \/ row'[s].status = "GONE"
  BY <1>1, <1>2, <1>3, RecastGrows DEF Ahead, Exists, Statuses
<1>4. ASSUME s \notin recast, Exists(s), x.at < row[s].next
      PROVE  Ahead(i)'
  <2>1. row'[s].next >= row[s].next
    BY <1>1, <1>4, NextMoves, MovesOn
  <2> QED
    BY <1>1, <1>2, <1>4, <2>1 DEF Ahead
<1>s. ASSUME s \notin recast, Exists(s), x.struck, x.slot = row[s].next
      PROVE  Ahead(i)'
  <2>1. CASE row'[s].next = row[s].next
    BY <1>1, <1>2, <1>s, <2>1 DEF Ahead
  <2>2. ASSUME NEW r \in Replicas, NextMovedBy(s, r) PROVE Ahead(i)'
    <3>1. row'[s].next > fire[r].at
      BY <1>1, <1>s, <2>2, MovesOn
    <3>2. x.at <= fire[r].at
      BY <2>2 DEF FiringIsLatest, NextMovedBy
    <3>3. fire[r].at \in Nat
      <4>1. fire[r] \in Firing
        BY DEF Local, TypeOK
      <4> QED
        BY <4>1, SchedulerAssumption DEF Firing
    <3>4. x.at < row'[s].next
      BY <1>1, <3>1, <3>2, <3>3
    <3> QED
      BY <1>2, <3>4 DEF Ahead
  <2> QED
    BY <1>1, <1>s, <2>1, <2>2, NextMoves
<1>5. ASSUME NEW r \in Replicas, fire[r].execution = i, s \notin recast, Exists(s)
      PROVE  Ahead(i)'
  <2>1. /\ pc[r] \in Inserted /\ pc[r] \in Firings
        /\ s = fire[r].schedule
        /\ x.at = fire[r].at
        /\ x.slot = fire[r].fresh.next
    <3>1. i # 0
      BY DEF Local, TypeOK
    <3>2. pc[r] \in Inserted
      BY <1>5, <3>1 DEF Local, FiringFits
    <3> QED
      BY <1>5, <3>2 DEF Local, FiringFits, Inserted, Firings
  <2>2. CASE fire'[r].execution = fire[r].execution
    BY <1>5, <2>2 DEF Ahead
  <2>3. CASE Close(r)
    <3>1. row'[s].next = Following(r)
      BY <1>5, <2>1, <2>3, WriteColumns DEF Close, Local
    <3>2. NextMovedBy(s, r)
      BY <1>5, <2>1, <2>3, <3>1 DEF NextMovedBy
    <3>3. row'[s].next > x.at
      BY <1>1, <1>5, <2>1, <3>2, MovesOn
    <3> QED
      BY <1>1, <1>2, <3>3 DEF Ahead
  <2>4. CASE Strike(r) /\ UNCHANGED row
    <3>1. executions'[i].struck
      <4>1. executions' = [executions EXCEPT ![i].struck = TRUE]
        BY <1>5, <2>4 DEF Strike, Local, TypeOK
      <4> QED
        BY <1>0, <4>1 DEF Execution, Local, TypeOK
    <3>2. x.slot = row[s].next
      BY <1>5, <2>1 DEF FreshIsFresh
    <3> QED
      BY <1>2, <2>4, <3>1, <3>2 DEF Ahead
  <2> QED
    BY <2>1, <2>2, <2>3, <2>4, InsertedMoves
<1> QED
  BY <1>1, <1>3, <1>4, <1>s, <1>5 DEF Ahead, Exists, Row

\* The executions after a step are those before it and the one it inserts.
LEMMA NewExecution ==
  ASSUME Local, [Next]_vars, NEW j \in DOMAIN executions', j \notin DOMAIN executions
  PROVE  \E r \in Replicas :
           /\ Insert(r)
           /\ pc[r] = "inserting"
           /\ Exists(fire[r].schedule)
           /\ j = Len(executions) + 1
           /\ DOMAIN executions = 1..Len(executions)
           /\ executions'[j] = Inserts(r)
           /\ fire'[r].execution = j
<1>1. executions' # executions
  OBVIOUS
<1>2. PICK r \in Replicas : Insert(r)
  <2>1. ASSUME NEW r \in Replicas, Enqueue(r) \/ Close(r) \/ Strike(r) PROVE FALSE
    BY <2>1, ExecutionsKept DEF Kept, Local
  <2> QED
    BY <1>1, <2>1 DEF Next, UserNext, ReplicaStep, FaultNext, Create, UpdateLoad, UpdateCommit,
          Delete, TickBegins, Locks, SelectDue, AllFired, FireLoad, SkipCommit, Leave,
          DatabaseRaises, LockRaises, ReplicaDies, TimePasses, EndOfTime, vars
<1>3. /\ Exists(fire[r].schedule)
      /\ DOMAIN executions = 1..Len(executions)
      /\ DOMAIN executions' = 1..(Len(executions) + 1)
      /\ executions'[Len(executions) + 1] = Inserts(r)
      /\ fire' = [fire EXCEPT ![r].execution = Len(executions) + 1]
  BY <1>1, <1>2, InsertAppends DEF Local
<1>l. Len(executions) \in Nat
  BY LenProperties DEF Local, TypeOK
<1>4. j = Len(executions) + 1
  BY <1>l, <1>3
<1>5. fire'[r].execution = j
  <2>1. fire[r] \in Firing
    BY DEF Local, TypeOK
  <2> QED
    BY <1>3, <1>4, <2>1 DEF Local, TypeOK, Firing
<1> QED
  BY <1>2, <1>3, <1>4, <1>5 DEF Insert, At

LEMMA NextIsAheadNext ==
  ASSUME Local, Laggards = {}, FreshIsFresh, FiringIsLatest, NextIsAhead, [Next]_vars
  PROVE  NextIsAhead'
<1> SUFFICES ASSUME NEW i \in DOMAIN executions' PROVE Ahead(i)'
  BY DEF NextIsAhead, Ahead
<1>1. CASE i \in DOMAIN executions
  BY <1>1, StaysAhead DEF NextIsAhead, Ahead
<1>2. CASE i \notin DOMAIN executions
  BY <1>2, NewExecution DEF Ahead
<1> QED
  BY <1>1, <1>2

LEMMA ClockAdvances == TypeOK /\ [Next]_vars => now \in Nat /\ now' \in Nat /\ now <= now'
<1> SUFFICES ASSUME TypeOK, [Next]_vars PROVE now \in Nat /\ now' \in Nat /\ now <= now'
  OBVIOUS
<1>1. now \in Nat
  BY SchedulerAssumption DEF TypeOK
<1>2. now' = now \/ now' = now + 1
  BY DEF Next, UserNext, ReplicaStep, FaultNext, Create, UpdateLoad, UpdateCommit, Delete,
         TickBegins, Locks, SelectDue, AllFired, FireLoad, SkipCommit, Insert, Enqueue, Close,
         Leave, DatabaseRaises, LockRaises, ReplicaDies, TimePasses, EndOfTime, vars
<1> QED
  BY <1>1, <1>2

LEMMA InThePastNext ==
  ASSUME Local, InThePast, [Next]_vars
  PROVE  InThePast'
<1>1. now \in Nat /\ now' \in Nat /\ now <= now'
  BY ClockAdvances DEF Local
<1>2. \A r \in Replicas : fire[r].at \in Nat /\ fire[r].fresh.next \in Nat
  <2> SUFFICES ASSUME NEW r \in Replicas
               PROVE  fire[r].at \in Nat /\ fire[r].fresh.next \in Nat
    OBVIOUS
  <2>1. fire[r] \in Firing
    BY DEF Local, TypeOK
  <2> QED
    BY <2>1, SchedulerAssumption DEF Firing, Row
<1>3. ASSUME NEW i \in DOMAIN executions'
      PROVE  executions'[i].slot <= executions'[i].at /\ executions'[i].at <= now'
  <2>1. CASE i \in DOMAIN executions
    <3>1. executions[i].at \in Nat
      <4>1. executions[i] \in Execution
        BY <2>1 DEF Local, TypeOK
      <4> QED
        BY <4>1, SchedulerAssumption DEF Execution
    <3>2. /\ executions'[i].slot = executions[i].slot
          /\ executions'[i].at = executions[i].at
      BY <2>1, ExecutionsGrow DEF Local, Grows
    <3>3. executions[i].slot <= executions[i].at /\ executions[i].at <= now
      BY <2>1 DEF InThePast
    <3> QED
      BY <1>1, <3>1, <3>2, <3>3
  <2>2. CASE i \notin DOMAIN executions
    <3>1. PICK r \in Replicas : pc[r] = "inserting" /\ executions'[i] = Inserts(r)
      BY <1>3, <2>2, NewExecution
    <3>2. fire[r].fresh.next <= fire[r].at /\ fire[r].at <= now
      BY <3>1 DEF Local, FiringFits, InThePast, Firings
    <3>3. executions'[i].slot = fire[r].fresh.next /\ executions'[i].at = fire[r].at
      BY <3>1 DEF Inserts
    <3> QED
      BY <1>1, <1>2, <3>2, <3>3
  <2> QED
    BY <2>1, <2>2
<1>4. ASSUME NEW q \in Replicas, pc'[q] \in Firings PROVE fire'[q].at <= now'
  <2>1. CASE AlikeAt(q)
    <3>1. fire'[q].at = fire[q].at /\ fire[q].at <= now
      BY <1>4, <2>1 DEF AlikeAt, InThePast
    <3> QED
      BY <1>1, <1>2, <3>1
  <2>2. CASE \E s \in Schedules : fire'[q] = Loaded(s)
    <3>1. fire'[q].at = now
      BY <2>2 DEF Loaded, NoFiring
    <3> QED
      BY <1>1, <3>1
  <2>3. CASE pc[q] \in Firings /\ fire'[q].at = fire[q].at
    <3>1. fire[q].at <= now
      BY <2>3 DEF InThePast
    <3> QED
      BY <1>1, <1>2, <2>3, <3>1
  <2> QED
    BY <1>4, <2>1, <2>2, <2>3, FiringMoves
<1> QED
  BY <1>3, <1>4 DEF InThePast

LEMMA FiringIsLatestNext ==
  ASSUME Local, InThePast, Laggards = {}, FiringIsLatest, [Next]_vars
  PROVE  FiringIsLatest'
<1> SUFFICES ASSUME NEW q \in Replicas, pc'[q] \in Firings,
                    NEW i \in DOMAIN executions',
                    executions'[i].schedule = fire'[q].schedule
             PROVE  executions'[i].at <= fire'[q].at
  BY DEF FiringIsLatest
<1>1. ASSUME i \in DOMAIN executions
      PROVE  /\ executions'[i].schedule = executions[i].schedule
             /\ executions'[i].at = executions[i].at
             /\ executions[i].at <= now
  BY <1>1, ExecutionsGrow DEF Local, Grows, InThePast
<1>2. ASSUME i \notin DOMAIN executions
      PROVE  \E r \in Replicas : /\ pc[r] = "inserting"
                                 /\ executions' # executions
                                 /\ executions'[i].at = fire[r].at
  BY <1>2, NewExecution DEF Inserts
<1>3. ASSUME pc[q] \in Firings, fire'[q].at = fire[q].at,
             fire'[q].schedule = fire[q].schedule
      PROVE  executions'[i].at <= fire'[q].at
  <2>1. CASE i \in DOMAIN executions
    BY <1>1, <1>3, <2>1 DEF FiringIsLatest
  <2>2. CASE i \notin DOMAIN executions
    <3>1. executions'[i].at = fire[q].at
      BY <1>2, <1>3, <2>2, OneFires DEF Firings
    <3>2. fire[q].at \in Nat
      <4>1. fire[q] \in Firing
        BY DEF Local, TypeOK
      <4> QED
        BY <4>1, SchedulerAssumption DEF Firing
    <3> QED
      BY <1>3, <3>1, <3>2
  <2> QED
    BY <2>1, <2>2
<1>4. CASE AlikeAt(q)
  BY <1>3, <1>4 DEF AlikeAt
<1>5. CASE UNCHANGED executions /\ \E s \in Schedules : fire'[q] = Loaded(s)
  <2>1. fire'[q].at = now
    BY <1>5 DEF Loaded, NoFiring
  <2> QED
    BY <1>1, <1>5, <2>1
<1> QED
  BY <1>3, <1>4, <1>5, FiringMoves

LEMMA NoBackfillNext ==
  ASSUME Local, InThePast, Laggards = {}, FreshIsFresh, NextIsAhead, NoBackfill, [Next]_vars
  PROVE  NoBackfill'
<1> SUFFICES ASSUME NEW i \in DOMAIN executions', NEW j \in DOMAIN executions', i < j,
                    executions'[i].schedule = executions'[j].schedule,
                    executions'[i].schedule \notin recast'
             PROVE  \/ executions'[i].at < executions'[j].slot
                    \/ executions'[i].struck /\ executions'[i].slot = executions'[j].slot
  <2>1. \A i \in DOMAIN executions' : executions'[i].slot <= executions'[i].at
    BY InThePastNext DEF InThePast
  <2> QED
    BY <2>1 DEF NoBackfill
<1>0. executions'[i].schedule \notin recast
  BY RecastGrows
<1>1. Grows
  BY ExecutionsGrow DEF Local
<1>2. CASE i \in DOMAIN executions /\ j \in DOMAIN executions
  BY <1>0, <1>1, <1>2 DEF Grows, NoBackfill
<1>3. CASE j \notin DOMAIN executions
  <2>1. PICK r \in Replicas :
           /\ pc[r] = "inserting"
           /\ Exists(fire[r].schedule)
           /\ j = Len(executions) + 1
           /\ DOMAIN executions = 1..Len(executions)
           /\ executions'[j] = Inserts(r)
    BY <1>3, NewExecution
  <2>2. i \in DOMAIN executions
    <3>1. Len(executions) \in Nat /\ Len(executions') \in Nat /\ DOMAIN executions' = 1..Len(executions')
      BY LocalNext, LenProperties DEF Local, TypeOK
    <3> QED
      BY <2>1, <3>1
  <2>3. /\ fire[r].schedule = executions[i].schedule
        /\ executions'[j].slot = fire[r].fresh.next
        /\ executions'[i].at = executions[i].at
        /\ executions'[i].slot = executions[i].slot
        /\ executions[i].struck => executions'[i].struck
        /\ executions[i].schedule \notin recast
    BY <1>0, <1>1, <2>1, <2>2 DEF Grows, Inserts
  <2>4. row[fire[r].schedule].next = fire[r].fresh.next
    BY <2>1, <2>3 DEF FreshIsFresh, Firings
  <2>5. ASSUME NEW q \in Replicas, fire[q].execution = i PROVE FALSE
    <3>1. i # 0
      BY <2>2 DEF Local, TypeOK
    <3>2. pc[q] \in Inserted
      BY <2>5, <3>1 DEF Local, FiringFits
    <3>3. q = r
      BY <2>1, <3>2, OneFires DEF Inserted, Firings
    <3> QED
      BY <2>1, <3>2, <3>3 DEF Inserted
  <2>6. \/ executions[i].at < row[executions[i].schedule].next
        \/ executions[i].struck /\ executions[i].slot = row[executions[i].schedule].next
    BY <2>1, <2>2, <2>3, <2>5 DEF NextIsAhead
  <2> QED
    BY <2>3, <2>4, <2>6
<1>4. CASE i \notin DOMAIN executions
  <2>1. j \in DOMAIN executions
    BY <1>3, <1>4, NewExecution
  <2>2. i = Len(executions) + 1 /\ DOMAIN executions = 1..Len(executions)
    BY <1>4, NewExecution
  <2> QED
    BY <2>1, <2>2, LenProperties DEF Local, TypeOK
<1> QED
  BY <1>2, <1>3, <1>4

-----------------------------------------------------------------------------
(* No execution is forgotten.  A firing has an execution of its own; when it *)
(* is about to close, either the enqueue has raised or the job is there.    *)

OwnExecution ==
  \A r, q \in Replicas :
    r # q /\ pc[r] \in Inserted /\ pc[q] \in Inserted
      => fire[r].execution # fire[q].execution

Answered ==
  \A r \in Replicas :
    pc[r] = "closing" => fire[r].refused \/ executions[fire[r].execution].job

Care == OwnExecution /\ Answered /\ NoneForgotten

Settled(i) ==
  LET x == executions[i] IN
  x.job \/ x.status = "FAILED" \/ x.struck \/ row[x.schedule].status = "GONE"

\* What is settled stays so while its execution stays as it is.
LEMMA SettledStays ==
  ASSUME TypeOK, FiringFits, EditFits, [Next]_vars, NEW i \in DOMAIN executions,
         Settled(i), executions'[i] = executions[i]
  PROVE  Settled(i)'
<1>1. executions[i].schedule \in Schedules
  <2>1. executions[i] \in Execution
    BY DEF TypeOK
  <2> QED
    BY <2>1 DEF Execution
<1>2. ASSUME NEW s \in Schedules, row[s].status = "GONE" PROVE row'[s].status = "GONE"
  BY <1>2, AbsentRows DEF Create, Exists, Statuses
<1> QED
  BY <1>1, <1>2 DEF Settled

\* Steps that neither touch an execution nor begin or end the care of one.
LEMMA CareUntouched ==
  ASSUME Local, Care, [Next]_vars, UNCHANGED executions,
         \A q \in Replicas : /\ fire'[q].execution = fire[q].execution
                             /\ pc'[q] \in Inserted => AlikeAt(q)
  PROVE  Care'
<1>1. OwnExecution' /\ Answered'
  BY DEF Care, OwnExecution, Answered, AlikeAt, Inserted
<1>2. NoneForgotten'
  BY SettledStays DEF Local, Care, NoneForgotten, Settled
<1> QED
  BY <1>1, <1>2 DEF Care

\* One replica inserts, enqueues or drops its execution n.
LEMMA CareOfOne ==
  ASSUME Local, Care, [Next]_vars, NEW r \in Replicas, NEW n \in Nat,
         \A q \in Replicas \ {r} : AlikeAt(q) /\ (pc[q] \in Inserted => fire[q].execution # n),
         \A i \in DOMAIN executions \ {n} : executions'[i] = executions[i],
         DOMAIN executions' \subseteq DOMAIN executions \cup {n},
         pc[r] \in Inserted => fire[r].execution = n,
         pc'[r] \in Inserted => fire'[r].execution = n,
         pc'[r] = "closing" => fire'[r].refused \/ executions'[n].job,
         n \in DOMAIN executions' => Settled(n)' \/ fire'[r].execution = n
  PROVE  Care'
<1>1. OwnExecution'
  BY DEF Care, OwnExecution, AlikeAt
<1>2. Answered'
  <2> SUFFICES ASSUME NEW q \in Replicas, pc'[q] = "closing"
               PROVE  fire'[q].refused \/ executions'[fire'[q].execution].job
    BY DEF Answered
  <2>1. CASE q = r
    BY <2>1 DEF Inserted
  <2>2. CASE q # r
    <3>1. pc[q] = "closing" /\ fire'[q] = fire[q] /\ fire[q].execution # n
      BY <2>2 DEF AlikeAt, Inserted
    <3>2. fire[q].execution \in DOMAIN executions
      BY <3>1 DEF Local, FiringFits, Inserted
    <3> QED
      BY <3>1, <3>2 DEF Care, Answered
  <2> QED
    BY <2>1, <2>2
<1>3. NoneForgotten'
  <2> SUFFICES ASSUME NEW i \in DOMAIN executions'
               PROVE  Settled(i)' \/ \E q \in Replicas : fire'[q].execution = i
    BY DEF NoneForgotten, Settled
  <2>1. CASE i = n
    BY <2>1
  <2>2. CASE i # n
    <3>1. i \in DOMAIN executions \ {n}
      BY <2>2
    <3>2. CASE Settled(i)
      BY <3>1, <3>2, SettledStays DEF Local
    <3>3. ASSUME NEW q \in Replicas, fire[q].execution = i PROVE fire'[q].execution = i
      <4>1. i # 0
        BY <3>1, LenProperties DEF Local, TypeOK
      <4>2. pc[q] \in Inserted
        BY <3>3, <4>1 DEF Local, FiringFits
      <4> QED
        BY <2>2, <3>3, <4>2 DEF AlikeAt
    <3> QED
      BY <3>1, <3>2, <3>3 DEF Care, NoneForgotten, Settled
  <2> QED
    BY <2>1, <2>2
<1> QED
  BY <1>1, <1>2, <1>3 DEF Care

LEMMA InsertCares ==
  ASSUME Local, Care, [Next]_vars, NEW r \in Replicas, Insert(r)
  PROVE  Care'
<1>1. /\ \A q \in Replicas \ {r} : AlikeAt(q)
      /\ pc[r] = "inserting" /\ fire[r].execution = 0
  BY DEF Local, TypeOK, FiringFits, Inserted, Insert, At, FiringEnds, Advance, AlikeAt
<1>2. CASE UNCHANGED executions /\ fire' = [fire EXCEPT ![r] = NoFiring]
           /\ pc' = [pc EXCEPT ![r] = "choosing"]
  <2>1. fire'[r].execution = fire[r].execution /\ pc'[r] \notin Inserted
    BY <1>1, <1>2 DEF Local, TypeOK, NoFiring, Inserted
  <2> QED
    BY <1>1, <1>2, <2>1, CareUntouched DEF AlikeAt
<1>3. CASE ~(UNCHANGED executions /\ fire' = [fire EXCEPT ![r] = NoFiring]
             /\ pc' = [pc EXCEPT ![r] = "choosing"])
  <2>0. PICK n \in Nat : n = Len(executions) + 1
    BY LenProperties DEF Local, TypeOK
  <2>1. /\ DOMAIN executions' = 1 .. n
        /\ DOMAIN executions = 1 .. Len(executions)
        /\ \A i \in DOMAIN executions : executions'[i] = executions[i]
        /\ n \notin DOMAIN executions
        /\ fire' = [fire EXCEPT ![r].execution = n]
        /\ pc' = [pc EXCEPT ![r] = "enqueueing"]
    BY <1>3, <2>0, InsertAppends DEF Local
  <2>2. DOMAIN executions' \subseteq DOMAIN executions \cup {n}
    BY <2>0, <2>1, LenProperties DEF Local, TypeOK
  <2>3. fire'[r].execution = n /\ pc'[r] = "enqueueing"
    BY <2>1 DEF Local, TypeOK, Firing
  <2>4. \A q \in Replicas : pc[q] \in Inserted => fire[q].execution # n
    BY <2>1 DEF Local, FiringFits
  <2> QED
    BY <1>1, <2>1, <2>2, <2>3, <2>4, CareOfOne DEF Inserted
<1> QED
  BY <1>2, <1>3

LEMMA EnqueueCares ==
  ASSUME Local, Care, [Next]_vars, NEW r \in Replicas, Enqueue(r)
  PROVE  Care'
<1>0. PICK n \in Nat : n = fire[r].execution
  BY DEF Local, TypeOK, Firing
<1>1. /\ \A q \in Replicas \ {r} : AlikeAt(q)
      /\ pc[r] = "enqueueing" /\ n \in DOMAIN executions
  BY <1>0 DEF Local, TypeOK, FiringFits, Inserted, Enqueue, At, Advance, AlikeAt
<1>2. PICK raised, applied \in BOOLEAN :
        /\ raised \/ applied
        /\ fire' = [fire EXCEPT ![r].refused = raised]
        /\ executions' = [executions EXCEPT ![n].job = applied]
  BY <1>0 DEF Enqueue
<1>3. fire'[r].execution = n /\ fire'[r].refused = raised
  BY <1>0, <1>2 DEF Local, TypeOK, Firing
<1>4. /\ DOMAIN executions' = DOMAIN executions
      /\ \A i \in DOMAIN executions \ {n} : executions'[i] = executions[i]
      /\ executions'[n].job = applied
  <2>1. executions[n] \in Execution
    BY <1>1 DEF Local, TypeOK
  <2> QED
    BY <1>1, <1>2, <2>1 DEF Local, TypeOK, Execution
<1>5. \A q \in Replicas \ {r} : pc[q] \in Inserted => fire[q].execution # n
  BY <1>0, <1>1 DEF Care, OwnExecution, Inserted
<1> QED
  BY <1>1, <1>2, <1>3, <1>4, <1>5, <1>0, CareOfOne

LEMMA CloseCares ==
  ASSUME Local, Care, [Next]_vars, NEW r \in Replicas, Close(r)
  PROVE  Care'
<1>0. PICK n \in Nat : n = fire[r].execution
  BY DEF Local, TypeOK, Firing
<1> DEFINE s == fire[r].schedule
<1>1. /\ \A q \in Replicas \ {r} : AlikeAt(q)
      /\ pc[r] = "closing" /\ n \in DOMAIN executions
      /\ pc'[r] = "choosing"
  BY <1>0 DEF Local, TypeOK, FiringFits, Inserted, Close, At, FiringEnds, Advance, AlikeAt, Firing
<1>2. /\ s \in Schedules
      /\ executions[n].schedule = s
      /\ row[s].status # "NEW"
  BY <1>0, <1>1 DEF Local, FiringFits, Inserted, Firings
<1>3. executions[n] \in Execution
  BY <1>1 DEF Local, TypeOK
<1>4. /\ DOMAIN executions' = DOMAIN executions
      /\ \A i \in DOMAIN executions \ {n} : executions'[i] = executions[i]
      /\ Settled(n)'
  <2>1. CASE Exists(s)
    <3>1. executions' = [executions EXCEPT ![n].status = Verdict(r)]
      BY <1>0, <2>1 DEF Close
    <3>2. /\ DOMAIN executions' = DOMAIN executions
          /\ \A i \in DOMAIN executions \ {n} : executions'[i] = executions[i]
          /\ executions'[n].status = Verdict(r)
          /\ executions'[n].job = executions[n].job
      BY <1>1, <1>3, <3>1 DEF Local, TypeOK, Execution
    <3>3. Verdict(r) = "FAILED" \/ executions[n].job
      BY <1>0, <1>1 DEF Care, Answered, Verdict
    <3> QED
      BY <3>2, <3>3 DEF Settled
  <2>2. CASE ~Exists(s)
    <3>1. executions' = executions
      BY <2>2 DEF Close
    <3>2. row[s].status = "GONE"
      BY <1>2, <2>2 DEF Local, TypeOK, Row, Exists
    <3>3. Settled(n)
      BY <1>2, <3>2 DEF Settled
    <3> QED
      BY <1>1, <3>1, <3>3, SettledStays DEF Local
  <2> QED
    BY <2>1, <2>2
<1>5. \A q \in Replicas \ {r} : pc[q] \in Inserted => fire[q].execution # n
  BY <1>0, <1>1 DEF Care, OwnExecution, Inserted
<1> QED
  BY <1>0, <1>1, <1>4, <1>5, CareOfOne DEF Inserted

\* A firing that is broken off strikes the execution that it had.
LEMMA StrikeCares ==
  ASSUME Local, Care, [Next]_vars, NEW r \in Replicas, Strike(r),
         fire' = [fire EXCEPT ![r] = NoFiring], pc'[r] \notin Inserted,
         \A q \in Replicas \ {r} : pc'[q] = pc[q]
  PROVE  Care'
<1>0. PICK n \in Nat : n = fire[r].execution
  BY DEF Local, TypeOK, Firing
<1>1. /\ \A q \in Replicas \ {r} : AlikeAt(q)
      /\ fire'[r].execution = 0
  BY DEF Local, TypeOK, AlikeAt, NoFiring, Firing
<1>2. CASE n = 0
  BY <1>0, <1>1, <1>2, CareUntouched DEF Strike, AlikeAt
<1>3. CASE n # 0
  <2>1. pc[r] \in Inserted /\ n \in DOMAIN executions
    BY <1>0, <1>3 DEF Local, FiringFits
  <2>2. executions' = [executions EXCEPT ![n].struck = TRUE]
    BY <1>0, <1>3 DEF Strike
  <2>3. executions[n] \in Execution
    BY <2>1 DEF Local, TypeOK
  <2>4. /\ DOMAIN executions' = DOMAIN executions
        /\ \A i \in DOMAIN executions \ {n} : executions'[i] = executions[i]
        /\ executions'[n].struck = TRUE
    BY <2>1, <2>2, <2>3 DEF Local, TypeOK, Execution
  <2>5. \A q \in Replicas \ {r} : pc[q] \in Inserted => fire[q].execution # n
    BY <1>0, <2>1 DEF Care, OwnExecution
  <2>6. Settled(n)'
    BY <2>4 DEF Settled
  <2> QED
    BY <1>0, <1>1, <2>1, <2>4, <2>5, <2>6, CareOfOne DEF Inserted
<1> QED
  BY <1>2, <1>3

LEMMA CareNext == Local /\ Care /\ [Next]_vars => Care'
<1> SUFFICES ASSUME Local, Care, [Next]_vars PROVE Care'
  OBVIOUS
<1>1. ASSUME NEW s \in Schedules, UserNext(s) PROVE Care'
  BY <1>1, CareUntouched
     DEF UserNext, Create, UpdateLoad, UpdateCommit, Delete, AlikeAt
<1>2. ASSUME NEW r \in Replicas,
             TickBegins(r) \/ Locks(r) \/ SelectDue(r) \/ AllFired(r) \/ Leave(r) \/ LockRaises(r)
      PROVE  Care'
  BY <1>2, CareUntouched
     DEF TickBegins, Locks, SelectDue, AllFired, Leave, LockRaises, Advance, AlikeAt, Inserted,
         Local, TypeOK
<1>3. ASSUME NEW r \in Replicas, FireLoad(r) \/ SkipCommit(r) PROVE Care'
  <2>1. UNCHANGED executions /\ pc[r] \notin Inserted /\ pc'[r] \notin Inserted
    BY <1>3 DEF FireLoad, SkipCommit, FiringEnds, Advance, At, Inserted, Local, TypeOK
  <2>2. \A q \in Replicas \ {r} : AlikeAt(q)
    BY <1>3 DEF FireLoad, SkipCommit, FiringEnds, Advance, AlikeAt, Local, TypeOK
  <2>3. fire[r].execution = 0
    BY <2>1 DEF Local, FiringFits
  <2>4. fire'[r].execution = 0
    <3>1. \A s \in Schedules : Loaded(s).execution = 0
      BY DEF Loaded, NoFiring
    <3> QED
      BY <1>3, <2>3, <3>1 DEF FireLoad, SkipCommit, FiringEnds, NoFiring, Local, TypeOK
  <2> QED
    BY <2>1, <2>2, <2>3, <2>4, CareUntouched DEF AlikeAt
<1>4. ASSUME NEW r \in Replicas, DatabaseRaises(r) PROVE Care'
  <2>1. CASE At(r, "selecting") /\ Advance(r, "leaving") /\ UNCHANGED <<executions, fire>>
    BY <2>1, CareUntouched DEF At, Advance, AlikeAt, Inserted, Local, TypeOK
  <2>2. CASE Strike(r) /\ FiringEnds(r)
    BY <2>2, StrikeCares DEF FiringEnds, Advance, Inserted, Local, TypeOK
  <2> QED
    BY <1>4, <2>1, <2>2 DEF DatabaseRaises
<1>5. ASSUME NEW r \in Replicas, ReplicaDies(r) PROVE Care'
  BY <1>5, StrikeCares DEF ReplicaDies, Advance, Inserted, Local, TypeOK
<1>6. CASE TimePasses \/ EndOfTime \/ UNCHANGED vars
  BY <1>6, CareUntouched DEF TimePasses, EndOfTime, vars, AlikeAt
<1> QED
  BY <1>1, <1>2, <1>3, <1>4, <1>5, <1>6, InsertCares, EnqueueCares, CloseCares
     DEF Next, ReplicaStep, FaultNext

-----------------------------------------------------------------------------
(* The theorems.                                                            *)

LEMMA InvInit == Init => Inv
<1> SUFFICES ASSUME Init PROVE Inv
  OBVIOUS
<1> USE LockAssumption, SchedulerAssumption DEF Init
<1>1. TypeOK
  BY RowsAreRows DEF TypeOK, LockInit, LockTypeOK, Modes
<1>2. InsideOwnsKey /\ PcFitsLock
  BY DEF LockInit, InsideOwnsKey, PcFitsLock, Firings
<1>3. FiringFits
  BY DEF FiringFits, NoFiring, Firings, Inserted
<1>4. EditFits
  BY DEF EditFits
<1>5. HasSchedule
  BY DEF HasSchedule
<1>6. Blank
  BY DEF Blank, NoRow
<1>7. Orderly
  BY DEF Orderly, FreshIsFresh, FiringIsLatest, NextIsAhead, NoBackfill, Firings
<1>8. InThePast
  BY DEF InThePast, Firings
<1> QED
  BY <1>1, <1>2, <1>3, <1>4, <1>5, <1>6, <1>7, <1>8 DEF Inv, Local

LEMMA InvNext == Inv /\ [Next]_vars => Inv'
<1>1. Inv /\ [Next]_vars => Local'
  BY LocalNext DEF Inv
<1>2. Inv /\ [Next]_vars => InThePast'
  BY InThePastNext DEF Inv
<1>3. ASSUME Inv, [Next]_vars, Laggards = {} PROVE Orderly'
  <2>1. FreshIsFresh' /\ FiringIsLatest'
    BY <1>3, FreshIsFreshNext, FiringIsLatestNext DEF Inv, Orderly
  <2>2. NextIsAhead' /\ NoBackfill'
    BY <1>3, NextIsAheadNext, NoBackfillNext DEF Inv, Orderly
  <2> QED
    BY <2>1, <2>2 DEF Orderly
<1> QED
  BY <1>1, <1>2, <1>3 DEF Inv

\* The inductive invariant holds.
THEOREM InvHolds == Spec => []Inv
BY InvInit, InvNext, PTL DEF Spec

\* Every variable keeps its type.
THEOREM SchedulerTypeCorrect == Spec => []TypeOK
<1>1. Inv => TypeOK
  BY DEF Inv, Local
<1> QED
  BY <1>1, InvHolds, PTL

\* An occurrence is executed at most once, and missed occurrences are not made
\* up for one by one: for any number of replicas and schedules, as long as no
\* replica outlives its lock; an execution that a fault has struck may be followed
\* by another one of the same occurrence.
THEOREM NeverBackfills == Spec => []NoBackfill
<1>1. Inv => NoBackfill
  BY DEF Inv, InThePast, Orderly, NoBackfill
<1> QED
  BY <1>1, InvHolds, PTL

\* An execution that the scheduler has inserted has a job or is marked FAILED when
\* its firing is over, unless a fault struck it or its schedule was deleted.
THEOREM NothingForgotten == Spec => []NoneForgotten
<1>1. Init => Care
  BY DEF Init, Care, OwnExecution, Answered, NoneForgotten, Inserted
<1>2. Inv => Local
  BY DEF Inv
<1>3. Care => NoneForgotten
  BY DEF Care
<1> QED
  BY <1>1, <1>2, <1>3, CareNext, InvHolds, PTL DEF Spec

\* The scheduler never takes next_run_at back.
THEOREM NextRunAdvances == Spec => NextOnlyAdvances
<1> DEFINE Advances == Laggards = {} => \A s \in Schedules \ recast : row'[s].next >= row[s].next
<1>1. ASSUME Inv, [Next]_vars PROVE Advances
  <2> SUFFICES ASSUME Laggards = {}, NEW s \in Schedules \ recast
               PROVE  row'[s].next >= row[s].next
    OBVIOUS
  <2>1. Local /\ Local' /\ FreshIsFresh
    BY <1>1, LocalNext DEF Inv, Orderly
  <2>2. row[s].next \in Nat /\ row'[s].next \in Nat
    BY <2>1 DEF Local, TypeOK, Row
  <2>3. CASE row[s].status = "NEW"
    BY <2>1, <2>2, <2>3 DEF Local, Blank
  <2>4. CASE row[s].status # "NEW"
    BY <1>1, <2>1, <2>2, <2>4, NextMoves, MovesOn
  <2> QED
    BY <2>3, <2>4
<1> QED
  BY <1>1, InvHolds, PTL DEF Spec, NextOnlyAdvances

\* The replicas use their lock as DistributedLock says: the scheduler implements
\* its specification, crashes and errors of Redis included.
THEOREM TicksUseTheLock == Spec => LockSpec
<1>1. Init => LockInit
  BY DEF Init
<1>2. [Next]_vars => [LockNext]_lockVars
  BY StepsOfTheLock
<1> QED
  BY <1>1, <1>2, PTL DEF Spec, LockSpec

\* Of the replicas that do not outlive their lock, one at a time reads the due
\* schedules and fires them.
InTick(r) == pc[r] \in Firings \cup {"selecting", "choosing"}

OneTickAtATime == \A q, r \in Replicas \ Laggards : InTick(q) /\ InTick(r) => q = r

\* One replica at a time is in a tick, as long as it does not outlive its lock.
THEOREM TicksExcludeEachOther == Spec => []OneTickAtATime
<1>1. Inv => OneTickAtATime
  BY DEF Inv, Local, PcFitsLock, InsideOwnsKey, InTick, OneTickAtATime
<1> QED
  BY <1>1, InvHolds, PTL

-----------------------------------------------------------------------------
(* Repeated and stranded executions are counted against the faults.         *)

Earlier(j) ==
  {i \in 1..(j - 1) : /\ executions[i].schedule = executions[j].schedule
                     /\ executions[i].slot = executions[j].slot}

\* A set of positions has a last one.
LEMMA LastExists ==
  ASSUME NEW n \in Nat, NEW S \in SUBSET (1 .. n), S # {}
  PROVE  \E i \in S : \A j \in S : j <= i
<1> DEFINE More == {p \in Nat \X Nat : p[1] < p[2]}
           T == {n - i : i \in S}
<1>1. IsWellFoundedOn(More, Nat)
  BY NatLessThanWellFounded, Zenon DEF OpToRel
<1>2. T \subseteq Nat /\ T # {}
  <2>1. \A i \in S : n - i \in Nat
    BY SMT
  <2> QED
    BY <2>1, Zenon
<1>3. PICK k \in T : \A l \in T : ~(<<l, k>> \in More)
  <2> HIDE DEF More, T
  <2> QED
    BY <1>1, <1>2, WFMin, Zenon
<1>4. PICK i \in S : k = n - i
  BY <1>3
<1>5. ASSUME NEW j \in S PROVE j <= i
  <2>1. n - j \in T /\ n - j \in Nat /\ n - i \in Nat
    BY <1>2
  <2>2. ~(<<n - j, n - i>> \in More)
    BY <1>3, <1>4, <2>1, Zenon
  <2>3. \A a, b \in Nat : a < b => <<a, b>> \in More
    OBVIOUS
  <2>4. ~(n - j < n - i)
    <3> HIDE DEF More
    <3> QED
      BY <2>1, <2>2, <2>3
  <2>5. i \in 1..n /\ j \in 1..n
    OBVIOUS
  <2> HIDE DEF More, T
  <2> QED
    BY <2>4, <2>5
<1> QED
  BY <1>5

Struck == {i \in DOMAIN executions : executions[i].struck}

\* Each repetition follows an execution that was struck, and no two the same one.
LEMMA RepeatsFollowStruck ==
  ASSUME TypeOK, NoBackfill, Laggards = {}
  PROVE  IsFiniteSet(Struck) /\ Cardinality(Repeats) <= Cardinality(Struck)
<1> DEFINE n == Len(executions)
           prev == [j \in Repeats |->
                      CHOOSE i \in Earlier(j) : \A k \in Earlier(j) : k <= i]
<1>1. n \in Nat /\ DOMAIN executions = 1..n
  BY LenProperties DEF TypeOK
<1>2. IsFiniteSet(Struck)
  <2>1. IsFiniteSet(1..n)
    BY <1>1, FS_Interval
  <2>2. Struck \in SUBSET (1..n)
    BY <1>1 DEF Struck
  <2> QED
    BY <2>1, <2>2, FS_Subset
<1>3. ASSUME NEW j \in Repeats
      PROVE  prev[j] \in Earlier(j) /\ \A k \in Earlier(j) : k <= prev[j]
  <2>1. j \in 1..n /\ Earlier(j) # {}
    BY <1>1 DEF Repeats, Earlier
  <2>2. Earlier(j) \in SUBSET (1..n)
    BY <1>1, <2>1 DEF Earlier
  <2>3. \E i \in Earlier(j) : \A k \in Earlier(j) : k <= i
    BY <1>1, <2>1, <2>2, LastExists
  <2> QED
    BY <2>3, Zenon
<1>4. ASSUME NEW j \in Repeats
      PROVE  /\ j \in 1..n /\ prev[j] \in 1..n /\ prev[j] < j
             /\ executions[prev[j]].schedule = executions[j].schedule
             /\ executions[prev[j]].slot = executions[j].slot
             /\ executions[j].schedule \notin recast
  <2> HIDE DEF prev
  <2> QED
    BY <1>1, <1>3 DEF Repeats, Earlier
<1>5. ASSUME NEW j \in Repeats PROVE prev[j] \in Struck
  <2> HIDE DEF prev
  <2>1. executions[prev[j]] \in Execution /\ executions[j] \in Execution
    BY <1>1, <1>4 DEF TypeOK
  <2>2. /\ executions[prev[j]].slot \in Nat /\ executions[prev[j]].at \in Nat
    BY <2>1, SchedulerAssumption DEF Execution
  <2>3. executions[prev[j]].slot <= executions[prev[j]].at
    BY <1>1, <1>4 DEF NoBackfill
  <2>4. \/ executions[prev[j]].at < executions[j].slot
        \/ executions[prev[j]].struck
    BY <1>1, <1>4 DEF NoBackfill
  <2> QED
    BY <1>1, <1>4, <2>2, <2>3, <2>4 DEF Struck
<1>6. ASSUME NEW j \in Repeats, NEW k \in Repeats, prev[j] = prev[k] PROVE j = k
  <2> HIDE DEF prev
  <2>1. ~(j < k)
    <3> SUFFICES ASSUME j < k PROVE FALSE
      OBVIOUS
    <3>1. j \in Earlier(k)
      BY <1>4, <1>6 DEF Earlier
    <3> QED
      BY <1>3, <1>4, <1>6, <3>1
  <2>2. ~(k < j)
    <3> SUFFICES ASSUME k < j PROVE FALSE
      OBVIOUS
    <3>1. k \in Earlier(j)
      BY <1>4, <1>6 DEF Earlier
    <3> QED
      BY <1>3, <1>4, <1>6, <3>1
  <2> QED
    BY <1>4, <2>1, <2>2
<1>7. prev \in Injection(Repeats, Struck)
  <2>1. prev \in [Repeats -> Struck]
    BY <1>5
  <2> HIDE DEF prev
  <2> QED
    BY <1>6, <2>1, Zenon DEF Injection, IsInjective
<1> QED
  <2> HIDE DEF prev
  <2> QED
    BY <1>2, <1>7, FS_Injection

\* Every struck execution has a fault of its own.
StruckByFaults == IsFiniteSet(Struck) /\ Cardinality(Struck) <= faults

\* What a step does to the struck executions and the faults.
LEMMA StruckMoves ==
  ASSUME Local, [Next]_vars
  PROVE  \/ Struck' \subseteq Struck /\ faults' = faults
         \/ \E n : Struck' \subseteq Struck \cup {n} /\ faults' = faults + 1
<1>0. executions \in Seq(Execution) /\ \A i \in DOMAIN executions : executions[i] \in Execution
  BY DEF Local, TypeOK
<1>1. ASSUME UNCHANGED executions PROVE Struck' \subseteq Struck
  BY <1>1, Zenon DEF Struck
<1>2. ASSUME NEW r \in Replicas, Insert(r) PROVE Struck' \subseteq Struck
  <2>1. CASE executions' = executions
    BY <1>1, <2>1
  <2>2. CASE executions' # executions
    <3>1. /\ DOMAIN executions = 1..Len(executions)
          /\ DOMAIN executions' = 1..(Len(executions) + 1)
          /\ \A i \in DOMAIN executions : executions'[i] = executions[i]
          /\ executions'[Len(executions) + 1] = Inserts(r)
      BY <1>2, <2>2, InsertAppends DEF Local
    <3>2. ~Inserts(r).struck
      BY DEF Inserts
    <3>3. Len(executions) \in Nat
      BY <1>0, LenProperties
    <3> QED
      BY <3>1, <3>2, <3>3 DEF Struck
  <2> QED
    BY <2>1, <2>2
<1>3. ASSUME NEW r \in Replicas, Enqueue(r) PROVE Struck' \subseteq Struck
  <2>1. PICK b \in BOOLEAN : executions' = [executions EXCEPT ![fire[r].execution].job = b]
    BY <1>3 DEF Enqueue
  <2> QED
    BY <1>0, <2>1 DEF Struck, Execution
<1>4. ASSUME NEW r \in Replicas, Close(r) PROVE Struck' \subseteq Struck
  <2>1. CASE executions' = executions
    BY <1>1, <2>1
  <2>2. CASE executions' = [executions EXCEPT ![fire[r].execution].status = Verdict(r)]
    <3>1. DOMAIN executions' = DOMAIN executions
      BY <2>2
    <3>2. \A i \in DOMAIN executions : executions'[i].struck = executions[i].struck
      BY <1>0, <2>2 DEF Execution
    <3> QED
      BY <3>1, <3>2, Zenon DEF Struck
  <2> QED
    BY <1>4, <2>1, <2>2 DEF Close
<1>5. ASSUME NEW r \in Replicas, Strike(r)
      PROVE  Struck' \subseteq Struck \cup {fire[r].execution}
  BY <1>0, <1>5 DEF Strike, Struck, Execution
<1>6. ASSUME NEW r \in Replicas, FaultNext(r)
      PROVE  faults' = faults + 1 /\ (Strike(r) \/ UNCHANGED executions)
  BY <1>6 DEF FaultNext, DatabaseRaises, LockRaises, ReplicaDies, Fault
<1>7. ASSUME NEW r \in Replicas, ReplicaStep(r)
      PROVE  /\ faults' = faults
             /\ Insert(r) \/ Enqueue(r) \/ Close(r) \/ UNCHANGED executions
  BY <1>7 DEF ReplicaStep, TickBegins, Locks, SelectDue, AllFired, FireLoad, SkipCommit, Insert,
              Enqueue, Close, Leave
<1>8. CASE (\E s \in Schedules : UserNext(s)) \/ TimePasses \/ EndOfTime \/ UNCHANGED vars
  <2>1. UNCHANGED <<executions, faults>>
    BY <1>8 DEF UserNext, Create, UpdateLoad, UpdateCommit, Delete, TimePasses, EndOfTime, vars
  <2> QED
    BY <1>1, <2>1
<1> QED
  BY <1>1, <1>2, <1>3, <1>4, <1>5, <1>6, <1>7, <1>8 DEF Next

LEMMA StruckNext == Local /\ StruckByFaults /\ [Next]_vars => StruckByFaults'
<1> SUFFICES ASSUME Local, StruckByFaults, [Next]_vars PROVE StruckByFaults'
  OBVIOUS
<1>1. /\ IsFiniteSet(Struck) /\ Cardinality(Struck) \in Nat /\ Cardinality(Struck) <= faults
      /\ faults \in Nat
  BY FS_CardinalityType, SchedulerAssumption DEF StruckByFaults, Local, TypeOK
<1>2. ASSUME NEW S, IsFiniteSet(S), Struck' \subseteq S, Cardinality(S) <= faults'
      PROVE  StruckByFaults'
  <2>1. Struck' \in SUBSET S
    BY <1>2
  <2>2. /\ IsFiniteSet(Struck') /\ Cardinality(Struck') <= Cardinality(S)
        /\ Cardinality(Struck') \in Nat /\ Cardinality(S) \in Nat
    BY <1>2, <2>1, FS_Subset, FS_CardinalityType
  <2>3. faults' \in Nat
    BY LocalNext, SchedulerAssumption DEF Local, TypeOK
  <2>4. Cardinality(Struck') <= faults'
    BY <1>2, <2>2, <2>3
  <2> QED
    BY <2>2, <2>4 DEF StruckByFaults
<1>3. CASE Struck' \subseteq Struck /\ faults' = faults
  BY <1>1, <1>2, <1>3
<1>4. ASSUME NEW n, Struck' \subseteq Struck \cup {n}, faults' = faults + 1 PROVE StruckByFaults'
  <2>1. IsFiniteSet(Struck \cup {n}) /\ Cardinality(Struck \cup {n}) <= Cardinality(Struck) + 1
    BY <1>1, FS_AddElement
  <2>2. Cardinality(Struck \cup {n}) \in Nat
    BY <2>1, FS_CardinalityType
  <2>3. Cardinality(Struck \cup {n}) <= faults'
    BY <1>1, <1>4, <2>1, <2>2
  <2> QED
    BY <1>2, <1>4, <2>1, <2>3
<1> QED
  BY <1>3, <1>4, StruckMoves

LEMMA StrandedAreStruck ==
  ASSUME Local, NoneForgotten
  PROVE  Stranded \subseteq Struck
BY DEF Stranded, Struck, NoneForgotten

\* However many ticks follow, a fault repeats at most one occurrence and strands at
\* most one execution, as long as no replica outlives its lock.
THEOREM FaultsPayForRepeats == Spec => []RepeatsNeedFaults
<1>1. Init => StruckByFaults
  <2> SUFFICES ASSUME Init PROVE StruckByFaults
    OBVIOUS
  <2>1. Struck = {} /\ faults = 0
    BY DEF Init, Struck
  <2> QED
    BY <2>1, FS_EmptySet DEF StruckByFaults
<1>2. Inv => Local
  BY DEF Inv
<1>3. ASSUME Inv, StruckByFaults, NoneForgotten PROVE RepeatsNeedFaults
  <2> SUFFICES ASSUME Laggards = {}
               PROVE  Cardinality(Repeats) <= faults /\ Cardinality(Stranded) <= faults
    BY DEF RepeatsNeedFaults
  <2>1. Cardinality(Repeats) <= Cardinality(Struck) /\ IsFiniteSet(Struck)
    BY <1>3, RepeatsFollowStruck DEF Inv, Local, Orderly
  <2>2. Repeats \in SUBSET DOMAIN executions /\ Stranded \in SUBSET Struck
    BY <1>3, StrandedAreStruck DEF Inv, Repeats
  <2>3. IsFiniteSet(Repeats)
    <3>1. DOMAIN executions = 1..Len(executions) /\ Len(executions) \in Nat
      BY <1>3, LenProperties DEF Inv, Local, TypeOK
    <3>2. IsFiniteSet(DOMAIN executions)
      BY <3>1, FS_Interval
    <3> QED
      BY <2>2, <3>2, FS_Subset
  <2>4. IsFiniteSet(Stranded) /\ Cardinality(Stranded) <= Cardinality(Struck)
    BY <2>1, <2>2, FS_Subset
  <2>5. /\ Cardinality(Repeats) \in Nat /\ Cardinality(Stranded) \in Nat
        /\ Cardinality(Struck) \in Nat /\ faults \in Nat
    BY <1>3, <2>1, <2>3, <2>4, FS_CardinalityType, SchedulerAssumption DEF Inv, Local, TypeOK
  <2>6. Cardinality(Struck) <= faults
    BY <1>3 DEF StruckByFaults
  <2> QED
    BY <2>1, <2>4, <2>5, <2>6
<1> QED
  BY <1>1, <1>2, <1>3, StruckNext, InvHolds, NothingForgotten, PTL DEF Spec

=============================================================================
