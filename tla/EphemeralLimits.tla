--------------------------- MODULE EphemeralLimits ---------------------------
(***************************************************************************)
(* The requests that one API key makes: raw code for                       *)
(* POST /execute-ephemeral (api/routers/ephemeral.py) and functions for    *)
(* POST /invoke (api/routers/invoke.py), authenticated by                  *)
(* api/dependencies/api_keys.py while api/routers/keys.py issues and       *)
(* revokes the key.                                                        *)
(*                                                                         *)
(* Ephemeral requests are limited twice: by a Redis counter per minute     *)
(* and by the number of their executions that are active in the database.  *)
(* Each limit is read and acted upon in several steps, and the requests of *)
(* a key run concurrently.  The pipeline that executes the rows is reduced *)
(* to the steps that make a row active or end it, and a row to one job: a  *)
(* second copy of it, from a ZADD that is sent again, is left to           *)
(* ExecutionPipeline.  It matters here in one way: a worker that loaded    *)
(* the row QUEUED sets it RUNNING after the other copy has ended it, one   *)
(* more execution revived.                                                 *)
(***************************************************************************)
EXTENDS Naturals, FiniteSets

CONSTANTS
  Requests,
  Ephemeral,         \* the requests with raw code; the others invoke a function
  SandboxEnabled,    \* settings.sandbox_enabled
  LocalExecution,    \* settings.ephemeral_local_execution_enabled
  RateLimit,         \* settings.ephemeral_rate_limit_per_minute
  ConcurrencyLimit,  \* settings.ephemeral_concurrency_limit
  MaxMinute,         \* bound on the clock
  MaxFaults          \* bound on the faults that no handler deals with

ASSUME EphemeralAssumption ==
  /\ IsFiniteSet(Requests)
  /\ Ephemeral \subseteq Requests
  /\ {SandboxEnabled, LocalExecution} \subseteq BOOLEAN
  /\ RateLimit \in Nat \ {0}
  /\ ConcurrencyLimit \in Nat \ {0}
  /\ MaxMinute \in Nat
  /\ MaxFaults \in Nat

VARIABLES
  now,      \* the minute
  counter,  \* counter[m]: the Redis counter of minute m, 0 when there is none
  expiry,   \* expiry[m]: the minute in which it goes, Never without a TTL
  pc,       \* pc[r]: where request r stands; "over" when answered, refused or failed
  bucket,   \* bucket[r]: the minute whose counter r increments
  count,    \* count[r]: the value that INCR returned to r, 0 before
  key,      \* the api_keys row: issued, revoked_at and last_used_at as Booleans
  seen,     \* the row as the handler that revokes it has loaded it
  revoking, \* that handler has loaded the row and not committed
  row,      \* row[r]: the execution of r, by what the limit asks of its status
  job,      \* job[r]: where the job of r is
  faults,   \* replayed INCRs, failed requests and dead workers so far
  peak,     \* history: the most requests that had counted at the same time
  revived   \* history: executions that a worker started after they had ended

limiter == <<now, counter, expiry, bucket, count>>
keys == <<key, seen, revoking>>
history == <<peak, revived>>
vars == <<limiter, keys, pc, row, job, faults, history>>

Minutes == 0 .. MaxMinute
Never == MaxMinute + 3

PC == {"idle", "incr", "expire", "count", "route", "insert", "enqueue", "mark",
       "over"}

KeyRow == [issued : BOOLEAN, revoked : BOOLEAN, used : BOOLEAN]

Unloaded == [issued |-> FALSE, revoked |-> FALSE, used |-> FALSE]

\* select(func.count()) over ACTIVE_STATUSES: PENDING, QUEUED and RUNNING rows
\* of the type "ephemeral".
Active == {r \in Ephemeral : row[r] = "active"}

\* Requests that were let in by the count and have not inserted their row.
Counted == {r \in Ephemeral : pc[r] = "insert"}

Goes(r, to) == pc' = [pc EXCEPT ![r] = to]

\* Mutant: a unit of work writes every column.
FlushAll(current, old, new) == new

\* A unit of work writes the columns that differ from what it loaded.
Flush(current, old, new) ==
  [f \in DOMAIN current |-> IF new[f] # old[f] THEN new[f] ELSE current[f]]

Init ==
  /\ now = 0
  /\ counter = [m \in Minutes |-> 0]
  /\ expiry = [m \in Minutes |-> Never]
  /\ pc = [r \in Requests |-> "idle"]
  /\ bucket = [r \in Requests |-> 0]
  /\ count = [r \in Requests |-> 0]
  /\ key = Unloaded
  /\ seen = Unloaded
  /\ revoking = FALSE
  /\ row = [r \in Requests |-> "none"]
  /\ job = [r \in Requests |-> "none"]
  /\ faults = 0
  /\ peak = 0
  /\ revived = {}

-----------------------------------------------------------------------------
(* api/routers/keys.py                                                     *)

\* create_key
CreateKey ==
  /\ ~key.issued
  /\ key' = [key EXCEPT !.issued = TRUE]
  /\ UNCHANGED <<limiter, seen, revoking, pc, row, job, faults, history>>

\* revoke_key loads the row.  Revoking again would only move the time of it.
RevokeLoads ==
  /\ key.issued
  /\ ~key.revoked
  /\ ~revoking
  /\ seen' = key
  /\ revoking' = TRUE
  /\ UNCHANGED <<limiter, key, pc, row, job, faults, history>>

\* get_db commits when the handler has returned.
RevokeCommits ==
  /\ revoking
  /\ key' = Flush(key, seen, [seen EXCEPT !.revoked = TRUE])
  /\ revoking' = FALSE
  /\ seen' = Unloaded
  /\ UNCHANGED <<limiter, pc, row, job, faults, history>>

-----------------------------------------------------------------------------
(* The gate and the two limits                                             *)

\* _enforce_ephemeral_gate
GateOpen == SandboxEnabled \/ LocalExecution

\* Mutant: the limits are enforced on every request of the key.
AuthenticateAlike(r) ==
  /\ pc[r] = "idle"
  /\ key.issued
  /\ Goes(r, IF ~key.revoked /\ GateOpen THEN "incr" ELSE "over")
  /\ bucket' = [bucket EXCEPT ![r] = now]
  /\ UNCHANGED <<now, counter, expiry, count, keys, row, job, faults, history>>

\* get_api_key_principal, then the gate and the name of the counter, which are
\* computed without waiting for anything.
Authenticate(r) ==
  /\ pc[r] = "idle"
  /\ key.issued
  /\ Goes(r, IF key.revoked THEN "over"
             ELSE IF r \notin Ephemeral THEN "route"
             ELSE IF GateOpen THEN "incr" ELSE "over")
  /\ bucket' = IF r \in Ephemeral THEN [bucket EXCEPT ![r] = now] ELSE bucket
  /\ UNCHANGED <<now, counter, expiry, count, keys, row, job, faults, history>>

\* The rate check that follows INCR and EXPIRE.
AfterRate(n) == IF n > RateLimit THEN "over" ELSE "count"

\* INCR; only the request that is told 1 goes on to EXPIRE.
Incremented(r, by) ==
  LET n == counter[bucket[r]] + by IN
  /\ counter' = [counter EXCEPT ![bucket[r]] = n]
  /\ count' = [count EXCEPT ![r] = n]
  /\ Goes(r, IF n = 1 THEN "expire" ELSE AfterRate(n))
  /\ UNCHANGED <<now, expiry, bucket, keys, row, job, history>>

Incr(r) ==
  /\ pc[r] = "incr"
  /\ Incremented(r, 1)
  /\ UNCHANGED faults

\* The reply is lost and the client sends the command again (retry_on_timeout).
IncrReplayed(r) ==
  /\ pc[r] = "incr"
  /\ faults < MaxFaults
  /\ Incremented(r, 2)
  /\ faults' = faults + 1

\* Mutant: the counter of a minute lives for one minute.
ExpireInAMinute(r) ==
  /\ pc[r] = "expire"
  /\ expiry' = [expiry EXCEPT ![bucket[r]] = now + 1]
  /\ Goes(r, AfterRate(count[r]))
  /\ UNCHANGED <<now, counter, bucket, count, keys, row, job, faults, history>>

\* EXPIRE 120: two minutes, counted from now.
Expire(r) ==
  /\ pc[r] = "expire"
  /\ expiry' = [expiry EXCEPT ![bucket[r]] = now + 2]
  /\ Goes(r, AfterRate(count[r]))
  /\ UNCHANGED <<now, counter, bucket, count, keys, row, job, faults, history>>

Larger(m, n) == IF m < n THEN n ELSE m

\* Mutant: the limit itself is still let in.
CountActiveInclusive(r) ==
  /\ pc[r] = "count"
  /\ IF Cardinality(Active) > ConcurrencyLimit
     THEN Goes(r, "over") /\ UNCHANGED peak
     ELSE /\ Goes(r, "insert")
          /\ peak' = Larger(peak, Cardinality(Counted) + 1)
  /\ UNCHANGED <<limiter, keys, row, job, faults, revived>>

\* The count of the active executions; 429 at the limit.
CountActive(r) ==
  /\ pc[r] = "count"
  /\ IF Cardinality(Active) >= ConcurrencyLimit
     THEN Goes(r, "over") /\ UNCHANGED peak
     ELSE /\ Goes(r, "insert")
          /\ peak' = Larger(peak, Cardinality(Counted) + 1)
  /\ UNCHANGED <<limiter, keys, row, job, faults, revived>>

\* invoke_function finds the function and a version, or answers 404 or 422.
Route(r) ==
  /\ pc[r] = "route"
  /\ \E to \in {"insert", "over"} : Goes(r, to)
  /\ UNCHANGED <<limiter, keys, row, job, faults, history>>

-----------------------------------------------------------------------------
(* The row, the job and the answer                                         *)

\* The commit of the row also writes the last_used_at that the authentication
\* left in the session; a refused request rolls it back.
Insert(r) ==
  /\ pc[r] = "insert"
  /\ LET loaded == [key EXCEPT !.used = FALSE, !.revoked = FALSE] IN
       key' = Flush(key, loaded, [loaded EXCEPT !.used = TRUE])
  /\ row' = [row EXCEPT ![r] = "active"]
  /\ Goes(r, "enqueue")
  /\ UNCHANGED <<limiter, seen, revoking, job, faults, history>>

\* enqueue_job.  The caller may wait for the result: that only reads the row.
Enqueue(r) ==
  /\ pc[r] = "enqueue"
  /\ job' = [job EXCEPT ![r] = "queued"]
  /\ Goes(r, "over")
  /\ UNCHANGED <<limiter, keys, row, faults, history>>

\* enqueue_job raises, and the job may be in the queue all the same.
EnqueueRaises(r) ==
  /\ pc[r] = "enqueue"
  /\ \E at \in {"none", "queued"} : job' = [job EXCEPT ![r] = at]
  /\ Goes(r, "mark")
  /\ UNCHANGED <<limiter, keys, row, faults, history>>

\* Mutant: the failure is answered and the row left as it is.
EnqueueFailureForgotten(r) ==
  /\ pc[r] = "mark"
  /\ row' = row
  /\ Goes(r, "over")
  /\ UNCHANGED <<limiter, keys, job, faults, history>>

\* The except branch: FAILED is assigned and committed, whatever the row is.
MarkEnqueueFailed(r) ==
  /\ pc[r] = "mark"
  /\ row' = [row EXCEPT ![r] = "ended"]
  /\ Goes(r, "over")
  /\ UNCHANGED <<limiter, keys, job, faults, history>>

\* The process dies, the client goes away, or a statement raises: what was not
\* committed is rolled back and nothing else is undone.
RequestFails(r) ==
  /\ pc[r] \in {"incr", "expire", "count", "route", "insert", "enqueue", "mark"}
  /\ faults < MaxFaults
  /\ Goes(r, "over")
  /\ faults' = faults + 1
  /\ UNCHANGED <<limiter, keys, row, job, history>>

-----------------------------------------------------------------------------
(* The pipeline                                                            *)

\* A worker takes the job and loads the row; a row that has ended is skipped.
WorkerLoads(r) ==
  /\ job[r] = "queued"
  /\ job' = [job EXCEPT ![r] = IF row[r] = "active" THEN "loaded" ELSE "none"]
  /\ UNCHANGED <<limiter, keys, pc, row, faults, history>>

\* It commits RUNNING over whatever was committed since.
WorkerStarts(r) ==
  /\ job[r] = "loaded"
  /\ job' = [job EXCEPT ![r] = "running"]
  /\ row' = [row EXCEPT ![r] = "active"]
  /\ revived' = IF row[r] = "ended" THEN revived \cup {r} ELSE revived
  /\ UNCHANGED <<limiter, keys, pc, faults, peak>>

WorkerReports(r) ==
  /\ job[r] = "running"
  /\ job' = [job EXCEPT ![r] = "none"]
  /\ row' = [row EXCEPT ![r] = "ended"]
  /\ UNCHANGED <<limiter, keys, pc, faults, history>>

WorkerDies(r) ==
  /\ job[r] \in {"queued", "loaded", "running"}
  /\ faults < MaxFaults
  /\ job' = [job EXCEPT ![r] = "none"]
  /\ faults' = faults + 1
  /\ UNCHANGED <<limiter, keys, pc, row, history>>

\* cancel_execution, or the recovery of a stale row.
RowEndedElsewhere(r) ==
  /\ row[r] = "active"
  /\ row' = [row EXCEPT ![r] = "ended"]
  /\ UNCHANGED <<limiter, keys, pc, job, faults, history>>

-----------------------------------------------------------------------------
(* Time                                                                    *)

\* A Redis command is answered, retried or given up within seconds
\* (settings.redis_socket_timeout), so it straddles one minute at most.
NextMinute ==
  /\ now < MaxMinute
  /\ \A r \in Requests : pc[r] \in {"incr", "expire"} => bucket[r] = now
  /\ now' = now + 1
  /\ UNCHANGED <<counter, expiry, bucket, count, keys, pc, row, job, faults, history>>

\* Redis removes an expired key.
Vanish(m) ==
  /\ expiry[m] <= now
  /\ counter' = [counter EXCEPT ![m] = 0]
  /\ expiry' = [expiry EXCEPT ![m] = Never]
  /\ UNCHANGED <<now, bucket, count, keys, pc, row, job, faults, history>>

Next ==
  \/ CreateKey \/ RevokeLoads \/ RevokeCommits
  \/ \E r \in Requests :
       \/ Authenticate(r) \/ Incr(r) \/ IncrReplayed(r) \/ Expire(r)
       \/ CountActive(r) \/ Route(r) \/ Insert(r)
       \/ Enqueue(r) \/ EnqueueRaises(r) \/ MarkEnqueueFailed(r)
       \/ RequestFails(r)
       \/ WorkerLoads(r) \/ WorkerStarts(r) \/ WorkerReports(r)
       \/ WorkerDies(r) \/ RowEndedElsewhere(r)
  \/ NextMinute
  \/ \E m \in Minutes : Vanish(m)

Spec == Init /\ [][Next]_vars

-----------------------------------------------------------------------------
(* Properties                                                              *)

\* The state is well formed: a counter is not below what it has answered, only
\* counters that exist have a TTL, and invocations do not meet the limits.
TypeOK ==
  /\ now \in Minutes
  /\ counter \in [Minutes -> Nat]
  /\ expiry \in [Minutes -> 0 .. Never]
  /\ pc \in [Requests -> PC]
  /\ bucket \in [Requests -> Minutes]
  /\ count \in [Requests -> Nat]
  /\ key \in KeyRow
  /\ seen \in KeyRow
  /\ revoking \in BOOLEAN
  /\ row \in [Requests -> {"none", "active", "ended"}]
  /\ job \in [Requests -> {"none", "queued", "loaded", "running"}]
  /\ faults \in 0 .. MaxFaults
  /\ peak \in Nat
  /\ revived \subseteq Requests
  /\ \A m \in Minutes : counter[m] = 0 => expiry[m] = Never
  /\ \A r \in Requests : counter[bucket[r]] > 0 => count[r] <= counter[bucket[r]]
  /\ \A r \in Requests :
       pc[r] \in {"incr", "expire", "count"} \/ count[r] > 0 => r \in Ephemeral

\* The count and the insertion of ephemeral.py:104-153 are not atomic, so the
\* limit can be exceeded; but only by as many executions as requests had
\* counted at the same time beyond the first, and by those that a worker
\* started after their rows had ended.
OvershootBounded ==
  Cardinality(Active) + Cardinality(Counted)
    <= ConcurrencyLimit - 1 + peak + Cardinality(revived)

\* No more requests pass the rate check with the counter of one minute than the
\* limit allows, whenever their INCR arrives and whoever sets or loses the TTL
\* (ephemeral.py:91-102).
RateBounded ==
  \A m \in Minutes :
    Cardinality({r \in Ephemeral : bucket[r] = m /\ count[r] \in 1 .. RateLimit})
      <= RateLimit

\* Counters that nobody will give a TTL any more.
LeakedCounters ==
  {m \in Minutes :
     /\ counter[m] > 0
     /\ expiry[m] = Never
     /\ ~ \E r \in Requests : pc[r] = "expire" /\ bucket[r] = m}

\* Active executions that nobody will run.
StrandedRows ==
  {r \in Requests :
     /\ row[r] = "active"
     /\ job[r] = "none"
     /\ pc[r] \notin {"enqueue", "mark"}}

\* A counter that will never expire, as well as an active execution that nobody
\* will run, which occupies the limit of its key for good, takes a fault of its
\* own: a request or a worker that died, or a reply that was lost
\* (ephemeral.py:92-94 and 153-178).
LeaksNeedFaults ==
  Cardinality(LeakedCounters) + Cardinality(StrandedRows) <= faults

\* A revocation survives the requests that loaded the key before it and commit
\* its last_used_at after it, and the revocation does not undo their mark
\* (api_keys.py:41, keys.py:88).
KeyColumnsStick ==
  [][(key.revoked => key'.revoked) /\ (key.used => key'.used)]_vars

=============================================================================
