--------------------------- MODULE FunctionRegistry ---------------------------
(***************************************************************************)
(* One function of api/routers/functions.py: its versions, the pointers    *)
(* to the active and the canary version, its artifacts in the object       *)
(* store, and the executions triggered for it, until it is deleted.        *)
(*                                                                         *)
(* Each request runs one handler once.  A request that uploads a version   *)
(* draws a fresh version_id, and one that triggers an execution a fresh    *)
(* execution id: both are named by the request.                            *)
(*                                                                         *)
(* Two stores are changed in turn and nothing ties them together: the      *)
(* database commits at the end of the request, the object store at once.   *)
(* The statements of a transaction see what others committed before them   *)
(* (READ COMMITTED).  Only deletion holds its row locks for long: from the *)
(* removal of the rows until its commit, writers of the function wait.     *)
(***************************************************************************)
EXTENDS Naturals, FiniteSets

CONSTANTS
  Requests,
  NoVersion,    \* a NULL pointer
  MaxVersions,  \* settings.max_versions_per_function
  MaxFaults     \* bound on requests that fail half-way

ASSUME RegistryAssumption ==
  /\ IsFiniteSet(Requests)
  /\ NoVersion \notin Requests
  /\ MaxVersions \in Nat \ {0}
  /\ MaxFaults \in Nat

VARIABLES
  exists,     \* the functions row has not been deleted
  fn,         \* its columns active_version_id, canary_version_id, canary_percent
  stored,     \* the versions whose artifact is in the object store
  pc,         \* pc[r]: where request r stands
  number,     \* number[r]: the version number an upload has chosen
  seen,       \* seen[r]: the functions row that r has loaded
  want,       \* want[r]: what r makes of it
  listed,     \* listed[r]: the artifacts a deletion has still to remove
  target,     \* target[r]: the version that r executes
  faults,     \* number of faults so far
  torn,       \* history: versions whose artifact a failed deletion removed
  exposed,    \* history: executions committed after a deletion had counted
  overlapped, \* history: two changes of the pointers were under way at once
  peak        \* history: the most uploads between count and INSERT at once

requests == <<pc, number, seen, want, listed, target>>
history == <<torn, exposed, overlapped, peak>>
vars == <<exists, fn, stored, requests, faults, history>>

Pointer == Requests \cup {NoVersion}

\* canary_percent is nothing or some share; 100 is only asked for, never kept.
Percent == {0, 50}

FunctionRow == [active : Pointer, canary : Pointer, percent : Percent]

Blank == [active |-> NoVersion, canary |-> NoVersion, percent |-> 0]

\* The function_versions rows of the function: the uploads that were committed.
Versions == IF exists THEN {r \in Requests : pc[r] = "uploaded"} ELSE {}

\* Row locks of a deletion that has removed the rows and not committed yet.
Locked == \E d \in Requests : pc[d] = "removing"

Configuring == {r \in Requests : pc[r] = "configuring"}

\* The uploads that have counted the versions and not inserted theirs.
Uploading == {r \in Requests : pc[r] \in {"counted", "numbered", "stored"}}

Goes(r, to) == pc' = [pc EXCEPT ![r] = to]

\* A unit of work writes the columns that differ from what it loaded.
Flush(current, old, new) ==
  [f \in DOMAIN current |-> IF new[f] # old[f] THEN new[f] ELSE current[f]]

Init ==
  /\ exists = TRUE
  /\ fn = Blank
  /\ stored = {}
  /\ pc = [r \in Requests |-> "new"]
  /\ number = [r \in Requests |-> 0]
  /\ seen = [r \in Requests |-> Blank]
  /\ want = [r \in Requests |-> Blank]
  /\ listed = [r \in Requests |-> {}]
  /\ target = [r \in Requests |-> NoVersion]
  /\ faults = 0
  /\ torn = {}
  /\ exposed = {}
  /\ overlapped = FALSE
  /\ peak = 0

-----------------------------------------------------------------------------
(* create_version                                                          *)

\* Mutant: the limit itself is still let in.
LimitExceeded == Cardinality(Versions) > MaxVersions

LimitReached == Cardinality(Versions) >= MaxVersions

\* The archive is valid and the limit is not reached, or else 404, 413, 422
\* or 429 and nothing happens.
UploadCounts(r) ==
  /\ pc[r] = "new"
  /\ exists
  /\ ~LimitReached
  /\ Goes(r, "counted")
  /\ peak' = IF Cardinality(Uploading') > peak THEN Cardinality(Uploading') ELSE peak
  /\ UNCHANGED <<exists, fn, stored, number, seen, want, listed, target, faults,
                 torn, exposed, overlapped>>

\* next_version is one more than the greatest number, in a second statement.
IsNext(n) ==
  /\ n \in Nat \ {0}
  /\ \A v \in Versions : number[v] < n
  /\ n > 1 => \E v \in Versions : number[v] = n - 1

UploadNumbers(r) ==
  /\ pc[r] = "counted"
  /\ \E n \in 1 .. Cardinality(Requests) :
       IsNext(n) /\ number' = [number EXCEPT ![r] = n]
  /\ Goes(r, "numbered")
  /\ UNCHANGED <<exists, fn, stored, seen, want, listed, target, faults, history>>

\* Mutant: a failed upload of the archive is only logged.
UploadStoresOrNot(r) ==
  /\ pc[r] = "numbered"
  /\ stored' \in {stored, stored \cup {r}}
  /\ Goes(r, "stored")
  /\ UNCHANGED <<exists, fn, number, seen, want, listed, target, faults, history>>

\* upload_artifact
UploadStores(r) ==
  /\ pc[r] = "numbered"
  /\ stored' = stored \cup {r}
  /\ Goes(r, "stored")
  /\ UNCHANGED <<exists, fn, number, seen, want, listed, target, faults, history>>

\* Mutant: without uq_version_function_number.
Insertable(r) == exists

\* The foreign key and uq_version_function_number.
Accepted(r) == exists /\ \A v \in Versions : number[v] # number[r]

\* INSERT, then active_version_id, then COMMIT.  When the INSERT is refused
\* the artifact stays behind.
UploadCommits(r) ==
  /\ pc[r] = "stored"
  /\ ~Locked
  /\ IF Accepted(r)
       THEN fn' = [fn EXCEPT !.active = r] /\ Goes(r, "uploaded")
       ELSE UNCHANGED fn /\ Goes(r, "ended")
  /\ UNCHANGED <<exists, stored, number, seen, want, listed, target, faults, history>>

-----------------------------------------------------------------------------
(* activate_version and update_canary: load, decide, flush.                *)

\* Mutant: activation keeps the canary.
ActivatedOnly(f, v) == [f EXCEPT !.active = v]

Activated(f, v) == [active |-> v, canary |-> NoVersion, percent |-> 0]
WithoutCanary(f) == [f EXCEPT !.canary = NoVersion, !.percent = 0]

WithCanary(f, v) == [f EXCEPT !.canary = v, !.percent = 50]

\* What a request may ask for: activate a version (or send it 100 percent),
\* clear the canary, or send a share to a version that is not the active one
\* (else 404 or 422).
Configurations ==
  {Activated(fn, v) : v \in Versions}
    \cup {WithoutCanary(fn)}
    \cup {WithCanary(fn, v) : v \in Versions \ {fn.active}}

ConfigLoads(r) ==
  /\ pc[r] = "new"
  /\ exists
  /\ seen' = [seen EXCEPT ![r] = fn]
  /\ \E new \in Configurations : want' = [want EXCEPT ![r] = new]
  /\ overlapped' = (overlapped \/ Configuring # {})
  /\ Goes(r, "configuring")
  /\ UNCHANGED <<exists, fn, stored, number, listed, target, faults, torn, exposed, peak>>

\* Against a row that was deleted meanwhile the UPDATE fails.
ConfigCommits(r) ==
  /\ pc[r] = "configuring"
  /\ ~Locked
  /\ fn' = IF exists THEN Flush(fn, seen[r], want[r]) ELSE fn
  /\ Goes(r, "ended")
  /\ UNCHANGED <<exists, stored, number, seen, want, listed, target, faults, history>>

-----------------------------------------------------------------------------
(* An execution: choose_execution_version, INSERT, and some day its end.   *)

\* The body names a version, or the draw decides.
Choosable(explicit) ==
  IF explicit # NoVersion THEN {explicit}
  ELSE {fn.active} \cup IF fn.percent > 0 THEN {fn.canary} ELSE {}

TriggerLoads(r) ==
  /\ pc[r] = "new"
  /\ \E explicit \in Versions \cup {NoVersion} :
       \E v \in Choosable(explicit) \cap Versions :
         target' = [target EXCEPT ![r] = v]
  /\ Goes(r, "triggering")
  /\ UNCHANGED <<exists, fn, stored, number, seen, want, listed, faults, history>>

\* The INSERT waits for a deletion's locks; its foreign key fails if the
\* function is gone.
TriggerCommits(r) ==
  /\ pc[r] = "triggering"
  /\ ~Locked
  /\ Goes(r, IF exists THEN "active" ELSE "ended")
  /\ exposed' = IF \E d \in Requests : pc[d] = "deleting" THEN exposed \cup {r} ELSE exposed
  /\ UNCHANGED <<exists, fn, stored, number, seen, want, listed, target, faults, torn, overlapped,
                 peak>>

\* The worker, the recovery loop or a cancellation ends it.
ExecutionEnds(r) ==
  /\ pc[r] = "active"
  /\ Goes(r, "ended")
  /\ UNCHANGED <<exists, fn, stored, number, seen, want, listed, target, faults, history>>

-----------------------------------------------------------------------------
(* delete_function                                                         *)

\* Mutant: without the 409.
NothingAsked == TRUE

NothingActive == \A e \in Requests : pc[e] # "active"

\* The active executions are counted and the artifact paths are listed.
DeleteCounts(r) ==
  /\ pc[r] = "new"
  /\ exists
  /\ NothingActive
  /\ seen' = [seen EXCEPT ![r] = fn]
  /\ listed' = [listed EXCEPT ![r] = Versions]
  /\ Goes(r, "deleting")
  /\ UNCHANGED <<exists, fn, stored, number, want, target, faults, history>>

\* The pointers that were loaded as NULL are not written: if an upload has set
\* one meanwhile, its foreign key keeps the versions from being deleted.
Detached(r) ==
  LET f == Flush(fn, seen[r], Blank)
  IN  f.active = NoVersion /\ f.canary = NoVersion

\* Executions detached, pointers cleared, rows deleted: seen by nobody yet, but
\* locked.  After another deletion the UPDATE of the pointers fails.
DeleteRemovesRows(r) ==
  /\ pc[r] = "deleting"
  /\ ~Locked
  /\ Goes(r, IF exists /\ Detached(r) THEN "removing" ELSE "ended")
  /\ UNCHANGED <<exists, fn, stored, number, seen, want, listed, target, faults, history>>

DeleteRemovesArtifact(r) ==
  /\ pc[r] = "removing"
  /\ \E v \in listed[r] :
       /\ stored' = stored \ {v}
       /\ listed' = [listed EXCEPT ![r] = @ \ {v}]
  /\ UNCHANGED <<exists, fn, pc, number, seen, want, target, faults, history>>

DeleteCommits(r) ==
  /\ pc[r] = "removing"
  /\ listed[r] = {}
  /\ exists' = FALSE
  /\ fn' = Blank
  /\ Goes(r, "ended")
  /\ UNCHANGED <<stored, number, seen, want, listed, target, faults, history>>

-----------------------------------------------------------------------------

\* The object store or the database raises, or the process dies: the
\* transaction is rolled back, what the object store did is not.
Fails(r) ==
  /\ pc[r] \notin {"new", "uploaded", "active", "ended"}
  /\ faults < MaxFaults
  /\ faults' = faults + 1
  /\ torn' = IF pc[r] = "removing" THEN torn \cup (Versions \ stored) ELSE torn
  /\ Goes(r, "ended")
  /\ UNCHANGED <<exists, fn, stored, number, seen, want, listed, target, exposed, overlapped,
                 peak>>

Step(r) ==
  \/ UploadCounts(r) \/ UploadNumbers(r) \/ UploadStores(r) \/ UploadCommits(r)
  \/ ConfigLoads(r) \/ ConfigCommits(r)
  \/ TriggerLoads(r) \/ TriggerCommits(r) \/ ExecutionEnds(r)
  \/ DeleteCounts(r) \/ DeleteRemovesRows(r) \/ DeleteRemovesArtifact(r) \/ DeleteCommits(r)

\* No request is under way.
Quiet ==
  /\ \A r \in Requests : pc[r] \in {"new", "uploaded", "ended"}
  /\ UNCHANGED vars

Next == Quiet \/ \E r \in Requests : Step(r) \/ Fails(r)

Spec == Init /\ [][Next]_vars

-----------------------------------------------------------------------------

\* Every variable has the type of the column, object name or local it models.
TypeOK ==
  /\ exists \in BOOLEAN
  /\ fn \in FunctionRow
  /\ stored \subseteq Requests
  /\ pc \in [Requests -> {"new", "counted", "numbered", "stored", "uploaded", "configuring",
                          "triggering", "active", "deleting", "removing", "ended"}]
  /\ number \in [Requests -> Nat]
  /\ seen \in [Requests -> FunctionRow]
  /\ want \in [Requests -> FunctionRow]
  /\ listed \in [Requests -> SUBSET Requests]
  /\ target \in [Requests -> Pointer]
  /\ faults \in Nat
  /\ torn \subseteq Requests
  /\ exposed \subseteq Requests
  /\ overlapped \in BOOLEAN
  /\ peak \in Nat

\* Uploads that run at the same time and choose the same number do not both
\* get in, and no number is left out: the versions are numbered from 1.
NumbersGapless ==
  \A v \in Versions :
    /\ number[v] # 0
    /\ number[v] > 1 => \E w \in Versions : number[w] = number[v] - 1
    /\ \A w \in Versions : number[w] = number[v] => w = v

\* The limit is compared with a count that is stale when the row is inserted,
\* so that uploads exceed it together; but by fewer than were under way at once.
LimitOvershoot == Cardinality(Versions) < MaxVersions + peak

\* The routing columns agree, whatever uploads come between the load and the
\* commit of a change: a share is sent to a canary if and only if there is
\* one, and the canary is another version than the active one.  Two changes
\* that overlap may break this: a flush writes only what differs from its load.
RoutingConsistent ==
  overlapped \/
    /\ fn.canary # NoVersion <=> fn.percent > 0
    /\ fn.canary # NoVersion => fn.canary # fn.active

\* Database and object store change one after the other; still, the artifact
\* of every version is there, but for a deletion that is removing it or that
\* failed while it did.
RowHasArtifact ==
  \A v \in Versions : v \in stored \/ v \in torn \/ Locked

\* The 409 of delete_function protects the artifact of an execution that was
\* committed before the deletion counted the active ones.  One committed
\* between the count and the removal of the rows is detached and goes without.
ArtifactsKept ==
  \A e \in Requests :
    pc[e] = "active" /\ e \notin exposed => target[e] \in stored \cup torn

\* docs/API.md: "Delete a function and all its versions and artifacts."
DeleteIsComplete ==
  ~exists => \A v \in stored : pc[v] # "uploaded"

=============================================================================
