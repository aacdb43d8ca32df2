------------------------- MODULE EphemeralLimitsProofs -------------------------
(***************************************************************************)
(* The limits of EphemeralLimits are exceeded by no more than its          *)
(* properties say, for any number of requests, limits and faults.          *)
(***************************************************************************)
EXTENDS EphemeralLimits, FiniteSetTheorems, TLAPS

Typed ==
  /\ now \in Minutes
  /\ counter \in [Minutes -> Nat]
  /\ expiry \in [Minutes -> 0 .. Never]
  /\ pc \in [Requests -> PC]
  /\ bucket \in [Requests -> Minutes]
  /\ count \in [Requests -> Nat]
  /\ row \in [Requests -> {"none", "active", "ended"}]
  /\ job \in [Requests -> {"none", "queued", "loaded", "running"}]
  /\ faults \in 0 .. MaxFaults
  /\ peak \in Nat
  /\ revived \subseteq Requests

KeyTyped == key \in KeyRow /\ seen \in KeyRow /\ revoking \in BOOLEAN

\* A counter is used in its minute and the next, and lives for at least two.
Clock ==
  /\ \A r \in Requests : bucket[r] <= now
  /\ \A r \in Requests : pc[r] \in {"incr", "expire"} => now <= bucket[r] + 1
  /\ \A m \in Minutes : m + 2 <= expiry[m]

\* So it does not start anew while a request may still increment it, and answers
\* each one with a number of its own.
Counts ==
  /\ \A r \in Requests : pc[r] \in {"idle", "incr"} => count[r] = 0
  /\ \A r \in Requests : pc[r] = "expire" => count[r] = 1
  /\ \A r \in Requests : counter[bucket[r]] > 0 => count[r] <= counter[bucket[r]]
  /\ \A r \in Requests :
       count[r] > 0 /\ counter[bucket[r]] = 0 => bucket[r] + 2 <= now
  /\ \A r, q \in Requests :
       r # q /\ bucket[r] = bucket[q] /\ count[r] > 0 => count[r] # count[q]
  /\ \A m \in Minutes : counter[m] = 0 => expiry[m] = Never
  /\ \A r \in Requests :
       pc[r] \in {"incr", "expire", "count"} \/ count[r] > 0 => r \in Ephemeral

\* Jobs have rows.  A row is revived once at most: its job is queued once and
\* taken once.  Invocations take another way than ephemeral requests.
Revivals ==
  /\ \A r \in Requests : pc[r] = "enqueue" \/ job[r] # "none" => row[r] # "none"
  /\ \A r \in Requests : pc[r] = "route" => r \notin Ephemeral
  /\ \A r \in Requests : job[r] # "none" => pc[r] \in {"mark", "over"}
  /\ \A r \in revived : job[r] \in {"running", "none"} /\ pc[r] \in {"mark", "over"}

-----------------------------------------------------------------------------
LEMMA EphemeralFinite ==
  /\ \A S \in SUBSET Requests : IsFiniteSet(S) /\ Cardinality(S) \in Nat
  /\ Active \subseteq Requests /\ Counted \subseteq Requests
<1>1. \A S \in SUBSET Requests : IsFiniteSet(S) BY EphemeralAssumption, FS_Subset
<1>2. \A S \in SUBSET Requests : Cardinality(S) \in Nat BY <1>1, FS_CardinalityType
<1> QED BY <1>1, <1>2, EphemeralAssumption DEF Active, Counted

\* One more or one less.
LEMMA AtMostOneMore ==
  ASSUME NEW S, NEW T, NEW x, IsFiniteSet(S), T \subseteq S \cup {x}
  PROVE  IsFiniteSet(T) /\ Cardinality(T) <= Cardinality(S) + 1
<1>1. /\ IsFiniteSet(S \cup {x})
      /\ Cardinality(S \cup {x}) \in {Cardinality(S), Cardinality(S) + 1}
  BY FS_AddElement
<1>2. IsFiniteSet(T) /\ Cardinality(T) <= Cardinality(S \cup {x}) BY <1>1, FS_Subset
<1>3. Cardinality(S) \in Nat /\ Cardinality(T) \in Nat BY <1>2, FS_CardinalityType
<1> QED BY <1>1, <1>2, <1>3

-----------------------------------------------------------------------------
(* The counter                                                             *)

\* The steps that leave the limiter alone, and start no request.
Aside ==
  /\ UNCHANGED limiter
  /\ \A r \in Requests :
       \/ pc'[r] = pc[r]
       \/ /\ pc'[r] \in PC \ {"idle", "incr", "expire"}
          /\ pc'[r] = "count" => r \in Ephemeral

LEMMA AsideOrNot ==
  ASSUME Typed, Next
  PROVE  \/ Aside
         \/ \E r \in Requests : Authenticate(r) \/ Incr(r) \/ IncrReplayed(r) \/ Expire(r)
         \/ NextMinute
         \/ \E m \in Minutes : Vanish(m)
<1> USE DEF Typed
<1>1. CASE CreateKey BY <1>1 DEF CreateKey, Aside
<1>2. CASE RevokeLoads BY <1>2 DEF RevokeLoads, Aside
<1>3. CASE RevokeCommits BY <1>3 DEF RevokeCommits, Aside
<1>4. ASSUME NEW r \in Requests, CountActive(r) \/ Route(r) PROVE Aside
  BY <1>4 DEF CountActive, Route, Goes, Aside, PC
<1>5. ASSUME NEW r \in Requests,
             Insert(r) \/ Enqueue(r) \/ EnqueueRaises(r) \/ MarkEnqueueFailed(r) \/ RequestFails(r)
      PROVE  Aside
  BY <1>5 DEF Insert, Enqueue, EnqueueRaises, MarkEnqueueFailed, RequestFails, Goes, Aside, PC
<1>6. ASSUME NEW r \in Requests,
             \/ WorkerLoads(r) \/ WorkerStarts(r) \/ WorkerReports(r)
             \/ WorkerDies(r) \/ RowEndedElsewhere(r)
      PROVE  Aside
  BY <1>6 DEF WorkerLoads, WorkerStarts, WorkerReports, WorkerDies, RowEndedElsewhere, Aside
<1> QED BY <1>1, <1>2, <1>3, <1>4, <1>5, <1>6 DEF Next

LEMMA TypedStep == Typed /\ Next => Typed'
<1> SUFFICES ASSUME Typed, Next PROVE Typed' OBVIOUS
<1> USE EphemeralAssumption DEF Typed, limiter, history, Goes, PC
<1>1. CASE CreateKey BY <1>1 DEF CreateKey
<1>2. CASE RevokeLoads BY <1>2 DEF RevokeLoads
<1>3. CASE RevokeCommits BY <1>3 DEF RevokeCommits
<1>4. ASSUME NEW r \in Requests, Authenticate(r) PROVE Typed' BY <1>4 DEF Authenticate
<1>5. ASSUME NEW r \in Requests, Incr(r) \/ IncrReplayed(r) PROVE Typed'
  BY <1>5 DEF Incr, IncrReplayed, Incremented, AfterRate
<1>6. ASSUME NEW r \in Requests, Expire(r) PROVE Typed'
  <2>1. now + 2 \in 0 .. Never BY DEF Minutes, Never
  <2>2. expiry' \in [Minutes -> 0 .. Never] BY <1>6, <2>1 DEF Expire
  <2>3. pc' \in [Requests -> PC] BY <1>6 DEF Expire, AfterRate
  <2> QED BY <1>6, <2>2, <2>3 DEF Expire
<1>7. ASSUME NEW r \in Requests, CountActive(r) PROVE Typed'
  <2>1. Cardinality(Counted) \in Nat BY EphemeralFinite
  <2>2. peak' \in Nat BY <1>7, <2>1 DEF CountActive, Larger
  <2>3. pc' \in [Requests -> PC] BY <1>7 DEF CountActive
  <2> QED BY <1>7, <2>2, <2>3 DEF CountActive
<1>8. ASSUME NEW r \in Requests, Route(r) \/ Insert(r) PROVE Typed'
  BY <1>8 DEF Route, Insert
<1>9. ASSUME NEW r \in Requests, Enqueue(r) \/ EnqueueRaises(r) \/ MarkEnqueueFailed(r)
      PROVE  Typed'
  BY <1>9 DEF Enqueue, EnqueueRaises, MarkEnqueueFailed
<1>10. ASSUME NEW r \in Requests, RequestFails(r) \/ WorkerDies(r) PROVE Typed'
  BY <1>10 DEF RequestFails, WorkerDies
<1>11. ASSUME NEW r \in Requests,
              WorkerLoads(r) \/ WorkerStarts(r) \/ WorkerReports(r) \/ RowEndedElsewhere(r)
       PROVE  Typed'
  BY <1>11 DEF WorkerLoads, WorkerStarts, WorkerReports, RowEndedElsewhere
<1>12. CASE NextMinute
  <2>1. now' \in Minutes BY <1>12 DEF NextMinute, Minutes
  <2> QED BY <1>12, <2>1 DEF NextMinute
<1>13. ASSUME NEW m \in Minutes, Vanish(m) PROVE Typed'
  BY <1>13 DEF Vanish, Never
<1> QED BY <1>1, <1>2, <1>3, <1>4, <1>5, <1>6, <1>7, <1>8, <1>9, <1>10, <1>11, <1>12, <1>13
        DEF Next

LEMMA ClockStep == Typed /\ Clock /\ Next => Clock'
<1> SUFFICES ASSUME Typed, Clock, Next PROVE Clock' OBVIOUS
<1>t. /\ now \in Nat /\ bucket \in [Requests -> Nat] /\ expiry \in [Minutes -> Nat]
      /\ pc \in [Requests -> PC]
  BY EphemeralAssumption DEF Typed, Minutes, Never
<1>m. Minutes \subseteq Nat BY DEF Minutes
<1>1. CASE Aside BY <1>1 DEF Aside, Clock, limiter
<1>2. ASSUME NEW r \in Requests, Authenticate(r) PROVE Clock'
  BY <1>2, <1>t DEF Authenticate, Goes, Clock, PC
<1>3. ASSUME NEW r \in Requests, Incr(r) \/ IncrReplayed(r) PROVE Clock'
  BY <1>3, <1>t DEF Incr, IncrReplayed, Incremented, AfterRate, Goes, Clock
<1>4. ASSUME NEW r \in Requests, Expire(r) PROVE Clock'
  <2>1. bucket[r] <= now BY DEF Clock
  <2>2. bucket[r] + 2 <= now + 2 BY <1>t, <2>1
  <2> QED BY <1>4, <1>t, <2>2 DEF Expire, AfterRate, Goes, Clock
<1>5. CASE NextMinute BY <1>5, <1>t DEF NextMinute, Clock
<1>6. ASSUME NEW m \in Minutes, Vanish(m) PROVE Clock'
  <2>1. m + 2 <= Never BY EphemeralAssumption DEF Minutes, Never
  <2> QED BY <1>6, <1>t, <2>1 DEF Vanish, Clock
<1> QED BY <1>1, <1>2, <1>3, <1>4, <1>5, <1>6, AsideOrNot

LEMMA CountsStep == Typed /\ Clock /\ Counts /\ Next => Counts'
<1> SUFFICES ASSUME Typed, Clock, Counts, Next PROVE Counts' OBVIOUS
<1>t. /\ now \in Nat /\ bucket \in [Requests -> Minutes] /\ expiry \in [Minutes -> Nat]
      /\ count \in [Requests -> Nat] /\ counter \in [Minutes -> Nat]
      /\ pc \in [Requests -> PC]
  BY EphemeralAssumption DEF Typed, Minutes, Never
<1>m. Minutes \subseteq Nat BY DEF Minutes
<1>1. CASE Aside BY <1>1 DEF Aside, Counts, limiter
<1>2. ASSUME NEW r \in Requests, Authenticate(r) PROVE Counts'
  <2>1. count[r] = 0 /\ UNCHANGED <<now, counter, expiry, count>>
    BY <1>2 DEF Authenticate, Counts
  <2>2. /\ \A q \in Requests \ {r} : bucket'[q] = bucket[q] /\ pc'[q] = pc[q]
        /\ pc'[r] \in {"over", "route"} \/ (pc'[r] = "incr" /\ r \in Ephemeral)
    BY <1>2, <1>t DEF Authenticate, Goes
  <2>3. bucket' \in [Requests -> Minutes] BY <1>2, <1>t DEF Authenticate, Typed
  <2> QED BY <1>t, <2>1, <2>2, <2>3 DEF Counts
<1>3. ASSUME NEW r \in Requests, Incr(r) \/ IncrReplayed(r) PROVE Counts'
  <2> DEFINE b == bucket[r]
  <2>1. PICK n \in Nat :
          /\ n > counter[b] /\ (n = 1 => counter[b] = 0)
          /\ counter' = [counter EXCEPT ![b] = n] /\ count' = [count EXCEPT ![r] = n]
          /\ pc' = [pc EXCEPT ![r] = IF n = 1 THEN "expire" ELSE AfterRate(n)]
          /\ pc[r] = "incr" /\ UNCHANGED <<now, expiry, bucket>>
    BY <1>3, <1>t DEF Incr, IncrReplayed, Incremented, Goes
  <2>2. \A q \in Requests : bucket[q] = b => count[q] <= counter[b]
    <3> SUFFICES ASSUME NEW q \in Requests, bucket[q] = b PROVE count[q] <= counter[b]
      OBVIOUS
    <3>1. now <= b + 1 BY <2>1 DEF Clock
    <3>2. CASE counter[b] > 0 BY <3>2 DEF Counts
    <3>3. CASE ~(counter[b] > 0)
      <4>1. counter[b] = 0 BY <1>t, <3>3
      <4>2. ~(b + 2 <= now)
        <5>1. b \in Nat BY <1>t, <1>m
        <5> QED BY <1>t, <3>1, <5>1
      <4>3. ~(count[q] > 0) BY <4>1, <4>2 DEF Counts
      <4> QED BY <1>t, <4>1, <4>3
    <3> QED BY <3>2, <3>3
  <2>3. counter[b] >= 0 BY <1>t
  <2> QED BY <1>t, <2>1, <2>2, <2>3 DEF Counts, AfterRate
<1>4. ASSUME NEW r \in Requests, Expire(r) PROVE Counts'
  <2> DEFINE b == bucket[r]
  <2>1. /\ expiry' = [expiry EXCEPT ![b] = now + 2]
        /\ pc' = [pc EXCEPT ![r] = AfterRate(count[r])] /\ pc[r] = "expire"
        /\ UNCHANGED <<now, counter, bucket, count>>
    BY <1>4 DEF Expire, Goes
  <2>2. counter[b] # 0
    <3>1. now <= b + 1 BY <2>1 DEF Clock
    <3>2. b \in Nat BY <1>t, <1>m
    <3>3. ~(b + 2 <= now) BY <1>t, <3>1, <3>2
    <3>4. count[r] > 0 BY <2>1 DEF Counts
    <3> QED BY <3>3, <3>4 DEF Counts
  <2>3. r \in Ephemeral BY <2>1 DEF Counts
  <2> QED BY <1>t, <2>1, <2>2, <2>3 DEF Counts, AfterRate
<1>5. CASE NextMinute
  <2>1. now' = now + 1 /\ UNCHANGED <<counter, expiry, bucket, count, pc>>
    BY <1>5 DEF NextMinute
  <2>2. ASSUME NEW r \in Requests, bucket[r] + 2 <= now PROVE bucket[r] + 2 <= now + 1
    <3>1. bucket[r] \in Nat BY <1>t, <1>m
    <3> QED BY <1>t, <2>2, <3>1
  <2> QED BY <2>1, <2>2 DEF Counts
<1>6. ASSUME NEW m \in Minutes, Vanish(m) PROVE Counts'
  <2>1. m + 2 <= now BY <1>6, <1>t, <1>m DEF Vanish, Clock
  <2> QED BY <1>6, <1>t, <2>1 DEF Vanish, Counts
<1> QED BY <1>1, <1>2, <1>3, <1>4, <1>5, <1>6, AsideOrNot

-----------------------------------------------------------------------------
(* The active executions                                                   *)

LEMMA RevivalsStep == Typed /\ Revivals /\ Next => Revivals'
<1> SUFFICES ASSUME Typed, Revivals, Next PROVE Revivals' OBVIOUS
<1>t. /\ pc \in [Requests -> PC] /\ revived \subseteq Requests
      /\ job \in [Requests -> {"none", "queued", "loaded", "running"}]
      /\ row \in [Requests -> {"none", "active", "ended"}]
  BY DEF Typed
<1> USE <1>t DEF Revivals, Goes, history
<1>1. CASE CreateKey \/ RevokeLoads \/ RevokeCommits \/ NextMinute \/ \E m \in Minutes : Vanish(m)
  BY <1>1 DEF CreateKey, RevokeLoads, RevokeCommits, NextMinute, Vanish
<1>2. ASSUME NEW r \in Requests,
             \/ Authenticate(r) \/ Incr(r) \/ IncrReplayed(r) \/ Expire(r)
             \/ CountActive(r) \/ Route(r) \/ RequestFails(r)
      PROVE  Revivals'
  <2>1. UNCHANGED <<job, row, revived>> /\ \A q \in Requests \ {r} : pc'[q] = pc[q]
    BY <1>2 DEF Authenticate, Incr, IncrReplayed, Incremented, Expire, CountActive, Route,
                RequestFails
  <2>2. /\ pc[r] \notin {"mark", "over"} \/ pc'[r] = "over"
        /\ pc'[r] # "enqueue"
        /\ pc'[r] = "route" => r \notin Ephemeral
    BY <1>2 DEF Authenticate, Incr, IncrReplayed, Incremented, Expire, CountActive, Route,
                RequestFails, AfterRate
  <2> QED BY <2>1, <2>2
<1>3. ASSUME NEW r \in Requests,
             Insert(r) \/ Enqueue(r) \/ EnqueueRaises(r) \/ MarkEnqueueFailed(r)
      PROVE  Revivals'
  BY <1>3 DEF Insert, Enqueue, EnqueueRaises, MarkEnqueueFailed
<1>4. ASSUME NEW r \in Requests,
             \/ WorkerLoads(r) \/ WorkerStarts(r) \/ WorkerReports(r)
             \/ WorkerDies(r) \/ RowEndedElsewhere(r)
      PROVE  Revivals'
  BY <1>4 DEF WorkerLoads, WorkerStarts, WorkerReports, WorkerDies, RowEndedElsewhere
<1> QED BY <1>1, <1>2, <1>3, <1>4 DEF Next

\* The four ways a step changes what is active and what has counted.
LEMMA OvershootStep == Typed /\ Revivals /\ OvershootBounded /\ Next => OvershootBounded'
<1> SUFFICES ASSUME Typed, Revivals, OvershootBounded, Next PROVE OvershootBounded' OBVIOUS
<1> DEFINE a == Cardinality(Active)
           c == Cardinality(Counted)
           k == Cardinality(revived)
<1>t. /\ pc \in [Requests -> PC] /\ revived \subseteq Requests /\ peak \in Nat
      /\ row \in [Requests -> {"none", "active", "ended"}]
  BY DEF Typed
<1>f. IsFiniteSet(Active) /\ IsFiniteSet(Counted) /\ IsFiniteSet(revived)
  BY <1>t, EphemeralFinite
<1>n. a \in Nat /\ c \in Nat /\ k \in Nat BY <1>t, EphemeralFinite
<1>b. a + c <= ConcurrencyLimit - 1 + peak + k BY DEF OvershootBounded
<1>l. ConcurrencyLimit \in Nat BY EphemeralAssumption
<1>s. Ephemeral \subseteq Requests BY EphemeralAssumption
<1> HIDE DEF a, c, k
<1>1. ASSUME Active' \subseteq Active, Counted' \subseteq Counted, UNCHANGED history
      PROVE  OvershootBounded'
  <2>1. Cardinality(Active') <= a /\ Cardinality(Counted') <= c
    BY <1>1, <1>f, FS_Subset DEF a, c
  <2>2. Cardinality(Active') \in Nat /\ Cardinality(Counted') \in Nat
    BY <1>1, <1>f, FS_Subset, FS_CardinalityType
  <2>3. Cardinality(Active') + Cardinality(Counted') <= ConcurrencyLimit - 1 + peak + k
    BY <1>n, <1>b, <1>l, <1>t, <2>1, <2>2
  <2> QED BY <1>1, <2>3 DEF OvershootBounded, history, k
<1>2. ASSUME NEW r \in Requests, CountActive(r) PROVE OvershootBounded'
  <2>1. CASE Cardinality(Active) >= ConcurrencyLimit
    BY <1>1, <1>2, <1>s, <1>t, <2>1 DEF CountActive, Goes, Active, Counted, history
  <2>2. CASE ~(Cardinality(Active) >= ConcurrencyLimit)
    <3>1. /\ pc' = [pc EXCEPT ![r] = "insert"] /\ row' = row /\ revived' = revived
          /\ peak' = Larger(peak, c + 1)
      BY <1>2, <2>2 DEF CountActive, Goes, c
    <3>2. Active' = Active /\ Counted' \subseteq Counted \cup {r}
      BY <3>1, <1>t, <1>s DEF Active, Counted
    <3>3. Cardinality(Counted') <= c + 1 /\ IsFiniteSet(Counted')
      BY <3>2, <1>f, AtMostOneMore DEF c
    <3>4. Cardinality(Counted') \in Nat BY <3>3, FS_CardinalityType
    <3>5. peak' \in Nat /\ c + 1 <= peak' BY <3>1, <1>n, <1>t DEF Larger
    <3>6. a <= ConcurrencyLimit - 1 BY <2>2, <1>n, <1>l DEF a
    <3>7. a + Cardinality(Counted') <= ConcurrencyLimit - 1 + peak' + k
      BY <3>3, <3>4, <3>5, <3>6, <1>n, <1>l
    <3> QED BY <3>1, <3>2, <3>7 DEF OvershootBounded, a, k
  <2> QED BY <2>1, <2>2
<1>3. ASSUME NEW r \in Requests, Insert(r) PROVE OvershootBounded'
  <2>1. /\ pc[r] = "insert" /\ pc' = [pc EXCEPT ![r] = "enqueue"]
        /\ row' = [row EXCEPT ![r] = "active"] /\ UNCHANGED history
    BY <1>3 DEF Insert, Goes
  <2>2. CASE r \in Ephemeral
    <3>1. Active' \subseteq Active \cup {r} /\ Counted' = Counted \ {r} /\ r \in Counted
      BY <2>1, <2>2, <1>t, <1>s DEF Active, Counted
    <3>2. Cardinality(Active') <= a + 1 /\ IsFiniteSet(Active')
      BY <3>1, <1>f, AtMostOneMore DEF a
    <3>3. Cardinality(Counted') = c - 1 BY <3>1, <1>f, FS_RemoveElement DEF c
    <3>4. Cardinality(Active') \in Nat BY <3>2, FS_CardinalityType
    <3>5. Cardinality(Active') + Cardinality(Counted') <= ConcurrencyLimit - 1 + peak + k
      BY <3>2, <3>3, <3>4, <1>n, <1>b, <1>l, <1>t
    <3> QED BY <2>1, <3>5 DEF OvershootBounded, history, k
  <2>3. CASE r \notin Ephemeral
    BY <1>1, <2>1, <2>3, <1>t, <1>s DEF Active, Counted
  <2> QED BY <2>2, <2>3
<1>4. ASSUME NEW r \in Requests, WorkerStarts(r) PROVE OvershootBounded'
  <2>1. /\ row' = [row EXCEPT ![r] = "active"] /\ UNCHANGED <<pc, peak>>
        /\ revived' = IF row[r] = "ended" THEN revived \cup {r} ELSE revived
        /\ job[r] = "loaded"
    BY <1>4 DEF WorkerStarts
  <2>2. Counted' = Counted BY <2>1 DEF Counted
  <2>3. CASE row[r] = "ended"
    <3>1. r \notin revived BY <2>1 DEF Revivals
    <3>2. Cardinality(revived') = k + 1 BY <2>1, <2>3, <3>1, <1>f, FS_AddElement DEF k
    <3>3. Active' \subseteq Active \cup {r} BY <2>1, <1>t, <1>s DEF Active
    <3>4. Cardinality(Active') <= a + 1 /\ IsFiniteSet(Active')
      BY <3>3, <1>f, AtMostOneMore DEF a
    <3>5. Cardinality(Active') \in Nat BY <3>4, FS_CardinalityType
    <3>6. Cardinality(Active') + c <= ConcurrencyLimit - 1 + peak + (k + 1)
      BY <3>4, <3>5, <1>n, <1>b, <1>l, <1>t
    <3> QED BY <2>1, <2>2, <3>2, <3>6 DEF OvershootBounded, c
  <2>4. CASE row[r] # "ended"
    <3>1. row[r] = "active" BY <2>1, <2>4, <1>t DEF Revivals
    <3> QED BY <1>1, <2>1, <2>2, <2>4, <3>1, <1>t, <1>s DEF Active, history
  <2> QED BY <2>3, <2>4
<1>5. ASSUME NEW r \in Requests,
             \/ Authenticate(r) \/ Incr(r) \/ IncrReplayed(r) \/ Expire(r) \/ Route(r)
             \/ Enqueue(r) \/ EnqueueRaises(r) \/ RequestFails(r)
      PROVE  OvershootBounded'
  <2>1. UNCHANGED <<row, history>> /\ \A q \in Requests \ {r} : pc'[q] = pc[q]
    BY <1>5, <1>t DEF Authenticate, Incr, IncrReplayed, Incremented, Expire, Route, Enqueue,
                      EnqueueRaises, RequestFails, Goes
  <2>2. pc'[r] = "insert" => r \notin Ephemeral
    BY <1>5, <1>t DEF Authenticate, Incr, IncrReplayed, Incremented, Expire, Route, Enqueue,
                      EnqueueRaises, RequestFails, Goes, AfterRate, Revivals
  <2> QED BY <1>1, <1>s, <2>1, <2>2 DEF Active, Counted
<1>7. ASSUME NEW r \in Requests,
             \/ MarkEnqueueFailed(r) \/ WorkerReports(r) \/ RowEndedElsewhere(r)
             \/ WorkerLoads(r) \/ WorkerDies(r)
      PROVE  OvershootBounded'
  <2>1. UNCHANGED history /\ \A q \in Requests : pc'[q] \in {pc[q], "over"}
    BY <1>7, <1>t DEF MarkEnqueueFailed, WorkerReports, RowEndedElsewhere, WorkerLoads, WorkerDies,
                      Goes, history
  <2>2. row' = row \/ row' = [row EXCEPT ![r] = "ended"]
    BY <1>7 DEF MarkEnqueueFailed, WorkerReports, RowEndedElsewhere, WorkerLoads, WorkerDies
  <2> QED BY <1>1, <1>s, <1>t, <2>1, <2>2 DEF Active, Counted
<1>6. CASE CreateKey \/ RevokeLoads \/ RevokeCommits \/ NextMinute \/ \E m \in Minutes : Vanish(m)
  BY <1>1, <1>6 DEF CreateKey, RevokeLoads, RevokeCommits, NextMinute, Vanish, Active, Counted,
                    history
<1> QED BY <1>2, <1>3, <1>4, <1>5, <1>6, <1>7 DEF Next

-----------------------------------------------------------------------------
(* Leaks                                                                   *)

LEMMA LeaksStep == Typed /\ LeaksNeedFaults /\ Next => LeaksNeedFaults'
<1> SUFFICES ASSUME Typed, LeaksNeedFaults, Next PROVE LeaksNeedFaults' OBVIOUS
<1> DEFINE a == Cardinality(LeakedCounters)
           c == Cardinality(StrandedRows)
<1>t. /\ pc \in [Requests -> PC] /\ bucket \in [Requests -> Minutes]
      /\ row \in [Requests -> {"none", "active", "ended"}]
      /\ job \in [Requests -> {"none", "queued", "loaded", "running"}]
      /\ counter \in [Minutes -> Nat] /\ expiry \in [Minutes -> 0 .. Never]
  BY DEF Typed
<1>f. IsFiniteSet(LeakedCounters) /\ IsFiniteSet(StrandedRows)
  <2>1. IsFiniteSet(Minutes) BY EphemeralAssumption, FS_Interval DEF Minutes
  <2>2. LeakedCounters \subseteq Minutes /\ StrandedRows \subseteq Requests
    BY DEF LeakedCounters, StrandedRows
  <2> QED BY <2>1, <2>2, EphemeralAssumption, FS_Subset
<1>n. a \in Nat /\ c \in Nat /\ faults \in Nat
  BY <1>f, FS_CardinalityType, EphemeralAssumption DEF Typed
<1>b. a + c <= faults BY DEF LeaksNeedFaults
<1> HIDE DEF a, c
<1>1. ASSUME LeakedCounters' \subseteq LeakedCounters, StrandedRows' \subseteq StrandedRows,
             faults' = faults
      PROVE  LeaksNeedFaults'
  <2>1. Cardinality(LeakedCounters') <= a /\ Cardinality(StrandedRows') <= c
    BY <1>1, <1>f, FS_Subset DEF a, c
  <2>2. Cardinality(LeakedCounters') \in Nat /\ Cardinality(StrandedRows') \in Nat
    BY <1>1, <1>f, FS_Subset, FS_CardinalityType
  <2>3. Cardinality(LeakedCounters') + Cardinality(StrandedRows') <= faults
    BY <1>n, <1>b, <2>1, <2>2
  <2> QED BY <1>1, <2>3 DEF LeaksNeedFaults
<1>2. ASSUME NEW x, LeakedCounters' \subseteq LeakedCounters \cup {x},
             StrandedRows' \subseteq StrandedRows, faults' = faults + 1
      PROVE  LeaksNeedFaults'
  <2>1. Cardinality(LeakedCounters') <= a + 1 /\ IsFiniteSet(LeakedCounters')
    BY <1>2, <1>f, AtMostOneMore DEF a
  <2>2. Cardinality(StrandedRows') <= c /\ IsFiniteSet(StrandedRows')
    BY <1>2, <1>f, FS_Subset DEF c
  <2>3. Cardinality(LeakedCounters') \in Nat /\ Cardinality(StrandedRows') \in Nat
    BY <2>1, <2>2, FS_CardinalityType
  <2>4. Cardinality(LeakedCounters') + Cardinality(StrandedRows') <= faults + 1
    BY <1>n, <1>b, <2>1, <2>2, <2>3
  <2> QED BY <1>2, <2>4 DEF LeaksNeedFaults
<1>3. ASSUME NEW x, LeakedCounters' \subseteq LeakedCounters,
             StrandedRows' \subseteq StrandedRows \cup {x}, faults' = faults + 1
      PROVE  LeaksNeedFaults'
  <2>1. Cardinality(LeakedCounters') <= a /\ IsFiniteSet(LeakedCounters')
    BY <1>3, <1>f, FS_Subset DEF a
  <2>2. Cardinality(StrandedRows') <= c + 1 /\ IsFiniteSet(StrandedRows')
    BY <1>3, <1>f, AtMostOneMore DEF c
  <2>3. Cardinality(LeakedCounters') \in Nat /\ Cardinality(StrandedRows') \in Nat
    BY <2>1, <2>2, FS_CardinalityType
  <2>4. Cardinality(LeakedCounters') + Cardinality(StrandedRows') <= faults + 1
    BY <1>n, <1>b, <2>1, <2>2, <2>3
  <2> QED BY <1>3, <2>4 DEF LeaksNeedFaults
<1> USE <1>t DEF LeakedCounters, StrandedRows, Goes, limiter, keys, history
<1>4. CASE CreateKey \/ RevokeLoads \/ RevokeCommits \/ NextMinute
  BY <1>1, <1>4 DEF CreateKey, RevokeLoads, RevokeCommits, NextMinute
<1>5. ASSUME NEW m \in Minutes, Vanish(m) PROVE LeaksNeedFaults'
  BY <1>1, <1>5 DEF Vanish
<1>6. ASSUME NEW r \in Requests, Authenticate(r) PROVE LeaksNeedFaults'
  BY <1>1, <1>6 DEF Authenticate
<1>7. ASSUME NEW r \in Requests, Incr(r) PROVE LeaksNeedFaults'
  <2>1. StrandedRows' \subseteq StrandedRows BY <1>7 DEF Incr, Incremented, AfterRate
  <2>2. LeakedCounters' \subseteq LeakedCounters BY <1>7 DEF Incr, Incremented, AfterRate
  <2> QED BY <1>1, <1>7, <2>1, <2>2 DEF Incr
<1>8. ASSUME NEW r \in Requests, IncrReplayed(r) PROVE LeaksNeedFaults'
  <2>1. StrandedRows' \subseteq StrandedRows BY <1>8 DEF IncrReplayed, Incremented, AfterRate
  <2>2. LeakedCounters' \subseteq LeakedCounters \cup {bucket[r]}
    BY <1>8 DEF IncrReplayed, Incremented, AfterRate
  <2> QED BY <1>2, <1>8, <2>1, <2>2 DEF IncrReplayed
<1>9. ASSUME NEW r \in Requests, Expire(r) PROVE LeaksNeedFaults'
  <2>1. now + 2 # Never BY EphemeralAssumption DEF Typed, Minutes, Never
  <2>2. LeakedCounters' \subseteq LeakedCounters BY <1>9, <2>1 DEF Expire, AfterRate
  <2>3. StrandedRows' \subseteq StrandedRows BY <1>9 DEF Expire, AfterRate
  <2> QED BY <1>1, <1>9, <2>2, <2>3 DEF Expire
<1>10. ASSUME NEW r \in Requests, CountActive(r) \/ Route(r) PROVE LeaksNeedFaults'
  BY <1>1, <1>10 DEF CountActive, Route
<1>11. ASSUME NEW r \in Requests,
              Insert(r) \/ Enqueue(r) \/ EnqueueRaises(r) \/ MarkEnqueueFailed(r)
       PROVE  LeaksNeedFaults'
  BY <1>1, <1>11 DEF Insert, Enqueue, EnqueueRaises, MarkEnqueueFailed
<1>12. ASSUME NEW r \in Requests, RequestFails(r) PROVE LeaksNeedFaults'
  <2>1. CASE pc[r] = "expire"
    <3>1. LeakedCounters' \subseteq LeakedCounters \cup {bucket[r]}
      BY <1>12 DEF RequestFails
    <3>2. StrandedRows' \subseteq StrandedRows BY <1>12, <2>1 DEF RequestFails
    <3> QED BY <1>2, <1>12, <3>1, <3>2 DEF RequestFails
  <2>2. CASE pc[r] # "expire"
    <3>1. LeakedCounters' \subseteq LeakedCounters BY <1>12, <2>2 DEF RequestFails
    <3>2. StrandedRows' \subseteq StrandedRows \cup {r} BY <1>12 DEF RequestFails
    <3> QED BY <1>3, <1>12, <3>1, <3>2 DEF RequestFails
  <2> QED BY <2>1, <2>2
<1>13. ASSUME NEW r \in Requests, WorkerDies(r) PROVE LeaksNeedFaults'
  <2>1. LeakedCounters' \subseteq LeakedCounters /\ StrandedRows' \subseteq StrandedRows \cup {r}
    BY <1>13 DEF WorkerDies
  <2> QED BY <1>3, <1>13, <2>1 DEF WorkerDies
<1>14. ASSUME NEW r \in Requests,
              WorkerLoads(r) \/ WorkerStarts(r) \/ WorkerReports(r) \/ RowEndedElsewhere(r)
       PROVE  LeaksNeedFaults'
  BY <1>1, <1>14 DEF WorkerLoads, WorkerStarts, WorkerReports, RowEndedElsewhere
<1> QED BY <1>4, <1>5, <1>6, <1>7, <1>8, <1>9, <1>10, <1>11, <1>12, <1>13, <1>14 DEF Next

-----------------------------------------------------------------------------
(* The key                                                                 *)

LEMMA KeyStep ==
  KeyTyped /\ Next => KeyTyped' /\ (key.revoked => key'.revoked) /\ (key.used => key'.used)
<1> SUFFICES ASSUME KeyTyped, Next
             PROVE  KeyTyped' /\ (key.revoked => key'.revoked) /\ (key.used => key'.used)
  OBVIOUS
<1> USE DEF KeyTyped
<1>1. CASE CreateKey BY <1>1 DEF CreateKey, KeyRow
<1>2. CASE RevokeLoads BY <1>2 DEF RevokeLoads
<1>3. CASE RevokeCommits
  BY <1>3 DEF RevokeCommits, Flush, KeyRow, Unloaded
<1>4. ASSUME NEW r \in Requests, Insert(r)
      PROVE  KeyTyped' /\ (key.revoked => key'.revoked) /\ (key.used => key'.used)
  BY <1>4 DEF Insert, Flush, KeyRow
<1>5. CASE UNCHANGED keys BY <1>5 DEF keys
<1>6. (\E r \in Requests : Insert(r)) \/ UNCHANGED keys \/ CreateKey \/ RevokeLoads \/ RevokeCommits
  BY DEF Next, Authenticate, Incr, IncrReplayed, Incremented, Expire, CountActive, Route,
         Enqueue, EnqueueRaises, MarkEnqueueFailed, RequestFails, WorkerLoads, WorkerStarts,
         WorkerReports, WorkerDies, RowEndedElsewhere, NextMinute, Vanish
<1> QED BY <1>1, <1>2, <1>3, <1>4, <1>5, <1>6

-----------------------------------------------------------------------------
Inv ==
  /\ Typed
  /\ KeyTyped
  /\ Clock
  /\ Counts
  /\ Revivals
  /\ OvershootBounded
  /\ LeaksNeedFaults

LEMMA InvInit == Init => Inv
<1> SUFFICES ASSUME Init PROVE Inv OBVIOUS
<1> USE EphemeralAssumption DEF Init
<1>1. Typed BY DEF Typed, Minutes, Never, PC
<1>2. KeyTyped BY DEF KeyTyped, KeyRow, Unloaded
<1>3. Clock BY DEF Clock, Minutes, Never
<1>4. Counts BY DEF Counts, Minutes
<1>5. Revivals BY DEF Revivals
<1>6. OvershootBounded
  <2>1. Active = {} /\ Counted = {} /\ revived = {} BY DEF Active, Counted
  <2> QED BY <2>1, FS_EmptySet DEF OvershootBounded
<1>7. LeaksNeedFaults
  <2>1. LeakedCounters = {} /\ StrandedRows = {} BY DEF LeakedCounters, StrandedRows
  <2> QED BY <2>1, FS_EmptySet DEF LeaksNeedFaults
<1> QED BY <1>1, <1>2, <1>3, <1>4, <1>5, <1>6, <1>7 DEF Inv

LEMMA InvStep == Inv /\ [Next]_vars => Inv'
<1> SUFFICES ASSUME Inv, [Next]_vars PROVE Inv' OBVIOUS
<1>1. CASE Next
  BY <1>1, TypedStep, KeyStep, ClockStep, CountsStep, RevivalsStep, OvershootStep, LeaksStep
     DEF Inv
<1>2. CASE UNCHANGED vars
  BY <1>2 DEF Inv, Typed, KeyTyped, Clock, Counts, Revivals, OvershootBounded, LeaksNeedFaults,
              Active, Counted, LeakedCounters, StrandedRows, vars, limiter, keys, history
<1> QED BY <1>1, <1>2

THEOREM Invariance == Spec => []Inv
BY InvInit, InvStep, PTL DEF Spec

THEOREM TypeCorrect == Spec => []TypeOK
<1>1. Inv => TypeOK BY DEF Inv, Typed, KeyTyped, Counts, TypeOK
<1> QED BY <1>1, Invariance, PTL

\* The concurrency limit is exceeded by no more executions than requests had
\* counted at the same time, and revived ones, for any limit.
THEOREM OvershootIsBounded == Spec => []OvershootBounded
BY Invariance, PTL DEF Inv

\* Each leak has a fault of its own, for any number of faults.
THEOREM LeaksHaveFaults == Spec => []LeaksNeedFaults
BY Invariance, PTL DEF Inv

\* The rate limit holds for every counter, whatever is lost or replayed.
THEOREM RateIsBounded == Spec => []RateBounded
<1>1. Inv => RateBounded
  <2> SUFFICES ASSUME Inv, NEW m \in Minutes
               PROVE  Cardinality({r \in Ephemeral :
                        bucket[r] = m /\ count[r] \in 1 .. RateLimit}) <= RateLimit
    BY DEF RateBounded
  <2> DEFINE S == {r \in Ephemeral : bucket[r] = m /\ count[r] \in 1 .. RateLimit}
             T == 1 .. RateLimit
             f == [r \in S |-> count[r]]
  <2>1. IsFiniteSet(S) /\ Cardinality(S) \in Nat
    BY EphemeralAssumption, EphemeralFinite
  <2>2. IsFiniteSet(T) /\ Cardinality(T) = RateLimit
    BY EphemeralAssumption, FS_Interval
  <2>3. f \in [S -> T] OBVIOUS
  <2>4. \A x, y \in S : x # y => f[x] # f[y]
    BY EphemeralAssumption DEF Inv, Counts, Typed
  <2>5. ~(Cardinality(T) < Cardinality(S))
    <3> HIDE DEF S, T, f
    <3> QED BY <2>1, <2>2, <2>3, <2>4, FS_PigeonHole
  <2> HIDE DEF S, T
  <2>6. Cardinality(S) <= RateLimit BY <2>1, <2>2, <2>5, EphemeralAssumption
  <2> QED BY <2>6 DEF S
<1> QED BY <1>1, Invariance, PTL

\* No unit of work takes back what another wrote to the key.
THEOREM KeyIsSafe == Spec => KeyColumnsStick
<1>1. Inv /\ [Next]_vars => (key.revoked => key'.revoked) /\ (key.used => key'.used)
  BY KeyStep DEF Inv, vars, keys
<1> QED BY <1>1, Invariance, PTL DEF Spec, KeyColumnsStick

=============================================================================
