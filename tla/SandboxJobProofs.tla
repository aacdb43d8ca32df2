--------------------------- MODULE SandboxJobProofs ---------------------------
(***************************************************************************)
(* The clocks of SandboxJob are nested and its Job is cleaned up, for any  *)
(* timeout, any slack of the poll loop and of the worker, and any delays.  *)
(***************************************************************************)
EXTENDS SandboxOutcome, TLAPS

\* What has been seen and said at each step.
Progress ==
  /\ step \in {"check", "create", "poll"} => verdict = "none" /\ seen = "none"
  /\ step = "logs" => seen # "none"

\* execute spends its time on calls, until the poll loop is entered and after
\* it; the loop itself lasts no longer than its limit.
WorkerClock ==
  /\ step \in {"check", "create"} => now <= stalls
  /\ pollFrom <= stalls
  /\ Executing => now <= Timeout + PollSlack + stalls

\* As long as the loop polls, the Job is behind its schedule by no more than
\* the delays that were counted.
JobClock ==
  /\ start <= now
  /\ step = "poll" =>
       /\ job # "absent"
       /\ job = "created" => now <= pollFrom + late + stalls
       /\ start <= pollFrom + late + stalls
       /\ now <= pollFrom + Timeout + late + stalls

\* A deletion that was answered has left nothing, unless it was overtaken.
Swept ==
  step \in {"delete", "over"} =>
    /\ create = "sent" => excuses # {}
    /\ \/ excuses # {} \/ delete = "sent"
       \/ delete = "done" /\ job \in {"absent", "gone"}

\* The call that creates the Job comes first and is made once.
Sequence ==
  /\ step = "check" => create = "none" /\ job = "absent"
  /\ step = "create" => create # "none"
  /\ create = "done" <=> job # "absent"
  /\ step = "poll" => create = "done"

Inv ==
  /\ TypeOK
  /\ Progress
  /\ WorkerClock
  /\ JobClock
  /\ Swept
  /\ Sequence
  /\ InnermostClockDecides

-----------------------------------------------------------------------------
LEMMA InvInit == Init => Inv
BY SandboxAssumption
   DEF Classified, Init, Inv, TypeOK, Progress, WorkerClock, JobClock, Swept, Sequence,
       InnermostClockDecides, Steps, Ended, Verdicts, Executing

LEMMA InvUnmoved == Inv /\ UNCHANGED vars => Inv'
BY DEF Inv, TypeOK, Progress, WorkerClock, JobClock, Swept, Sequence,
       InnermostClockDecides, Classified, Executing,
       vars, worker, cluster, theJob

LEMMA InvStep ==
  ASSUME Inv, Next
  PROVE  Inv'
<1> USE SandboxAssumption
<1>i. /\ TypeOK /\ Progress /\ WorkerClock /\ JobClock /\ Swept /\ Sequence
      /\ InnermostClockDecides
  BY DEF Inv
<1> USE <1>i
<1>n. /\ now \in Nat /\ pollFrom \in Nat /\ start \in Nat
      /\ stalls \in Nat /\ late \in Nat
  BY DEF TypeOK
<1>1. CASE EnsureRuntimeClass
  BY <1>1 DEF EnsureRuntimeClass, Inv, TypeOK, Progress, WorkerClock, JobClock, Swept, Sequence,
         InnermostClockDecides, Classified, Executing, Steps, Ended, Verdicts, worker, cluster, theJob
<1>2. CASE CreateReturns
  <2> USE <1>2 DEF CreateReturns, worker, cluster, theJob
  <2>1. TypeOK' BY DEF TypeOK, Steps, Ended, Verdicts, Classified
  <2>2. Progress' BY DEF TypeOK, Progress
  <2>3. WorkerClock' BY DEF TypeOK, WorkerClock, Executing
  <2>4. JobClock'
    <3>1. start <= now /\ job # "absent" BY DEF JobClock, Sequence, CreateReturns
    <3>2. /\ pollFrom' = now /\ now' = now /\ start' = start /\ job' = job
          /\ late' = late /\ stalls' = stalls
      BY DEF CreateReturns
    <3> QED BY <1>n, <3>1, <3>2 DEF JobClock
  <2>5. Swept' BY DEF TypeOK, Swept, Sequence, Steps
  <2>6. Sequence' BY DEF TypeOK, Sequence
  <2>7. InnermostClockDecides' BY DEF TypeOK, InnermostClockDecides, Executing, WorkerClock, JobClock
  <2> QED BY <2>1, <2>2, <2>3, <2>4, <2>5, <2>6, <2>7 DEF Inv
<1>3. CASE CallRaises
  BY <1>3 DEF CallRaises, Cleanup, Overtaken, Inv, TypeOK, Progress, WorkerClock, JobClock, Swept, Sequence,
         InnermostClockDecides, Classified, Executing, Steps, Ended, Verdicts, worker, cluster, theJob
<1>4. CASE PollSeesEnd
  BY <1>4 DEF PollSeesEnd, PollDeadline, Inv, TypeOK, Progress, WorkerClock, JobClock, Swept, Sequence,
         InnermostClockDecides, Classified, Executing, Steps, Ended, Verdicts, worker, cluster, theJob
<1>5. CASE PollSeesNothing
  BY <1>5 DEF PollSeesNothing, Cleanup, Inv, TypeOK, Progress, WorkerClock, JobClock, Swept, Sequence,
         InnermostClockDecides, Classified, Executing, Steps, Ended, Verdicts, worker, cluster, theJob
<1>6. CASE PollGivesUp
  <2>a. now >= pollFrom + Timeout + PollSlack BY <1>6 DEF PollGivesUp, PollDeadline
  <2>b. now <= pollFrom + Timeout + late + stalls BY <1>6 DEF JobClock, PollGivesUp
  <2>c. stalls + late >= PollSlack BY <1>n, <2>a, <2>b
  <2> USE <1>6 DEF PollGivesUp, Cleanup, PollDeadline, worker, cluster, theJob
  <2>1. TypeOK' BY DEF TypeOK, Steps, Ended, Verdicts, Classified
  <2>2. Progress' BY DEF TypeOK, Progress
  <2>3. WorkerClock' BY DEF TypeOK, WorkerClock, Executing
  <2>4. JobClock' BY DEF TypeOK, JobClock, Sequence, Ended
  <2>5. Swept' BY DEF TypeOK, Swept, Sequence, Steps
  <2>6. Sequence' BY DEF TypeOK, Sequence
  <2>7. InnermostClockDecides' BY <2>c DEF InnermostClockDecides
  <2> QED BY <2>1, <2>2, <2>3, <2>4, <2>5, <2>6, <2>7 DEF Inv
<1>7. CASE LogsFetched
  BY <1>7 DEF LogsFetched, Cleanup, Inv, TypeOK, Progress, WorkerClock, JobClock, Swept, Sequence,
         InnermostClockDecides, Classified, Executing, Steps, Ended, Verdicts, worker, cluster, theJob
<1>8. CASE CleanupEnds
  <2>u. UNCHANGED <<now, pollFrom, seen, verdict, create, theJob, stalls, late>>
        /\ step = "delete" /\ step' = "over"
    BY <1>8 DEF CleanupEnds
  <2> USE <2>u DEF theJob
  <2>1. CASE delete = "done" /\ UNCHANGED <<delete, excuses>>
    BY <2>1 DEF Inv, TypeOK, Progress, WorkerClock, JobClock, Swept, Sequence,
                InnermostClockDecides, Classified, Executing, Steps
  <2>2. CASE delete' = "none" /\ excuses' = excuses \cup {"undeleted"}
    <3>1. "undeleted" \in excuses' BY <2>2
    <3>2. TypeOK' BY <2>2 DEF TypeOK, Steps, Classified
    <3>3. Swept' BY <3>1 DEF Swept
    <3> QED BY <3>2, <3>3 DEF Inv, Progress, WorkerClock, JobClock, Sequence,
                              InnermostClockDecides, Executing
  <2> QED BY <1>8, <2>1, <2>2 DEF CleanupEnds
<1>9. CASE WaitForExpires
  <2>a. now >= Timeout + WorkerSlack BY <1>9 DEF WaitForExpires, WorkerDeadline
  <2>b. now <= Timeout + PollSlack + stalls BY <1>9 DEF WorkerClock, WaitForExpires
  <2>c. stalls + PollSlack >= WorkerSlack BY <1>n, <2>a, <2>b
  <2> USE <1>9 DEF WaitForExpires, Abandoned, Overtaken, Cleanup, WorkerDeadline, worker, cluster, theJob
  <2>1. TypeOK' BY DEF TypeOK, Steps, Ended, Verdicts, Classified
  <2>2. Progress' BY DEF TypeOK, Progress
  <2>3. WorkerClock' BY DEF TypeOK, WorkerClock, Executing
  <2>4. JobClock' BY DEF TypeOK, JobClock, Sequence, Ended
  <2>5. Swept' BY DEF TypeOK, Swept, Sequence, Steps
  <2>6. Sequence' BY DEF TypeOK, Sequence
  <2>7. InnermostClockDecides' BY <2>c DEF InnermostClockDecides
  <2> QED BY <2>1, <2>2, <2>3, <2>4, <2>5, <2>6, <2>7 DEF Inv
<1>10. CASE Shutdown
  BY <1>10 DEF Shutdown, Abandoned, Overtaken, Cleanup, Inv, TypeOK, Progress, WorkerClock, JobClock, Swept, Sequence,
         InnermostClockDecides, Classified, Executing, Steps, Ended, Verdicts, worker, cluster, theJob
<1>11. CASE WorkerDies
  BY <1>11 DEF WorkerDies, Inv, TypeOK, Progress, WorkerClock, JobClock, Swept, Sequence,
         InnermostClockDecides, Classified, Executing, Steps, Ended, Verdicts, worker, cluster, theJob
<1>12. CASE CreateApplies
  BY <1>12 DEF CreateApplies, Inv, TypeOK, Progress, WorkerClock, JobClock, Swept, Sequence,
         InnermostClockDecides, Classified, Executing, Steps, Ended, Verdicts, worker, cluster, theJob
<1>13. CASE CreateIsLost
  BY <1>13 DEF CreateIsLost, Inv, TypeOK, Progress, WorkerClock, JobClock, Swept, Sequence,
         InnermostClockDecides, Classified, Executing, Steps, Ended, Verdicts, worker, cluster, theJob
<1>14. CASE DeleteApplies
  BY <1>14 DEF DeleteApplies, Inv, TypeOK, Progress, WorkerClock, JobClock, Swept, Sequence,
         InnermostClockDecides, Classified, Executing, Steps, Ended, Verdicts, worker, cluster, theJob
<1>20. CASE DeleteIsLost
  <2>u. /\ UNCHANGED <<now, pollFrom, seen, step, verdict, create, theJob, stalls, late>>
        /\ step # "delete" /\ delete' = "none"
        /\ excuses' = excuses \cup {"undeleted"}
    BY <1>20 DEF DeleteIsLost, worker
  <2> USE <2>u DEF theJob
  <2>1. "undeleted" \in excuses' OBVIOUS
  <2>2. TypeOK' BY DEF TypeOK, Classified
  <2>3. Swept' BY <2>1 DEF Swept
  <2> QED BY <2>2, <2>3 DEF Inv, Progress, WorkerClock, JobClock, Sequence,
                            InnermostClockDecides, Executing
<1>15. CASE JobStarts
  <2> USE <1>15 DEF JobStarts, worker, cluster, theJob
  <2>1. TypeOK' BY DEF TypeOK, Steps, Ended, Verdicts, Classified
  <2>2. Progress' BY DEF TypeOK, Progress
  <2>3. WorkerClock' BY DEF TypeOK, WorkerClock, Executing
  <2>4. JobClock'
    <3>1. /\ start' = now /\ now' = now /\ job' = "running" /\ job = "created"
          /\ pollFrom' = pollFrom /\ late' = late /\ stalls' = stalls /\ step' = step
      BY DEF JobStarts
    <3> QED BY <1>n, <3>1 DEF JobClock
  <2>5. Swept' BY DEF TypeOK, Swept, Sequence, Steps
  <2>6. Sequence' BY DEF TypeOK, Sequence
  <2>7. InnermostClockDecides' BY DEF TypeOK, InnermostClockDecides, Executing, WorkerClock, JobClock
  <2> QED BY <2>1, <2>2, <2>3, <2>4, <2>5, <2>6, <2>7 DEF Inv
<1>16. CASE DeadlineExceeded
  BY <1>16 DEF DeadlineExceeded, JobEnds, Inv, TypeOK, Progress, WorkerClock, JobClock, Swept, Sequence,
         InnermostClockDecides, Classified, Executing, Steps, Ended, Verdicts, worker, cluster, theJob
<1>17. CASE Expires
  BY <1>17 DEF Expires, Inv, TypeOK, Progress, WorkerClock, JobClock, Swept, Sequence,
         InnermostClockDecides, Classified, Executing, Steps, Ended, Verdicts, worker, cluster, theJob
<1>18. CASE PodEnds
  <2>1. CASE JobEnds("succeeded")
    BY <2>1 DEF JobEnds, Inv, TypeOK, Progress, WorkerClock, JobClock, Swept, Sequence,
           InnermostClockDecides, Classified, Executing, Steps, Ended, worker, cluster, theJob
  <2>2. CASE JobEnds("failed")
    BY <2>2 DEF JobEnds, Inv, TypeOK, Progress, WorkerClock, JobClock, Swept, Sequence,
           InnermostClockDecides, Classified, Executing, Steps, Ended, worker, cluster, theJob
  <2> QED BY <1>18, <2>1, <2>2 DEF PodEnds
<1>19. CASE Tick
  <2>1. now' = now + 1 BY <1>19 DEF Tick
  <2> DEFINE s == IF Stalling THEN 1 ELSE 0
             l == IF Late THEN 1 ELSE 0
  <2>s. (Stalling => s = 1) /\ (~Stalling => s = 0) OBVIOUS
  <2>l. (Late => l = 1) /\ (~Late => l = 0) OBVIOUS
  <2> HIDE DEF s, l
  <2>c. stalls' = stalls + s /\ late' = late + l /\ s \in Nat /\ l \in Nat
    <3>1. stalls' = stalls + s /\ s \in Nat
      <4>1. CASE Stalling
        <5>1. stalls' = stalls + 1 /\ s = 1 BY <1>19, <2>s, <4>1 DEF Tick
        <5> QED BY <5>1
      <4>2. CASE ~Stalling
        <5>1. stalls' = stalls /\ s = 0 BY <1>19, <2>s, <4>2 DEF Tick
        <5> QED BY <1>n, <5>1
      <4> QED BY <4>1, <4>2
    <3>2. late' = late + l /\ l \in Nat
      <4>1. CASE Late
        <5>1. late' = late + 1 /\ l = 1 BY <1>19, <2>l, <4>1 DEF Tick
        <5> QED BY <5>1
      <4>2. CASE ~Late
        <5>1. late' = late /\ l = 0 BY <1>19, <2>l, <4>2 DEF Tick
        <5> QED BY <1>n, <5>1
      <4> QED BY <4>1, <4>2
    <3> QED BY <3>1, <3>2
  <2>3. UNCHANGED <<worker, cluster, excuses>> BY <1>19 DEF Tick
  <2>p. /\ step' = step /\ pollFrom' = pollFrom /\ seen' = seen /\ verdict' = verdict
        /\ create' = create /\ delete' = delete
        /\ job' = job /\ start' = start /\ end' = end /\ excuses' = excuses
    BY <2>3 DEF worker, cluster, theJob
  <2>4. TypeOK'
    <3>1. now' \in Nat /\ stalls' \in Nat /\ late' \in Nat BY <1>n, <2>1, <2>c
    <3>2. excuses' \subseteq {"overtaken", "undeleted"} BY <2>p DEF TypeOK
    <3>3. Classified' = Classified BY <2>p DEF Classified
    <3> QED BY <2>p, <3>1, <3>2, <3>3 DEF TypeOK
  <2>5. Progress' /\ Swept' /\ Sequence'
    BY <2>3 DEF Progress, Swept, Sequence, worker, cluster, theJob
  <2>6. WorkerClock'
    <3>1. pollFrom <= stalls BY DEF WorkerClock
    <3>2. pollFrom <= stalls' BY <1>n, <2>c, <3>1
    <3>3. ASSUME step \in {"check", "create"} PROVE now' <= stalls'
      <4>1. now <= stalls BY <3>3 DEF WorkerClock
      <4>2. s = 1 BY <2>s, <3>3 DEF Stalling
      <4> QED BY <1>n, <2>1, <2>c, <4>1, <4>2
    <3>4. ASSUME Executing PROVE now' <= Timeout + PollSlack + stalls'
      <4>1. now <= Timeout + PollSlack + stalls BY <3>4 DEF WorkerClock
      <4>2. CASE Stalling
        <5>1. s = 1 BY <4>2, <2>s
        <5> QED BY <1>n, <2>1, <2>c, <4>1, <5>1
      <4>3. CASE ~Stalling
        <5>1. ~(now >= pollFrom + Timeout + PollSlack)
          BY <3>4, <4>3 DEF Stalling, Executing, PollDeadline
        <5> QED BY <1>n, <2>1, <2>c, <3>2, <5>1
      <4> QED BY <4>2, <4>3
    <3> QED BY <2>p, <3>2, <3>3, <3>4 DEF WorkerClock, Executing
  <2>7. JobClock'
    <3>1. start <= now BY DEF JobClock
    <3>2. start <= now' BY <1>n, <2>1, <3>1
    <3>3. ASSUME step = "poll"
          PROVE  /\ job # "absent"
                 /\ job = "created" => now' <= pollFrom + late' + stalls'
                 /\ start <= pollFrom + late' + stalls'
                 /\ now' <= pollFrom + Timeout + late' + stalls'
      <4>1. /\ job # "absent"
            /\ job = "created" => now <= pollFrom + late + stalls
        BY <3>3 DEF JobClock
      <4>2. start <= pollFrom + late + stalls BY <3>3 DEF JobClock
      <4>3. now <= pollFrom + Timeout + late + stalls BY <3>3 DEF JobClock
      <4>4. start <= pollFrom + late' + stalls' BY <1>n, <2>c, <4>2
      <4>5. ASSUME job = "created" PROVE now' <= pollFrom + late' + stalls'
        <5>1. now <= pollFrom + late + stalls BY <4>1, <4>5
        <5>2. l = 1 BY <2>l, <4>5 DEF Late
        <5> QED BY <1>n, <2>1, <2>c, <5>1, <5>2
      <4>6. now' <= pollFrom + Timeout + late' + stalls'
        <5>1. CASE Late
          <6>1. l = 1 BY <2>l, <5>1
          <6> QED BY <1>n, <2>1, <2>c, <4>3, <6>1
        <5>2. CASE Stalling
          <6>1. s = 1 BY <2>s, <5>2
          <6> QED BY <1>n, <2>1, <2>c, <4>3, <6>1
        <5>3. CASE ~Late /\ ~Stalling
          <6>1. job = "running"
            BY <3>3, <4>1, <5>3 DEF Late, Stalling, TypeOK, Ended
          <6>2. ~(now >= start + Timeout) BY <5>3, <6>1 DEF Late
          <6> QED BY <1>n, <2>1, <2>c, <4>4, <6>2
        <5> QED BY <5>1, <5>2, <5>3
      <4> QED BY <4>1, <4>4, <4>5, <4>6
    <3> QED BY <2>p, <3>2, <3>3 DEF JobClock
  <2>8. InnermostClockDecides'
    <3>1. ASSUME verdict = "poll_timeout" PROVE stalls' + late' >= PollSlack
      <4>1. stalls + late >= PollSlack BY <3>1 DEF InnermostClockDecides
      <4> QED BY <1>n, <2>c, <4>1
    <3>2. ASSUME verdict = "worker_timeout" PROVE stalls' + PollSlack >= WorkerSlack
      <4>1. stalls + PollSlack >= WorkerSlack BY <3>2 DEF InnermostClockDecides
      <4> QED BY <1>n, <2>c, <4>1
    <3> QED BY <2>p, <3>1, <3>2 DEF InnermostClockDecides
  <2> QED BY <2>4, <2>5, <2>6, <2>7, <2>8 DEF Inv
<1>q. QED BY <1>1, <1>2, <1>3, <1>4, <1>5, <1>6, <1>7, <1>8, <1>9, <1>10, <1>11, <1>12, <1>13, <1>14, <1>15, <1>16, <1>17, <1>18, <1>19, <1>20
     DEF Next, Coroutine, Calls, Controller

THEOREM Invariance == Spec => []Inv
<1>1. Inv /\ [Next]_vars => Inv' BY InvStep, InvUnmoved
<1> QED BY <1>1, InvInit, PTL DEF Spec

\* The type invariant.
THEOREM TypeCorrect == Spec => []TypeOK
BY Invariance, PTL DEF Inv

\* The poll loop and the worker give up only when the control plane and the API
\* were late by the slack each of them grants: for every timeout and every
\* slack, in k8s_sandbox.py:288-318 and worker.py:141-152.
THEOREM ClocksAreNested == Spec => []InnermostClockDecides
BY Invariance, PTL DEF Inv

\* No Job is left behind by execute, but for a failed or lost deletion, a dead worker or
\* a creation that overtakes the deletion.
THEOREM CleanedUp == Spec => []NoJobLeft
<1>1. Inv => NoJobLeft BY DEF Inv, Swept, NoJobLeft
<1> QED BY <1>1, Invariance, PTL

\* When recovery would take the row for stale (worker.py:268-275) and the
\* worker is still in execute.
Overrunning(grace) == Executing /\ now >= 2 * Timeout + grace

\* A worker outlives the stale deadline only if calls of the API used up the
\* timeout and the grace, but for the slack of the poll loop: what
\* ExecutionPipeline calls Overrun takes a fault of the cluster.
THEOREM OverrunTakesStalls ==
  ASSUME NEW grace \in Nat
  PROVE  Spec => [](Overrunning(grace) => stalls + PollSlack >= Timeout + grace)
<1>1. Inv => (Overrunning(grace) => stalls + PollSlack >= Timeout + grace)
  <2> SUFFICES ASSUME Inv, Overrunning(grace)
               PROVE  stalls + PollSlack >= Timeout + grace
    OBVIOUS
  <2>1. now <= Timeout + PollSlack + stalls
    BY DEF Inv, WorkerClock, Overrunning
  <2>2. now >= 2 * Timeout + grace BY DEF Overrunning
  <2>3. now \in Nat /\ stalls \in Nat BY DEF Inv, TypeOK
  <2>4. Timeout \in Nat /\ PollSlack \in Nat BY SandboxAssumption DEF SandboxAssumption
  <2> HIDE DEF Overrunning
  <2> QED BY <2>1, <2>2, <2>3, <2>4, SMT
<1> QED BY <1>1, Invariance, PTL

-----------------------------------------------------------------------------
(* The execution is one step of the pipeline.                              *)

\* A timeout is a timeout: whatever ends the Job or the loop because of its time
\* does so when the timeout has passed since execute was called.
Timely ==
  /\ "deadline" \in {job, seen} => now >= Timeout
  /\ verdict \in {"timed_out", "poll_timeout"} => now >= Timeout
  /\ verdict = "poll_timeout" => seen = "none"

\* A verdict is given once the loop is left, and what was seen stays seen.
LEMMA VerdictMoves ==
  ASSUME Inv, Next
  PROVE  \/ verdict' = verdict /\ seen' = seen
         \/ verdict' = "none" /\ seen' \in {seen, job}
         \/ verdict' \in {"infra", "worker_timeout"} /\ seen' = seen
         \/ verdict' = Classified /\ seen' = seen
         \/ verdict' = "poll_timeout" /\ seen' = "none" /\ now >= Timeout
<1>n. now \in Nat /\ pollFrom \in Nat /\ Timeout \in Nat /\ PollSlack \in Nat
  BY SandboxAssumption DEF Inv, TypeOK
<1>1. CASE PollGivesUp
  <2>1. now >= pollFrom + Timeout + PollSlack
    BY <1>1 DEF PollGivesUp, PollDeadline
  <2>2. now >= Timeout
    BY <1>n, <2>1
  <2>3. verdict' = "poll_timeout" /\ seen' = seen /\ step = "poll"
    BY <1>1 DEF PollGivesUp, Cleanup
  <2>4. seen = "none"
    BY <2>3 DEF Inv, Progress
  <2> QED
    BY <2>2, <2>3, <2>4
<1>2. CASE LogsFetched
  BY <1>2 DEF LogsFetched, Cleanup
<1>3. CASE PollSeesEnd
  <2>1. seen' = job /\ verdict' = verdict /\ step = "poll"
    BY <1>3 DEF PollSeesEnd
  <2>2. verdict = "none"
    BY <2>1 DEF Inv, Progress
  <2> QED
    BY <2>1, <2>2
<1>4. CASE \/ EnsureRuntimeClass \/ CreateReturns \/ CallRaises \/ PollSeesNothing
           \/ CleanupEnds \/ WaitForExpires \/ Shutdown \/ WorkerDies
  BY <1>4 DEF EnsureRuntimeClass, CreateReturns, CallRaises, PollSeesNothing, Cleanup,
              CleanupEnds, WaitForExpires, Shutdown, WorkerDies, Abandoned
<1>5. CASE Calls \/ Controller \/ PodEnds \/ Tick
  BY <1>5 DEF Calls, CreateApplies, CreateIsLost, DeleteApplies, DeleteIsLost, Controller, JobStarts,
              DeadlineExceeded, Expires, PodEnds, JobEnds, Tick, worker
<1> QED
  BY <1>1, <1>2, <1>3, <1>4, <1>5 DEF Next, Coroutine

\* The Job ends by its deadline when the timeout has passed, and no clock runs back.
LEMMA DeadlineTakesTime ==
  ASSUME Inv, Next
  PROVE  /\ now' \in Nat /\ now' >= now
         /\ job' = "deadline" => job = "deadline" \/ now >= Timeout
<1>n. now \in Nat /\ start \in Nat /\ Timeout \in Nat
  BY SandboxAssumption DEF Inv, TypeOK
<1>1. CASE Tick
  <2>1. now' = now + 1 /\ job' = job
    BY <1>1 DEF Tick, cluster, theJob
  <2> QED
    BY <1>n, <2>1
<1>2. CASE Coroutine \/ Shutdown \/ WorkerDies
  <2>1. now' = now /\ job' = job
    BY <1>2 DEF Coroutine, EnsureRuntimeClass, CreateReturns, CallRaises, PollSeesEnd,
                PollSeesNothing, PollGivesUp, LogsFetched, CleanupEnds, WaitForExpires,
                Shutdown, WorkerDies, Abandoned, cluster, theJob
  <2> QED
    BY <1>n, <2>1
<1>3. CASE DeadlineExceeded
  <2>1. now >= start + Timeout /\ now' = now
    BY <1>3 DEF DeadlineExceeded, JobEnds
  <2> QED
    BY <1>n, <2>1
<1>4. CASE Calls \/ JobStarts \/ Expires \/ PodEnds
  <2>1. now' = now /\ (job' = "deadline" => job = "deadline")
    BY <1>4 DEF Calls, CreateApplies, CreateIsLost, DeleteApplies, DeleteIsLost, JobStarts, Expires,
                PodEnds, JobEnds, theJob
  <2> QED
    BY <1>n, <2>1
<1> QED
  BY <1>1, <1>2, <1>3, <1>4 DEF Next, Controller

LEMMA TimelyStep ==
  ASSUME Inv, Timely, Next
  PROVE  Timely'
<1>n. now \in Nat /\ Timeout \in Nat
  BY SandboxAssumption DEF Inv, TypeOK
<1>1. now' \in Nat /\ now' >= now
  BY DeadlineTakesTime
<1>2. now >= Timeout => now' >= Timeout
  BY <1>n, <1>1
<1>3. job' = "deadline" => now' >= Timeout
  BY <1>2, DeadlineTakesTime DEF Timely
<1>4. seen' = "deadline" => now' >= Timeout
  BY <1>2, <1>3, VerdictMoves DEF Timely
<1>5. verdict' \in {"timed_out", "poll_timeout"} => now' >= Timeout
  BY <1>2, VerdictMoves DEF Timely, Classified
<1>6. verdict' = "poll_timeout" => seen' = "none"
  BY VerdictMoves DEF Timely, Classified
<1> QED
  BY <1>3, <1>4, <1>5, <1>6 DEF Timely

\* execute is left once: after that nothing moves but the cluster and the clock.
LEMMA LeftOnce ==
  ASSUME Inv, Next
  PROVE  \/ Executing /\ Executing'
         \/ Executing /\ step' \in {"over", "dead"}
         \/ step \in {"over", "dead"} /\ UNCHANGED <<step, verdict>>
<1>1. step \in {"over", "dead"} \/ Executing
  BY DEF Inv, TypeOK, Steps, Executing
<1>2. CASE WorkerDies
  BY <1>2 DEF WorkerDies
<1>3. CASE Coroutine \/ Shutdown
  BY <1>3 DEF Coroutine, EnsureRuntimeClass, CreateReturns, CallRaises, PollSeesEnd,
              PollSeesNothing, PollGivesUp, LogsFetched, CleanupEnds, WaitForExpires,
              Shutdown, Abandoned, Cleanup, Executing
<1>4. CASE Calls \/ Controller \/ PodEnds \/ Tick
  BY <1>1, <1>4 DEF Calls, CreateApplies, CreateIsLost, DeleteApplies, DeleteIsLost, Controller, JobStarts,
              DeadlineExceeded, Expires, PodEnds, JobEnds, Tick, worker, Executing
<1> QED
  BY <1>2, <1>3, <1>4 DEF Next

LEMMA TruthHolds == Inv /\ Timely => OutcomeIsTrue
<1> SUFFICES ASSUME Inv, Timely PROVE OutcomeIsTrue
  OBVIOUS
<1>1. seen # "none" => job \in {seen, "gone"}
  BY DEF Inv, TypeOK
<1>2. /\ verdict \in Verdicts /\ seen \in {"none"} \cup Ended
      /\ verdict \in {"success", "failed", "timed_out"} => seen # "none" /\ verdict = Classified
  BY DEF Inv, TypeOK
<1>3. CASE ~Reported
  BY <1>1, <1>3 DEF OutcomeIsTrue, OutcomeOfWorker
<1>4. CASE Reported
  <2>1. OutcomeOfWorker = Outcome(verdict)
    BY <1>4 DEF OutcomeOfWorker
  <2>2. /\ verdict = "success" <=> Outcome(verdict) = "success"
        /\ verdict = "failed" <=> Outcome(verdict) = "handler_error"
        /\ verdict \in {"timed_out", "poll_timeout"} <=> Outcome(verdict) = "timed_out"
    BY <1>2, <1>4 DEF Outcome, Verdicts, Reported
  <2> QED
    BY <1>1, <1>2, <2>1, <2>2 DEF OutcomeIsTrue, Timely, Classified, Ended
<1> QED
  BY <1>3, <1>4

LEMMA StepOfThePipeline ==
  ASSUME Inv, OutcomeIsTrue', verdict' \in Verdicts, Next
  PROVE  \/ P!SandboxEnds("w") /\ OutcomeIsTrue'
         \/ P!Abort("w")
         \/ UNCHANGED P!vars
<1>1. CASE PlaceOfWorker' = PlaceOfWorker /\ OutcomeOfWorker' = OutcomeOfWorker /\ Aborted' = Aborted
  BY <1>1 DEF P!vars
<1>2. CASE Executing /\ Reported'
  <2>1. /\ PlaceOfWorker = "sandbox" /\ PlaceOfWorker' = "ran"
        /\ Aborted = FALSE /\ Aborted' = FALSE
        /\ OutcomeOfWorker = "none" /\ OutcomeOfWorker' = Outcome(verdict')
    BY <1>2 DEF PlaceOfWorker, Aborted, OutcomeOfWorker, Reported, Executing
  <2>2. Outcome(verdict') \in P!Outcomes
    BY <1>2 DEF Outcome, Reported, Verdicts, P!Outcomes
  <2>3. P!SandboxEnds("w")
    BY <2>1, <2>2 DEF P!SandboxEnds, P!Advance, P!history
  <2> QED
    BY <2>3
<1>3. CASE Executing /\ Aborted'
  <2>1. /\ PlaceOfWorker = "sandbox" /\ PlaceOfWorker' = "idle"
        /\ Aborted = FALSE /\ Aborted' = TRUE
        /\ OutcomeOfWorker = "none" /\ OutcomeOfWorker' = "none"
    BY <1>3 DEF PlaceOfWorker, Aborted, OutcomeOfWorker, Reported, Executing
  <2>2. P!AbsentRow = BlankRow
    BY DEF P!AbsentRow, BlankRow
  <2>3. P!GoIdle("w")
    <3>1. P!Advance("w", "idle")
      BY <2>1 DEF P!Advance
    <3> QED
      BY <2>1, <2>2, <3>1 DEF P!GoIdle
  <2>4. P!Abort("w")
    BY <2>1, <2>3 DEF P!Abort
  <2> QED
    BY <2>4
<1>4. CASE Executing /\ Executing'
  BY <1>1, <1>4 DEF PlaceOfWorker, Aborted, OutcomeOfWorker, Reported, Executing
<1>5. CASE UNCHANGED <<step, verdict>>
  BY <1>1, <1>5 DEF PlaceOfWorker, Aborted, OutcomeOfWorker, Reported
<1>6. step' \in {"over", "dead"} => Reported' \/ Aborted'
  BY DEF Reported, Aborted
<1> QED
  BY <1>2, <1>3, <1>4, <1>5, <1>6, LeftOnce

\* For the pipeline, execute in Kubernetes is one step (worker.py:141-164): for any
\* timeouts, slacks and delays it returns once, with an outcome that is true, or
\* the job is aborted and nothing is reported.
THEOREM ImplementsSandboxEnds == Spec => OneStepOfThePipeline
<1>1. Init => Timely /\ PlaceOfWorker = "sandbox"
  BY DEF Init, Timely, PlaceOfWorker, Reported, Aborted
<1>2. Inv /\ Timely /\ [Next]_vars => Timely'
  <2>1. UNCHANGED vars /\ Timely => Timely'
    BY DEF vars, worker, cluster, theJob, Timely
  <2> QED
    BY <2>1, TimelyStep
<1>p. Inv' /\ Timely' => OutcomeIsTrue'
  BY TruthHolds, PTL
<1>3. Inv /\ Timely /\ [Next]_vars /\ Inv' /\ Timely'
        => [(P!SandboxEnds("w") /\ OutcomeIsTrue') \/ P!Abort("w")]_(P!vars)
  <2> SUFFICES ASSUME Inv, Timely, [Next]_vars, Inv', Timely'
               PROVE  \/ P!SandboxEnds("w") /\ OutcomeIsTrue'
                      \/ P!Abort("w")
                      \/ UNCHANGED P!vars
    OBVIOUS
  <2>1. OutcomeIsTrue' /\ verdict' \in Verdicts
    BY <1>p DEF Inv, TypeOK
  <2>2. CASE Next
    BY <2>1, <2>2, StepOfThePipeline
  <2>3. CASE UNCHANGED vars
    BY <2>3 DEF vars, worker, P!vars, PlaceOfWorker, OutcomeOfWorker, Reported, Aborted
  <2> QED
    BY <2>2, <2>3
<1> QED
  BY <1>1, <1>2, <1>3, Invariance, PTL DEF Spec, OneStepOfThePipeline
=============================================================================
