----------------------------- MODULE MCScheduler -----------------------------
(* An instance of Scheduler for TLC. *)
EXTENDS Scheduler

CONSTANTS s1, r1, r2

OneSchedule == {s1}
TwoReplicas == {r1, r2}
Nobody == {}

\* A cron expression is the set of its occurrences.
MCCrons == {{2, 3, 6}, {4, 6}}
MCCronNext(c, t) == CHOOSE n \in c : n > t /\ \A m \in c : m > t => n <= m

=============================================================================
