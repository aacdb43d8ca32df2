------------------------- MODULE ExecutionLifecycle -------------------------
(***************************************************************************)
(* The life of an execution row, as shared/db/models.py states it: the     *)
(* seven statuses of ExecutionStatus and the table VALID_TRANSITIONS that  *)
(* Execution.transition_to consults.  "ABSENT" stands for a row that has   *)
(* not been inserted yet.                                                  *)
(*                                                                         *)
(* This is the abstract specification that ExecutionPipeline is compared   *)
(* with: it promises that a row is born QUEUED, that each later change of  *)
(* its status is one the table allows, and hence that a terminal status is *)
(* final.  One step may move several rows, because the stale-recovery      *)
(* transaction of the worker commits several rows at once.                 *)
(***************************************************************************)

CONSTANT Execs                  \* executions

VARIABLE status                 \* status[e] : the status column of row e

Terminal == {"COMPLETED", "FAILED", "TIMED_OUT", "CANCELLED"}

Status == {"ABSENT", "PENDING", "QUEUED", "RUNNING"} \cup Terminal

\* VALID_TRANSITIONS; the terminal statuses have no successor.
ValidTransitions ==
  {<<"PENDING", "QUEUED">>, <<"PENDING", "CANCELLED">>,
   <<"QUEUED", "RUNNING">>, <<"QUEUED", "CANCELLED">>, <<"QUEUED", "FAILED">>,
   <<"RUNNING", "COMPLETED">>, <<"RUNNING", "FAILED">>,
   <<"RUNNING", "TIMED_OUT">>, <<"RUNNING", "CANCELLED">>}

\* validate_transition raises nothing
CanMove(from, to) == <<from, to>> \in ValidTransitions

-----------------------------------------------------------------------------

\* Every writer inserts the row as QUEUED (no code path inserts PENDING).
Birth(from, to) == from = "ABSENT" /\ to = "QUEUED"

LifecycleStep(from, to) == from = to \/ Birth(from, to) \/ CanMove(from, to)

Init == status = [e \in Execs |-> "ABSENT"]

Next == /\ status' \in [Execs -> Status]
        /\ \A e \in Execs : LifecycleStep(status[e], status'[e])

Spec == Init /\ [][Next]_status
=============================================================================
