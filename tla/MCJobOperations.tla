--------------------------- MODULE MCJobOperations ---------------------------
(***************************************************************************)
(* Jobs with every operation.  A behaviour follows one scenario: in        *)
(* "account" two requests for any operation meet a schedule, account       *)
(* events and a purge; in "commands" four requests for commands, which     *)
(* drop each other's receipts and outlive checkpoints, work on a manual    *)
(* job.  Request identifiers are interchangeable and are taken in order.   *)
(***************************************************************************)
EXTENDS MCJobs

CONSTANT FewRequests

VARIABLE scenario

Account == INSTANCE Jobs WITH Requests <- FewRequests, Schedules <- OneTimeOrRecurrence

Commands == INSTANCE Jobs WITH
  Ops <- {"run", "retry", "pause", "resume", "approve", "cancelRun"},
  Events <- {}, Schedules <- ManualOnly

\* A manual job and those of the first scenario.
AllSchedules == ManualOnly \cup OneTimeOrRecurrence

InOrder ==
  \A q \in Requests : q - 1 \in Requests /\ calls[q - 1] = NoCall => calls[q] = NoCall

MCInit == Init /\ scenario = IF birth.sched \in ManualOnly THEN "commands" ELSE "account"

MCNext ==
  /\ UNCHANGED scenario
  /\ \/ scenario = "account" /\ Account!Next
     \/ scenario = "commands" /\ Commands!Next
  /\ InOrder'

MCSpec == MCInit /\ [][MCNext]_<<vars, scenario>>

ProcSymmetry == Permutations(Procs)
===============================================================================
