----------------------------- MODULE MCCodeUpdate -----------------------------
(***************************************************************************)
(* CodeUpdate on small instances.  A behaviour follows one scenario:       *)
(* "reported", two requests for one repository whose launches collide and  *)
(* whose answers may be lost, or "faulty", one request with every fault,   *)
(* as many deliveries as the queue makes and more than one progress post.  *)
(***************************************************************************)
EXTENDS CodeUpdate, TLC

CONSTANTS OneRequest, AllFaults

VARIABLE scenario

\* Every request is about the same repository.
OneRepo == [r \in Requests |-> CHOOSE repo \in Repos : TRUE]

Faulty == INSTANCE CodeUpdate WITH Requests <- OneRequest, Faults <- AllFaults

MCInit == Init /\ scenario \in {"reported", "faulty"}

MCNext ==
  /\ \/ scenario = "reported" /\ Next
     \/ scenario = "faulty" /\ Faulty!Next
  /\ UNCHANGED scenario

MCSpec == MCInit /\ [][MCNext]_<<vars, scenario>> /\ Fairness

\* While workers are not killed and mails are not lost, every request that was
\* queued is eventually reported to the owner, as started or as failed, or is
\* kept in the dead-letter queue, also when the answer of its launch was lost.
Told ==
  \A r \in Requests :
    (scenario = "reported" /\ message[r] = "queued")
      ~> (mails[r] # {} \/ message[r] = "dead")
===============================================================================
