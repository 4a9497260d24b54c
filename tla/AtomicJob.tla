------------------------------ MODULE AtomicJob ------------------------------
(***************************************************************************)
(* What the users of a job may rely on: the job behaves as one object on   *)
(* which every operation happens at a single instant.  A command succeeds  *)
(* at most once and only on the very version its author saw; ticks and     *)
(* expiries act on the current record; the account has to be active for    *)
(* all of these and inactive for a suspension.  Module Jobs implements     *)
(* this with processes that read and later write.                          *)
(*                                                                         *)
(* The clock, the account and the issued commands belong to the            *)
(* environment; an operation may have taken its time any while ago.        *)
(***************************************************************************)
EXTENDS JobRecord

CONSTANT NoCall  \* no command has been issued under a request identifier

VARIABLES rec, account, clock, birth, calls, done

Create ==
  /\ rec = NoRecord /\ account = "active"
  /\ \E t \in 0..clock : rec' = Created(birth.kind, birth.sched, t)
  /\ UNCHANGED done

Perform(q) ==
  /\ rec # NoRecord /\ account = "active"
  /\ q \notin done /\ calls[q] # NoCall /\ calls[q].version = rec.version
  /\ \E t \in 0..clock : \E e \in Mutated(calls[q], rec, t) : rec' = Stored(e.rec)
  /\ done' = done \cup {q}

Expire ==
  /\ rec # NoRecord /\ account = "active"
  /\ \E t \in 0..clock : hasExpired(rec, t) /\ rec' = Stored(Refreshed(rec, t))
  /\ UNCHANGED done

Tick ==
  /\ rec # NoRecord /\ account = "active"
  /\ \E t \in 0..clock : /\ isDue(rec, t)
                         /\ \E r \in Ticked(rec, t) : rec' = Stored(r)
  /\ UNCHANGED done

Suspend ==
  /\ rec # NoRecord /\ account # "active"
  /\ rec' = Stored(Suspended(rec))
  /\ UNCHANGED done

Remove == account = "deleting" /\ rec' = NoRecord /\ UNCHANGED done

Operation == Create \/ (\E q \in DOMAIN calls : Perform(q))
               \/ Expire \/ Tick \/ Suspend \/ Remove

Spec == rec = NoRecord /\ done = {} /\ [][Operation]_<<rec, done>>
===============================================================================
