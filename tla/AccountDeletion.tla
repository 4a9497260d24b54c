---------------------------- MODULE AccountDeletion ----------------------------
(***************************************************************************)
(* Deletion of a member's account.  The handler marks the profile and      *)
(* hands over to a purge that runs asynchronously and is started again     *)
(* when it fails; the purge lists the keys of the account's partition and  *)
(* deletes what it listed.  Other requests of the account, checked before  *)
(* the mark, may write to the partition at any time.  Lambda's event queue *)
(* and the mail queue are outside the program.                             *)
(***************************************************************************)
EXTENDS Naturals, FiniteSets

CONSTANTS
  Deletes,    \* DELETE requests
  Runs,       \* concurrent invocations of the purge
  Writers,    \* requests and sign-ins, each of which writes a row of its own
  Held,       \* rows the account has at first
  Profile,    \* the profile's row
  Attempts,   \* starts of a purge per event (3)
  MaxDeaths,  \* purges that die or fail
  Faults,     \* faults of the rest: "crash", "invoke", "marker", "mail"
  NoDelete

ASSUME InstanceAssumption ==
  /\ Held \cap Writers = {} /\ Profile \notin Held \cup Writers
  /\ Attempts \in Nat /\ MaxDeaths \in Nat
  /\ NoDelete \notin Deletes

VARIABLES
  profile,  \* status of the profile, "none" when its row is gone
  allowed,  \* whether the allowlist has an entry of the account
  rows,     \* the other rows of the account's partition
  delete,   \* what each DELETE request has come to
  event,    \* starts left of the purge each request has asked for
  run,      \* what each purge invocation is doing
  deaths,   \* purges that have died or failed
  writer,   \* what each writer has done
  marker,   \* whether the row that says the mail was sent exists
  mails,    \* confirmation mails sent by a run with and without a marker of its own
  old       \* history: the rows when the profile was first marked

vars == <<profile, allowed, rows, delete, event, run, deaths, writer, marker, mails, old>>

Row == Held \cup Writers

Rest == [pc |-> "rest", of |-> NoDelete, listed |-> {}]

Sending == {"sendMarked", "sendUnmarked"}

Answers == {"accepted", "rejected", "unavailable", "error"}

TypeOK ==
  /\ profile \in {"active", "suspended", "deleting", "none"}
  /\ allowed \in BOOLEAN
  /\ rows \subseteq Row
  /\ delete \in [Deletes -> {"new", "mark", "invoke"} \cup Answers]
  /\ event \in [Deletes -> 0..Attempts]
  /\ run \in [Runs -> [pc : {"rest", "phone", "list", "forget", "erase"} \cup Sending,
                       of : Deletes \cup {NoDelete}, listed : SUBSET (Row \cup {Profile})]]
  /\ \A p \in Runs : run[p].pc # "rest" => run[p].of \in Deletes
  /\ deaths \in 0..MaxDeaths
  /\ writer \in [Writers -> {"new", "checked", "done"}]
  /\ marker \in BOOLEAN
  /\ mails \in [Sending -> Nat]
  /\ old \subseteq Row

Init ==
  /\ profile = "active" /\ allowed = TRUE /\ rows = Held
  /\ delete = [d \in Deletes |-> "new"]
  /\ event = [d \in Deletes |-> 0]
  /\ run = [p \in Runs |-> Rest]
  /\ deaths = 0
  /\ writer = [w \in Writers |-> "new"]
  /\ marker = FALSE /\ mails = [k \in Sending |-> 0]
  /\ old = {}

account == <<profile, allowed, rows, old>>
purge == <<run, deaths, marker, mails>>

-----------------------------------------------------------------------------
(***************************************************************************)
(* The DELETE handler.                                                     *)
(***************************************************************************)
To(d, pc) == delete' = [delete EXCEPT ![d] = pc]

\* The profile is read afresh.
Read(d) ==
  /\ delete[d] = "new"
  /\ To(d, CASE profile = "active" -> "mark"
             [] profile = "suspended" -> "rejected"
             [] profile \in {"deleting", "none"} -> "accepted")
  /\ UNCHANGED <<account, event, purge, writer>>

\* A profile that is gone by now is not an error.  The cut-off of the tokens is
\* moved in the same step: the check of every request reads both.
Mark(d) ==
  /\ delete[d] = "mark"
  /\ IF profile = "none"
     THEN UNCHANGED <<profile, old>>
     ELSE profile' = "deleting" /\ old' = IF profile = "deleting" THEN old ELSE rows
  /\ To(d, "invoke")
  /\ UNCHANGED <<allowed, rows, event, purge, writer>>

Invoke(d) ==
  /\ delete[d] = "invoke"
  /\ \/ event' = [event EXCEPT ![d] = Attempts] /\ To(d, "accepted")
     \/ "invoke" \in Faults /\ UNCHANGED event /\ To(d, "unavailable")
  /\ UNCHANGED <<account, purge, writer>>

\* The handler dies or the store fails.
Abort(d) ==
  /\ "crash" \in Faults /\ delete[d] \in {"mark", "invoke"}
  /\ To(d, "error")
  /\ UNCHANGED <<account, event, purge, writer>>

-----------------------------------------------------------------------------
(***************************************************************************)
(* The purge.                                                              *)
(***************************************************************************)
handlers == <<delete, writer>>

Step(p, from, to) == run[p].pc = from /\ run' = [run EXCEPT ![p].pc = to]

\* The queue starts the purge, and may start it again before it has ended.
Start(p, d) ==
  /\ run[p].pc = "rest" /\ event[d] > 0
  /\ event' = [event EXCEPT ![d] = @ - 1]
  /\ run' = [run EXCEPT ![p] = [pc |-> "phone", of |-> d, listed |-> {}]]
  /\ UNCHANGED <<account, handlers, deaths, marker, mails>>

PurgePhone(p) ==
  /\ Step(p, "phone", "list")
  /\ UNCHANGED <<account, handlers, event, deaths, marker, mails>>

\* Mutant: an account without a profile passes for purged.
ListUnlessGone(p) ==
  /\ run[p].pc = "list"
  /\ run' = [run EXCEPT ![p] =
       [@ EXCEPT !.pc = IF profile = "none" THEN "erase" ELSE "forget",
                 !.listed = IF profile = "none" THEN {} ELSE rows \cup {Profile}]]
  /\ UNCHANGED <<account, handlers, event, deaths, marker, mails>>

List(p) ==
  /\ run[p].pc = "list"
  /\ run' = [run EXCEPT ![p] =
       [@ EXCEPT !.pc = "forget",
                 !.listed = rows \cup IF profile = "none" THEN {} ELSE {Profile}]]
  /\ UNCHANGED <<account, handlers, event, deaths, marker, mails>>

\* Files and devices have gone before the allowlist entry, memories go after it.
Forget(p) ==
  /\ Step(p, "forget", "erase")
  /\ allowed' = FALSE
  /\ UNCHANGED <<profile, rows, old, handlers, event, deaths, marker, mails>>

\* One batch of the listed keys.
Erase(p, batch) ==
  /\ run[p].pc = "erase" /\ batch # {}
  /\ rows' = rows \ batch
  /\ profile' = IF Profile \in batch THEN "none" ELSE profile
  /\ run' = [run EXCEPT ![p].listed = @ \ batch]
  /\ UNCHANGED <<allowed, old, handlers, event, deaths, marker, mails>>

\* A run that returns without an error ends the attempts of its event.
Finish(p) ==
  /\ run' = [run EXCEPT ![p] = Rest]
  /\ event' = [event EXCEPT ![run[p].of] = 0]

\* Mutant: the mail is sent whether or not the marker was there.
ConfirmAgain(p) ==
  /\ run[p].listed = {}
  /\ Step(p, "erase", "sendMarked") /\ UNCHANGED event
  /\ marker' = TRUE
  /\ UNCHANGED <<account, handlers, deaths, mails>>

\* After the last batch the marker is created, and then the mail is queued; when
\* the table fails, with or without effect, the mail is queued all the same.
Confirm(p) ==
  /\ run[p].pc = "erase" /\ run[p].listed = {}
  /\ \/ ~marker /\ marker' = TRUE /\ Step(p, "erase", "sendMarked") /\ UNCHANGED event
     \/ marker /\ Finish(p) /\ UNCHANGED marker
     \/ /\ "marker" \in Faults /\ marker' \in {marker, TRUE}
        /\ Step(p, "erase", "sendUnmarked") /\ UNCHANGED event
  /\ UNCHANGED <<account, handlers, deaths, mails>>

Send(p) ==
  /\ run[p].pc \in Sending
  /\ \/ mails' = [mails EXCEPT ![run[p].pc] = @ + 1]
     \/ "mail" \in Faults /\ UNCHANGED mails
  /\ Finish(p)
  /\ UNCHANGED <<account, handlers, deaths, marker>>

\* A step of the purge fails, or the invocation dies: the event stays.
Die(p) ==
  /\ run[p].pc # "rest" /\ deaths < MaxDeaths
  /\ run' = [run EXCEPT ![p] = Rest]
  /\ deaths' = deaths + 1
  /\ UNCHANGED <<account, handlers, event, marker, mails>>

-----------------------------------------------------------------------------
(***************************************************************************)
(* The rest of the program: requests of the account, sign-ins and the      *)
(* quota gate.                                                             *)
(***************************************************************************)
others == <<delete, event, purge>>

\* A request passes the check of its token.
Check(w) ==
  /\ writer[w] = "new" /\ profile = "active"
  /\ writer' = [writer EXCEPT ![w] = "checked"]
  /\ UNCHANGED <<account, others>>

\* A sign-in asks the allowlist, then takes the profile it finds unless it is
\* disabled.  Without a profile it makes an account of another name.
CheckSignIn(w) ==
  /\ writer[w] = "new" /\ allowed /\ profile # "none"
  /\ writer' = [writer EXCEPT ![w] = "checked"]
  /\ UNCHANGED <<account, others>>

\* The row is put, whatever has become of the account.
Put(w) ==
  /\ writer[w] = "checked"
  /\ writer' = [writer EXCEPT ![w] = "done"]
  /\ rows' = rows \cup {w}
  /\ UNCHANGED <<profile, allowed, old, others>>

Suspend ==
  /\ profile = "active" /\ profile' = "suspended"
  /\ UNCHANGED <<allowed, rows, old, writer, others>>

\* Mutant: a reinstatement does not look at the status.
ReinstateAny ==
  /\ profile # "none" /\ profile' = "active"
  /\ UNCHANGED <<allowed, rows, old, writer, others>>

Reinstate ==
  /\ profile = "suspended" /\ profile' = "active"
  /\ UNCHANGED <<allowed, rows, old, writer, others>>

-----------------------------------------------------------------------------
Handle(d) == Read(d) \/ Mark(d) \/ Invoke(d)

Work(p) ==
  \/ PurgePhone(p) \/ List(p) \/ Forget(p) \/ Confirm(p) \/ Send(p)
  \/ \E batch \in SUBSET run[p].listed : Erase(p, batch)

Next ==
  \/ \E d \in Deletes : Handle(d) \/ Abort(d) \/ \E p \in Runs : Start(p, d)
  \/ \E p \in Runs : Work(p) \/ Die(p)
  \/ \E w \in Writers : Check(w) \/ CheckSignIn(w) \/ Put(w)
  \/ Suspend \/ Reinstate

Spec == Init /\ [][Next]_vars

\* Handlers and purges that are not killed run to their end, and the queue
\* starts the purges it holds.
Fairness ==
  /\ \A d \in Deletes : WF_vars(Mark(d) \/ Invoke(d)) /\ SF_vars(\E p \in Runs : Start(p, d))
  /\ \A p \in Runs : WF_vars(Work(p))

FairSpec == Spec /\ Fairness

-----------------------------------------------------------------------------
(***************************************************************************)
(* Properties.                                                             *)
(***************************************************************************)
Mailed == \E k \in Sending : mails[k] > 0

\* An account that is being deleted is never given back and a deleted one does
\* not return, whatever the quota gate, an operator or a second request does.
DeletionFinal ==
  [][/\ profile = "deleting" => profile' \in {"deleting", "none"}
     /\ profile = "none" => profile' = "none"]_vars

\* The confirmation is sent once at most, however often the purge is started,
\* not counting the mails the code prefers to none when the marker fails.
ConfirmedOnce == mails["sendMarked"] <= 1

\* When the confirmation is sent, the profile and every row that existed when
\* the deletion was requested are gone.
ErasedBeforeMail == Mailed => profile = "none" /\ old \cap rows = {}

\* A purge that was asked for completes although invocations die half-way.
Resumed ==
  \A d \in Deletes : event[d] > 0 ~> (profile = "none" /\ allowed = FALSE /\ old \cap rows = {})

\* When the member is told that all data is deleted, none is left.
NothingLeft == Mailed => rows = {}

\* A DELETE that is accepted ends with the account deleted.
AcceptedErases == \A d \in Deletes : delete[d] = "accepted" ~> profile = "none"
===============================================================================
