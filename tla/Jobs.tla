-------------------------------- MODULE Jobs --------------------------------
(***************************************************************************)
(* One job of one account as the deployed system runs it.  API handlers    *)
(* and scheduled workers are short-lived processes that read the record,   *)
(* compute the next one and write it back in a transaction fenced by the   *)
(* version they read and by the state of the account.  Between the two     *)
(* steps anything may happen: other processes commit, the process dies,    *)
(* the clock moves, the account is revoked, reinstated or purged.  Clients *)
(* repeat a command with the same request identifier whenever they like,   *)
(* also while an earlier copy of it is still running.                      *)
(***************************************************************************)
EXTENDS JobRecord

CONSTANTS
  Procs,      \* concurrent Lambda invocations
  Requests,   \* request identifiers; one command is issued under each
  Ops,        \* commands the clients issue
  Events,     \* account events that happen: "revoke", "reinstate", "purge"
  Schedules,  \* schedules a job may have
  MaxTime,    \* bound on the clock
  NoCall      \* no command has been issued under a request identifier

Operations == {"pause", "resume", "cancel", "update", "run", "retry", "approve",
               "cancelRun", "note"}

Call == [id : Requests, op : Operations,
         version : Nat, target : Nat, kind : Kinds, sched : Schedules]

ASSUME InstanceAssumption ==
  /\ \A s \in Schedules : s \subseteq Nat
  /\ Ops \subseteq Operations
  /\ MaxTime \in Nat
  /\ NoCall \notin Call

VARIABLES
  rec,      \* the item USER#<uid>/JOB#<id>, or NoRecord
  ledger,   \* newest JOBEVENT# snapshot of every run
  account,  \* "active", "inactive", "deleting"
  clock,
  birth,    \* the content of the create request
  calls,    \* the command issued under each request identifier
  proc,     \* what each process is doing and the record it has read
  purge,    \* "none", "listed" with the keys found, "done"
  applied,  \* history: commits made on behalf of each request
  answers   \* history: runs named in successful responses to each request

vars == <<rec, ledger, account, clock, birth, calls, proc, purge, applied, answers>>
history == <<applied, answers>>
environment == <<account, clock, birth, calls, purge>>

Idle == [pc |-> "idle", req |-> NoCall, now |-> NoTime, snap |-> NoRecord]

Receipt == [call : Call, run : Nat]

\* Runs by name, the names being those given out so far.
RunTable(f, made) == f \in [DOMAIN f -> Run] /\ DOMAIN f \subseteq 1..made

JobRecords(runs, evicted) ==
  [status : {"active", "paused", "cancelled"}, kind : Kinds, sched : Schedules,
   next : Nat, gen : Nat, version : Nat \ {0}, made : Nat, runs : {runs},
   evicted : {evicted}, receipts : Seq(Receipt), retryAfter : Nat]

JobOK(r) ==
  /\ r \in JobRecords(r.runs, r.evicted)
  /\ RunTable(r.runs, r.made) /\ RunTable(r.evicted, r.made)

\* A process between its read and its write.
Holds(p) == proc[p].pc \in {"commit", "expire", "tick", "fence"}

StoreOK ==
  /\ rec # NoRecord => JobOK(rec)
  /\ ledger \in [DOMAIN ledger -> Run] /\ DOMAIN ledger \subseteq Nat

EnvironmentOK ==
  /\ account \in {"active", "inactive", "deleting"}
  /\ clock \in 0..MaxTime
  /\ birth \in [kind : Kinds, sched : Schedules]
  /\ calls \in [Requests -> Call \cup {NoCall}]
  /\ purge \in [pc : {"none", "listed", "done"}, job : BOOLEAN, runs : SUBSET Nat]

ProcsOK ==
  /\ proc \in [Procs -> [pc : {"idle", "create", "commit", "recheck", "expire", "due",
                              "tick", "suspend", "fence"},
                        req : Requests \cup {NoCall}, now : 0..MaxTime,
                        snap : {proc[p].snap : p \in Procs}]]
  /\ \A p \in Procs : /\ proc[p].now <= clock
                      /\ proc[p].pc \in {"commit", "recheck"} => proc[p].req \in Requests
                      /\ proc[p].pc = "commit" => calls[proc[p].req] \in Call
                      /\ Holds(p) => JobOK(proc[p].snap)

HistoryOK == applied \in [Requests -> Nat] /\ answers \in [Requests -> SUBSET Nat]

TypeOK == StoreOK /\ EnvironmentOK /\ ProcsOK /\ HistoryOK

\* No job yet; its account may already be marked for deletion.
Init ==
  /\ rec = NoRecord
  /\ ledger = NoRuns
  /\ account \in {"active", "deleting"}
  /\ clock = 0
  /\ birth \in [kind : Kinds, sched : Schedules]
  /\ calls = [q \in Requests |-> NoCall]
  /\ proc = [p \in Procs |-> Idle]
  /\ purge = [pc |-> "none", job |-> FALSE, runs |-> {}]
  /\ applied = [q \in Requests |-> 0]
  /\ answers = [q \in Requests |-> {}]

-----------------------------------------------------------------------------
(***************************************************************************)
(* The table.  A write carries the version it was computed from; the same  *)
(* transaction appends to the history every run it changed or evicted.     *)
(***************************************************************************)
Observed(r) == [i \in DOMAIN r.runs \cup DOMAIN r.evicted |->
                  IF i \in DOMAIN r.runs THEN r.runs[i] ELSE r.evicted[i]]

Archive(before, after) ==
  LET seen == Observed(after)
      changed == {i \in DOMAIN seen : i \in DOMAIN before.runs => before.runs[i] # seen[i]}
  IN  [i \in DOMAIN ledger \cup changed |-> IF i \in changed THEN seen[i] ELSE ledger[i]]

\* Mutant: only a revoked grant fences a write, a deletion under way does not.
AuthorizedUnlessRevoked == account # "inactive"

\* Mutant: no account fence.
AuthorizedAlways == TRUE

Authorized == account = "active"

\* Mutant: the write only requires the item to exist.
UnchangedAnyVersion(snap) == rec # NoRecord

Unchanged(snap) == rec # NoRecord /\ rec.version = snap.version

Write(r) == rec' = Stored(r) /\ ledger' = Archive(rec, r)

NoWrite == UNCHANGED <<rec, ledger>>

Become(p, pc, q, now, snap) ==
  proc' = [proc EXCEPT ![p] = [pc |-> pc, req |-> q, now |-> now, snap |-> snap]]

End(p) == proc' = [proc EXCEPT ![p] = Idle]

-----------------------------------------------------------------------------
(***************************************************************************)
(* Clients.  A command carries the version its author last saw.  Delays    *)
(* are the handlers': by the time one reads the record it may be stale.    *)
(***************************************************************************)
Targets(op) == IF op \in {"retry", "approve", "cancelRun"} THEN DOMAIN rec.runs ELSE {NoRun}

Issue(q) ==
  /\ calls[q] = NoCall /\ rec # NoRecord
  /\ \E op \in Ops : \E i \in Targets(op), k \in Kinds, s \in Schedules :
       /\ op # "update" => k = rec.kind /\ s = rec.sched
       /\ calls' = [calls EXCEPT ![q] = [id |-> q, op |-> op, version |-> rec.version,
                                         target |-> i, kind |-> k, sched |-> s]]
  /\ UNCHANGED <<rec, ledger, account, clock, birth, proc, purge, applied, answers>>

\* Create: the job identifier is derived from the request, so a repeated or
\* concurrent create finds the row the first one wrote.
CreateRead(p) ==
  /\ proc[p].pc = "idle" /\ rec = NoRecord
  /\ FutureSchedule(birth.sched, clock)
  /\ Become(p, "create", NoCall, clock, NoRecord)
  /\ NoWrite /\ UNCHANGED <<environment, history>>

CreateCommit(p) ==
  /\ proc[p].pc = "create"
  /\ IF Authorized /\ rec = NoRecord
     THEN /\ rec' = Created(birth.kind, birth.sched, proc[p].now)
          /\ UNCHANGED ledger
     ELSE NoWrite
  /\ End(p)
  /\ UNCHANGED <<environment, history>>

\* A committed command answers with the run its receipt names.
Receipts(r, q) == {i \in 1..Len(r.receipts) : r.receipts[i].call.id = q}
Answer(q, runs) == answers' = [answers EXCEPT ![q] = @ \cup runs]
AnswerFrom(r, q) ==
  Answer(q, {r.receipts[i].run : i \in {j \in Receipts(r, q) : r.receipts[j].call = calls[q]}})

\* mutate, up to the write: a receipt answers at once, a stale version or a
\* refused command ends it, anything else goes on to the transaction.
CommandRead(p, q) ==
  /\ proc[p].pc = "idle" /\ calls[q] # NoCall /\ rec # NoRecord
  /\ IF Receipts(rec, q) # {}
     THEN AnswerFrom(rec, q) /\ UNCHANGED proc
     ELSE /\ calls[q].version = rec.version
          /\ Mutated(calls[q], rec, clock) # {}
          /\ Become(p, "commit", q, clock, rec)
          /\ UNCHANGED answers
  /\ NoWrite /\ UNCHANGED <<environment, applied>>

CommandCommit(p) ==
  LET q == proc[p].req IN
  /\ proc[p].pc = "commit"
  /\ \/ /\ Authorized /\ Unchanged(proc[p].snap)
        /\ \E e \in Mutated(calls[q], proc[p].snap, proc[p].now) :
             Write(e.rec) /\ Answer(q, {e.run})
        /\ applied' = [applied EXCEPT ![q] = @ + 1]
        /\ End(p)
     \/ /\ ~ Authorized
        /\ NoWrite /\ End(p) /\ UNCHANGED history
     \/ /\ Authorized /\ ~ Unchanged(proc[p].snap)
        /\ Become(p, "recheck", q, NoTime, NoRecord)
        /\ NoWrite /\ UNCHANGED history
  /\ UNCHANGED environment

\* After a lost race the receipt of an earlier copy may be there by now.
CommandRecheck(p) ==
  /\ proc[p].pc = "recheck"
  /\ IF rec = NoRecord THEN UNCHANGED answers ELSE AnswerFrom(rec, proc[p].req)
  /\ End(p)
  /\ NoWrite /\ UNCHANGED <<environment, applied>>

-----------------------------------------------------------------------------
(***************************************************************************)
(* Reads persist expired reviews.  A lost race reads again, which is       *)
(* another ViewRead.                                                       *)
(***************************************************************************)
ViewRead(p) ==
  /\ proc[p].pc = "idle" /\ rec # NoRecord /\ hasExpired(rec, clock)
  /\ Become(p, "expire", NoCall, clock, rec)
  /\ NoWrite /\ UNCHANGED <<environment, history>>

ViewCommit(p) ==
  /\ proc[p].pc = "expire"
  /\ IF Authorized /\ Unchanged(proc[p].snap)
     THEN Write(Refreshed(proc[p].snap, proc[p].now))
     ELSE NoWrite
  /\ End(p)
  /\ UNCHANGED <<environment, history>>

-----------------------------------------------------------------------------
(***************************************************************************)
(* The scheduled worker.  The instant of a tick is taken before the index  *)
(* is queried and holds for the whole batch; the index lags, so it may     *)
(* name a job that is no longer due and the record decides.                *)
(***************************************************************************)
TickStart(p) ==
  /\ proc[p].pc = "idle" /\ rec # NoRecord /\ isDue(rec, clock)
  /\ Become(p, "due", NoCall, clock, NoRecord)
  /\ NoWrite /\ UNCHANGED <<environment, history>>

TickRead(p) ==
  /\ proc[p].pc = "due"
  /\ IF rec # NoRecord /\ isDue(rec, proc[p].now)
     THEN Become(p, "tick", NoCall, proc[p].now, rec)
     ELSE End(p)
  /\ NoWrite /\ UNCHANGED <<environment, history>>

\* Mutant: the job of an inactive account is skipped and stays due.
TickCommitSkip(p) ==
  /\ proc[p].pc = "tick"
  /\ IF Authorized /\ Unchanged(proc[p].snap)
     THEN \E r \in Ticked(proc[p].snap, proc[p].now) : Write(r)
     ELSE NoWrite
  /\ End(p)
  /\ UNCHANGED <<environment, history>>

TickCommit(p) ==
  /\ proc[p].pc = "tick"
  /\ \/ /\ Authorized /\ Unchanged(proc[p].snap)
        /\ \E r \in Ticked(proc[p].snap, proc[p].now) : Write(r)
        /\ End(p)
     \/ /\ Authorized /\ ~ Unchanged(proc[p].snap)
        /\ NoWrite /\ End(p)
     \/ /\ ~ Authorized
        /\ Become(p, "suspend", NoCall, NoTime, NoRecord) /\ NoWrite
  /\ UNCHANGED <<environment, history>>

\* SuspendInactive: a fresh read, then a write fenced by the opposite account
\* condition.  It archives nothing, so that a purge misses no key.
SuspendRead(p) ==
  /\ proc[p].pc = "suspend"
  /\ IF rec # NoRecord THEN Become(p, "fence", NoCall, NoTime, rec) ELSE End(p)
  /\ NoWrite /\ UNCHANGED <<environment, history>>

SuspendCommit(p) ==
  /\ proc[p].pc = "fence"
  /\ IF ~ Authorized /\ Unchanged(proc[p].snap)
     THEN rec' = Stored(Suspended(proc[p].snap)) /\ UNCHANGED ledger
     ELSE NoWrite
  /\ End(p)
  /\ UNCHANGED <<environment, history>>

\* An invocation is killed or its store call fails: nothing is written and
\* nobody is answered.
Crash(p) ==
  /\ proc[p].pc # "idle"
  /\ End(p)
  /\ NoWrite /\ UNCHANGED <<environment, history>>

-----------------------------------------------------------------------------
(***************************************************************************)
(* The account.  A grant is revoked and may be given back; a deletion      *)
(* marks the profile first, lists the keys of the partition and deletes    *)
(* exactly those.                                                          *)
(***************************************************************************)
SetAccount(event, from, to) ==
  /\ event \in Events /\ account = from
  /\ account' = to
  /\ UNCHANGED <<rec, ledger, clock, birth, calls, proc, purge, applied, answers>>

PurgeList ==
  /\ account = "deleting" /\ purge.pc = "none"
  /\ purge' = [pc |-> "listed", job |-> rec # NoRecord, runs |-> DOMAIN ledger]
  /\ UNCHANGED <<rec, ledger, account, clock, birth, calls, proc, applied, answers>>

PurgeDelete ==
  /\ purge.pc = "listed"
  /\ rec' = IF purge.job THEN NoRecord ELSE rec
  /\ ledger' = [i \in DOMAIN ledger \ purge.runs |-> ledger[i]]
  /\ purge' = [purge EXCEPT !.pc = "done"]
  /\ UNCHANGED <<account, clock, birth, calls, proc, applied, answers>>

AdvanceClock ==
  /\ clock < MaxTime
  /\ clock' = clock + 1
  /\ UNCHANGED <<rec, ledger, account, birth, calls, proc, purge, applied, answers>>

-----------------------------------------------------------------------------
Worker(p) == TickStart(p) \/ TickRead(p) \/ TickCommit(p) \/ SuspendRead(p) \/ SuspendCommit(p)

Handler(p) ==
  \/ CreateRead(p) \/ CreateCommit(p)
  \/ \E q \in Requests : CommandRead(p, q)
  \/ CommandCommit(p) \/ CommandRecheck(p)
  \/ ViewRead(p) \/ ViewCommit(p)

Next ==
  \/ \E q \in Requests : Issue(q)
  \/ \E p \in Procs : Handler(p) \/ Worker(p) \/ Crash(p)
  \/ SetAccount("revoke", "active", "inactive")
  \/ SetAccount("reinstate", "inactive", "active")
  \/ SetAccount("purge", "active", "deleting")
  \/ PurgeList \/ PurgeDelete
  \/ AdvanceClock

Spec == Init /\ [][Next]_vars

\* Every invocation ends, if only by its timeout, and the schedule starts the
\* worker every minute: it is not killed at the same point for ever.
Ends(p) == CreateCommit(p) \/ CommandCommit(p) \/ CommandRecheck(p) \/ ViewCommit(p) \/ Crash(p)

Fairness ==
  \A p \in Procs :
    /\ WF_vars(Ends(p))
    /\ SF_vars(TickStart(p)) /\ SF_vars(TickRead(p)) /\ SF_vars(TickCommit(p))
    /\ SF_vars(SuspendRead(p)) /\ SF_vars(SuspendCommit(p))

FairSpec == Spec /\ Fairness

-----------------------------------------------------------------------------
(***************************************************************************)
(* Properties.                                                             *)
(***************************************************************************)
\* Whoever is between its read and its write holds the current record or an
\* older version of it, or the job has been purged for good: two different
\* records never carry the same version.
SnapshotsCurrent ==
  \A p \in Procs : Holds(p) =>
    \/ rec = NoRecord /\ account = "deleting"
    \/ /\ rec # NoRecord /\ proc[p].snap.version <= rec.version
       /\ proc[p].snap.version = rec.version => proc[p].snap = rec

\* A command takes effect at most once, however often and however
\* concurrently its request is repeated, and also when its receipt is gone.
AtMostOnce == \A q \in Requests : applied[q] <= 1

\* Whoever is told that a command succeeded is told about the same run, and
\* only after the command really committed.
AnswersAgree ==
  \A q \in Requests : /\ Cardinality(answers[q]) <= 1
                      /\ answers[q] # {} => applied[q] = 1

\* Work that is still pending belongs to the current generation of an active
\* job: an edit, pause, cancellation or suspension leaves none behind.
PendingIsCurrent ==
  rec # NoRecord =>
    \A i \in DOMAIN rec.runs :
      pendingRun(rec.runs[i]) => rec.status = "active" /\ rec.runs[i].gen = rec.gen

\* An occurrence of the schedule becomes at most one run, whatever workers,
\* edits and resumptions interleave.
OccurrenceOnce ==
  \A i, j \in DOMAIN ledger :
    i # j /\ ledger[i].slot # NoTime => ledger[i].slot # ledger[j].slot

\* A run is retried at most once, by the next attempt at the same content of
\* the same generation, also after the run or its retry has been evicted.
RetryOnce ==
  \A j \in DOMAIN ledger : LET i == ledger[j].retryOf IN
    i # NoRun =>
      /\ \A k \in DOMAIN ledger \ {j} : ledger[k].retryOf # i
      /\ ledger[j].attempt = ledger[i].attempt + 1
      /\ ledger[j].attempt <= MaxAttempts
      /\ ledger[j].gen = ledger[i].gen /\ ledger[j].kind = ledger[i].kind

\* While no suspension intervenes the history agrees with the record about
\* every retained run and shows every evicted run finished: compaction loses
\* no receipt and never drops pending work.
LedgerComplete ==
  rec # NoRecord =>
    \A i \in 1..rec.made :
      /\ i \in DOMAIN ledger
      /\ IF i \in DOMAIN rec.runs THEN ledger[i] = rec.runs[i]
         ELSE ~ pendingRun(ledger[i])

\* A purge that has finished left nothing, and no process still in flight
\* brings anything back.
PurgeComplete == purge.pc = "done" => rec = NoRecord /\ DOMAIN ledger = {}

\* A finished run keeps its outcome as long as it is retained.
OutcomeFinal ==
  [][rec # NoRecord /\ rec' # NoRecord =>
       \A i \in DOMAIN rec.runs \cap DOMAIN rec'.runs :
         ~ pendingRun(rec.runs[i]) => rec'.runs[i] = rec.runs[i]]_rec

\* Without an active account nothing runs, succeeds or resumes; all that can
\* happen to its job is to be paused or removed.  With one, the worker's
\* suspension cannot get through.
AccountFence ==
  [][rec # NoRecord /\ rec' # NoRecord =>
       IF account = "active"
       THEN rec.status = "active" /\ rec'.status = "paused" => applied' # applied
       ELSE rec'.status = "paused" /\ rec'.made = rec.made /\ rec'.next = NoTime]_rec

\* The processes together behave as the atomic job: no update is lost, none is
\* computed from a record that is no longer the current one.
Performed == {q \in Requests : applied[q] > 0}
Atomic == INSTANCE AtomicJob WITH done <- Performed
ActsAtomically == Atomic!Spec

\* An overdue occurrence of an active job is eventually consumed, unless the
\* job says it is at capacity and backs off.
Overdue(t) == rec # NoRecord /\ rec.status = "active" /\ rec.next = t /\ t <= clock
              /\ rec.retryAfter <= clock
OccurrenceServed ==
  \A t \in 1..MaxTime : Overdue(t) /\ Authorized ~> ~ Overdue(t) \/ ~ Authorized

\* The due row of an account that lost its grant does not stay at the head of
\* the due index for ever.
RevokedLeavesQueue ==
  (rec # NoRecord /\ isDue(rec, clock) /\ ~ Authorized)
    ~> (rec = NoRecord \/ ~ isDue(rec, clock) \/ Authorized)

\* "Stop future runs": once a cancellation has been carried out the job makes
\* no further run.
CancelStopsRuns ==
  [][(\E q \in Requests : calls[q] # NoCall /\ calls[q].op = "cancel" /\ applied[q] > 0)
       => (rec # NoRecord /\ rec' # NoRecord => rec'.made = rec.made)]_rec
===============================================================================
