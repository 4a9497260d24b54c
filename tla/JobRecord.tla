------------------------------ MODULE JobRecord ------------------------------
(***************************************************************************)
(* The job aggregate of internal/jobs and the pure operations on it: one   *)
(* record holds a job, its bounded run history and its command receipts,   *)
(* and every command, tick, expiry and suspension computes a next record   *)
(* from the one it read.  Module Jobs runs these operations concurrently   *)
(* against the table; AtomicJob runs them one at a time.                   *)
(*                                                                         *)
(* A run is named by the position in which it was created, so the oldest   *)
(* run is the one with the smallest name, as it is the first of the slice  *)
(* in the code.  Titles, instructions and texts are left out: the content  *)
(* of a job is its kind.  Times are natural numbers and NoTime is the      *)
(* empty timestamp.  Phone-research jobs are not in this module.           *)
(***************************************************************************)
EXTENDS Naturals, Sequences, FiniteSets

CONSTANTS
  MaxRuns,      \* runs kept in the aggregate (50 in the code)
  MaxReceipts,  \* command receipts kept in the aggregate (100)
  MaxAttempts,  \* attempts of one piece of local work (3)
  ApprovalTTL,  \* life of a review checkpoint (24 hours)
  RetryDelay,   \* backoff of a job at capacity (15 minutes)
  Oversize      \* whether an encoded record may exceed the byte budget

ASSUME LimitAssumption ==
  /\ MaxRuns \in Nat \ {0} /\ MaxReceipts \in Nat \ {0}
  /\ MaxAttempts \in Nat /\ ApprovalTTL \in Nat /\ RetryDelay \in Nat
  /\ Oversize \in BOOLEAN

NoTime == 0
NoRun == 0
Kinds == {"reminder", "review"}
PendingStatus == {"queued", "waiting_approval"}
TerminalStatus == {"succeeded", "failed", "cancelled"}

Run == [status : PendingStatus \cup TerminalStatus, kind : Kinds, gen : Nat,
        attempt : Nat, retryOf : Nat, expires : Nat, slot : Nat]

NoRuns == [i \in {} |-> NoRun]

\* The table holds no item: the version a create expects.
NoRecord == [version |-> 0]

Least(S) == CHOOSE x \in S : \A y \in S : x <= y
When(guard, S) == IF guard THEN S ELSE {}

(***************************************************************************)
(* Schedules are sets of instants: {} is a manual job, a singleton a       *)
(* one-time job, a larger set a recurrence.                                *)
(***************************************************************************)
\* Mutant: an occurrence that is due right now counts as still to come.
nextInclusive(s, now) ==
  LET later == {t \in s : t >= now} IN IF later = {} THEN NoTime ELSE Least(later)

next(s, now) ==
  LET later == {t \in s : t > now} IN IF later = {} THEN NoTime ELSE Least(later)

\* A one-time schedule has to lie in the future when it is chosen.
FutureSchedule(s, now) == Cardinality(s) = 1 => next(s, now) # NoTime

(***************************************************************************)
(* Runs of a record.                                                       *)
(***************************************************************************)
pendingRun(v) == v.status \in PendingStatus
\* Mutant: history compaction does not spare unresolved work.
TerminalAny(r) == DOMAIN r.runs

Terminal(r) == {i \in DOMAIN r.runs : ~ pendingRun(r.runs[i])}

OnRuns(r, F(_)) == [r EXCEPT !.runs = [i \in DOMAIN r.runs |-> F(r.runs[i])]]

finish(v, status) == [v EXCEPT !.status = status]

\* Mutant: only queued runs are cancelled, waiting reviews survive.
cancelPendingQueued(r) ==
  LET cancel(v) == IF v.status = "queued" THEN finish(v, "cancelled") ELSE v
  IN  OnRuns(r, cancel)

cancelPending(r) ==
  LET cancel(v) == IF pendingRun(v) THEN finish(v, "cancelled") ELSE v
  IN  OnRuns(r, cancel)

\* Reminders complete at once; a review waits for its acknowledgement.
executeLocal(v, now) ==
  IF v.kind = "reminder"
  THEN finish(v, "succeeded")
  ELSE [v EXCEPT !.status = "waiting_approval", !.expires = now + ApprovalTTL]

newRun(r, attempt, retryOf, slot) ==
  [status |-> "queued", kind |-> r.kind, gen |-> r.gen, attempt |-> attempt,
   retryOf |-> retryOf, expires |-> NoTime, slot |-> slot]

AddRun(r, v) ==
  [r EXCEPT !.made = r.made + 1,
            !.runs = [i \in DOMAIN r.runs \cup {r.made + 1} |->
                        IF i = r.made + 1 THEN v ELSE r.runs[i]]]

\* Evicted runs leave the record; their snapshots go to the history.
Evict(r, E) ==
  [r EXCEPT !.runs = [i \in DOMAIN r.runs \ E |-> r.runs[i]],
            !.evicted = [i \in DOMAIN r.evicted \cup E |->
                           IF i \in E THEN r.runs[i] ELSE r.evicted[i]]]

\* Room for one more run: the oldest terminal run gives way, and when every
\* retained run is pending there is no room at all.
reserveRun(r) ==
  IF Cardinality(DOMAIN r.runs) < MaxRuns THEN {r}
  ELSE When(Terminal(r) # {}, {Evict(r, {Least(Terminal(r))})})

\* The byte budget evicts terminal runs, oldest first, sparing `keep`.  How
\* many depends on the size of the texts, so any number may go.
compact(r, keep) ==
  LET old == Terminal(r) \ {keep}
      oldestFirst(E) == \A i \in E, j \in old \ E : i < j
  IN  {Evict(r, E) : E \in {D \in SUBSET old : oldestFirst(D) /\ (Oversize \/ D = {})}}

(***************************************************************************)
(* Commands.  Each yields the set of records it may produce, with the run  *)
(* it reports; the empty set is a refusal (ErrInvalidState, ErrNotFound,   *)
(* ErrLimit).  A command's fingerprint is the command itself.              *)
(***************************************************************************)
Effect(rec, run) == [rec |-> rec, run |-> run]

Paused(r) == cancelPending([r EXCEPT !.status = "paused", !.gen = @ + 1])

Action(c, r, now) ==
  CASE c.op = "pause"  -> When(r.status = "active", {Effect(Paused(r), NoRun)})
    [] c.op = "resume" -> When(r.status = "paused",
         {Effect([r EXCEPT !.status = "active", !.next = next(r.sched, now),
                           !.gen = @ + 1], NoRun)})
    [] c.op = "cancel" -> When(r.status # "cancelled",
         {Effect(cancelPending([r EXCEPT !.status = "cancelled", !.next = NoTime,
                                         !.gen = @ + 1]), NoRun)})

Update(c, r, now) ==
  When(r.status # "cancelled" /\ (c.sched # r.sched => FutureSchedule(c.sched, now)),
       {Effect(cancelPending(
                 [r EXCEPT !.gen = @ + 1, !.kind = c.kind, !.sched = c.sched,
                           !.next = IF c.sched = r.sched THEN @ ELSE next(c.sched, now)]),
               NoRun)})

WithRun(r, v, now) == Effect(AddRun(r, executeLocal(v, now)), r.made + 1)

\* Mutant: a cancelled job can still be run by hand.
RunNowUnlessPaused(r, now) ==
  When(r.status # "paused",
       {WithRun(s, newRun(s, 1, NoRun, NoTime), now) : s \in reserveRun(r)})

RunNow(r, now) ==
  When(r.status = "active",
       {WithRun(s, newRun(s, 1, NoRun, NoTime), now) : s \in reserveRun(r)})

\* Mutant: a run that already has a successor may be retried again.
RetryableAgain(r, i) ==
  /\ i \in DOMAIN r.runs
  /\ r.status = "active"
  /\ r.runs[i].status \in {"failed", "cancelled"}
  /\ r.runs[i].gen = r.gen
  /\ r.runs[i].attempt < MaxAttempts

Retryable(r, i) ==
  /\ i \in DOMAIN r.runs
  /\ r.status = "active"
  /\ r.runs[i].status \in {"failed", "cancelled"}
  /\ r.runs[i].gen = r.gen
  /\ r.runs[i].attempt < MaxAttempts
  /\ \A j \in DOMAIN r.runs : r.runs[j].retryOf # i

RetryRun(c, r, now) ==
  When(Retryable(r, c.target),
       {WithRun(s, newRun(s, r.runs[c.target].attempt + 1, c.target, NoTime), now)
          : s \in reserveRun(r)})

ApproveRun(c, r, now) ==
  LET i == c.target IN
  When(/\ i \in DOMAIN r.runs /\ r.status = "active"
       /\ r.runs[i].status = "waiting_approval"
       /\ r.runs[i].gen = r.gen
       /\ r.runs[i].expires > now,
       {Effect([r EXCEPT !.runs[i] = finish(@, "succeeded")], i)})

\* Mutant: a run that has finished can be cancelled.
CancelRunAlways(c, r) ==
  LET i == c.target IN
  When(i \in DOMAIN r.runs, {Effect([r EXCEPT !.runs[i] = finish(@, "cancelled")], i)})

CancelRun(c, r) ==
  LET i == c.target IN
  When(i \in DOMAIN r.runs /\ pendingRun(r.runs[i]),
       {Effect([r EXCEPT !.runs[i] = finish(@, "cancelled")], i)})

\* A note is archived with the commit and changes nothing of the job.
AddNote(c, r) == When(c.target = NoRun \/ c.target \in DOMAIN r.runs, {Effect(r, NoRun)})

Command(c, r, now) ==
  CASE c.op \in {"pause", "resume", "cancel"} -> Action(c, r, now)
    [] c.op = "update"  -> Update(c, r, now)
    [] c.op = "run"     -> RunNow(r, now)
    [] c.op = "retry"   -> RetryRun(c, r, now)
    [] c.op = "approve" -> ApproveRun(c, r, now)
    [] c.op = "cancelRun" -> CancelRun(c, r)
    [] c.op = "note"    -> AddNote(c, r)

\* The newest MaxReceipts receipts are kept.
Trim(s) == IF Len(s) > MaxReceipts THEN SubSeq(s, 2, Len(s)) ELSE s

\* Mutant: the receipt forgets which run the command made.
ReceiptedBlank(e, c) ==
  [e.rec EXCEPT !.receipts = Trim(Append(@, [call |-> c, run |-> NoRun])),
                !.version = @ + 1]

Receipted(e, c) ==
  [e.rec EXCEPT !.receipts = Trim(Append(@, [call |-> c, run |-> e.run])),
                !.version = @ + 1]

\* mutate: the command, then its receipt and version, then compaction.
Mutated(c, r, now) ==
  UNION { {Effect(s, e.run) : s \in compact(Receipted(e, c), e.run)}
          : e \in Command(c, r, now) }

(***************************************************************************)
(* Writes nobody asked for: a read persists expired reviews, the scheduled *)
(* worker runs what is due, and the worker suspends jobs of lost accounts. *)
(***************************************************************************)
expiredAt(v, now) == v.status = "waiting_approval" /\ v.expires <= now
hasExpired(r, now) == \E i \in DOMAIN r.runs : expiredAt(r.runs[i], now)

FailExpired(r, now) ==
  LET expire(v) == IF expiredAt(v, now) THEN finish(v, "failed") ELSE v
  IN  OnRuns(r, expire)

Refreshed(r, now) ==
  [FailExpired(r, now) EXCEPT !.retryAfter = NoTime, !.version = @ + 1]

\* When the job has to be looked at next; NoTime when never.  A queued run
\* dates from its creation, which lies before every other instant.
dueAt(r) ==
  LET wakes == ({r.next} \ {NoTime})
                 \cup {r.runs[i].expires :
                        i \in {j \in DOMAIN r.runs : r.runs[j].status = "waiting_approval"}}
                 \cup {1 : i \in {j \in DOMAIN r.runs : r.runs[j].status = "queued"}}
  IN  IF r.status # "active" \/ wakes = {} THEN NoTime
      ELSE IF r.retryAfter > Least(wakes) THEN r.retryAfter ELSE Least(wakes)

\* Mutant: off by one, a job is due only after its instant has passed.
isDueLate(r, now) == dueAt(r) # NoTime /\ dueAt(r) < now

isDue(r, now) == dueAt(r) # NoTime /\ dueAt(r) <= now

RunQueued(r, now) ==
  LET execute(v) == IF v.status # "queued" THEN v
                    ELSE IF v.gen # r.gen THEN finish(v, "cancelled")
                    ELSE executeLocal(v, now)
  IN  OnRuns(r, execute)

\* One overdue occurrence becomes one run and the schedule moves past `now`.
RunOccurrence(r, now) ==
  UNION { LET w == WithRun(s, newRun(s, 1, NoRun, r.next), now)
          IN  {[t EXCEPT !.next = next(r.sched, now)] : t \in compact(w.rec, w.run)}
          : s \in reserveRun(r) }

\* No room: the occurrence stays due and the job backs off.  When the byte
\* budget is what refuses, every terminal run has been evicted by then.
BackOff(r, now) ==
  LET full == IF reserveRun(r) = {} THEN {r}
              ELSE When(Oversize, {Evict(s, Terminal(s)) : s \in reserveRun(r)})
  IN  {[s EXCEPT !.retryAfter = now + RetryDelay] : s \in full}

Ticked(r, now) ==
  LET s == RunQueued(FailExpired([r EXCEPT !.retryAfter = NoTime], now), now)
      done == IF s.next # NoTime /\ s.next <= now
              THEN RunOccurrence(s, now) \cup BackOff(s, now) ELSE {s}
  IN  {[t EXCEPT !.version = @ + 1] : t \in done}

Suspended(r) == [Paused(r) EXCEPT !.next = NoTime, !.version = @ + 1]

Created(kind, sched, now) ==
  [status |-> "active", kind |-> kind, sched |-> sched, next |-> next(sched, now),
   gen |-> 1, version |-> 1, made |-> 0, runs |-> NoRuns, evicted |-> NoRuns,
   receipts |-> <<>>, retryAfter |-> NoTime]

\* What the table keeps: evicted runs only travel with the write.
Stored(r) == [r EXCEPT !.evicted = NoRuns]
===============================================================================
