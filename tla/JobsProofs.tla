----------------------------- MODULE JobsProofs -----------------------------
(***************************************************************************)
(* Theorems about Jobs, for every number of processes, requests, runs and  *)
(* every set of schedules.  First, what every operation on a job record    *)
(* preserves: the record stays well typed, no run name is forgotten, and   *)
(* only the write itself moves the version, by one.  From that: the        *)
(* variables stay well typed, a process that has read the record either    *)
(* still holds the current one or will see its write refused, commands are *)
(* applied at most once, a purge leaves nothing, and the processes         *)
(* implement the atomic job.                                               *)
(*                                                                         *)
(* Then, what every operation does to the runs of the record (Derived,     *)
(* Evolves), and from that what the record and its history say of them:    *)
(* pending work is current, outcomes are final, an occurrence becomes one  *)
(* run, a run is retried once, copies of a command get one answer, the     *)
(* history is complete, and a cancelled job makes no further run.          *)
(***************************************************************************)
EXTENDS Jobs, FiniteSetTheorems, TLAPS, WellFoundedInduction

\* s is a well-typed record that a step computes from r before it is written.
Draft(r, s) == JobOK(s) /\ s.version = r.version /\ s.made >= r.made

\* s is the next version of r.
Successor(r, s) == JobOK(s) /\ s.version = r.version + 1 /\ s.made >= r.made

-----------------------------------------------------------------------------
(***************************************************************************)
(* Setting one field.                                                      *)
(***************************************************************************)
\* Replacing the runs of a record by runs it has made.
LEMMA SetRuns ==
  ASSUME NEW r, JobOK(r), NEW f, RunTable(f, r.made)
  PROVE  Draft(r, [r EXCEPT !.runs = f])
<1> DEFINE s == [r EXCEPT !.runs = f]
<1>1. /\ s.runs = f /\ s.evicted = r.evicted
      /\ s.made = r.made /\ s.version = r.version /\ r.made \in Nat
  BY DEF JobOK, JobRecords
<1>2. s \in JobRecords(f, r.evicted)
  BY DEF JobOK, JobRecords
<1>3. RunTable(f, r.made) /\ RunTable(r.evicted, r.made)
  BY DEF JobOK
<1>4. Draft(r, s)
  <2> HIDE DEF s
  <2> QED
    BY <1>1, <1>2, <1>3 DEF JobOK, Draft
<1> QED
  BY <1>4

\* Replacing the evicted runs of a record by runs it has made.
LEMMA SetEvicted ==
  ASSUME NEW r, JobOK(r), NEW f, RunTable(f, r.made)
  PROVE  Draft(r, [r EXCEPT !.evicted = f])
<1> DEFINE s == [r EXCEPT !.evicted = f]
<1>1. /\ s.runs = r.runs /\ s.evicted = f
      /\ s.made = r.made /\ s.version = r.version /\ r.made \in Nat
  BY DEF JobOK, JobRecords
<1>2. s \in JobRecords(r.runs, f)
  BY DEF JobOK, JobRecords
<1>3. RunTable(r.runs, r.made) /\ RunTable(f, r.made)
  BY DEF JobOK
<1>4. Draft(r, s)
  <2> HIDE DEF s
  <2> QED
    BY <1>1, <1>2, <1>3 DEF JobOK, Draft
<1> QED
  BY <1>4

\* Moving the next occurrence.
LEMMA SetNext ==
  ASSUME NEW r, JobOK(r), NEW t \in Nat
  PROVE  Draft(r, [r EXCEPT !.next = t])
<1> DEFINE s == [r EXCEPT !.next = t]
<1>1. /\ s.runs = r.runs /\ s.evicted = r.evicted
      /\ s.made = r.made /\ s.version = r.version /\ r.made \in Nat
  BY DEF JobOK, JobRecords
<1>2. s \in JobRecords(r.runs, r.evicted)
  BY DEF JobOK, JobRecords
<1>3. RunTable(r.runs, r.made) /\ RunTable(r.evicted, r.made)
  BY DEF JobOK
<1>4. Draft(r, s)
  <2> HIDE DEF s
  <2> QED
    BY <1>1, <1>2, <1>3 DEF JobOK, Draft
<1> QED
  BY <1>4

\* Backing off, or not.
LEMMA SetRetryAfter ==
  ASSUME NEW r, JobOK(r), NEW t \in Nat
  PROVE  Draft(r, [r EXCEPT !.retryAfter = t])
<1> DEFINE s == [r EXCEPT !.retryAfter = t]
<1>1. /\ s.runs = r.runs /\ s.evicted = r.evicted
      /\ s.made = r.made /\ s.version = r.version /\ r.made \in Nat
  BY DEF JobOK, JobRecords
<1>2. s \in JobRecords(r.runs, r.evicted)
  BY DEF JobOK, JobRecords
<1>3. RunTable(r.runs, r.made) /\ RunTable(r.evicted, r.made)
  BY DEF JobOK
<1>4. Draft(r, s)
  <2> HIDE DEF s
  <2> QED
    BY <1>1, <1>2, <1>3 DEF JobOK, Draft
<1> QED
  BY <1>4

\* Pausing, resuming or cancelling.
LEMMA SetStatus ==
  ASSUME NEW r, JobOK(r), NEW st \in {"active", "paused", "cancelled"}
  PROVE  Draft(r, [r EXCEPT !.status = st])
<1> DEFINE s == [r EXCEPT !.status = st]
<1>1. /\ s.runs = r.runs /\ s.evicted = r.evicted
      /\ s.made = r.made /\ s.version = r.version /\ r.made \in Nat
  BY DEF JobOK, JobRecords
<1>2. s \in JobRecords(r.runs, r.evicted)
  BY DEF JobOK, JobRecords
<1>3. RunTable(r.runs, r.made) /\ RunTable(r.evicted, r.made)
  BY DEF JobOK
<1>4. Draft(r, s)
  <2> HIDE DEF s
  <2> QED
    BY <1>1, <1>2, <1>3 DEF JobOK, Draft
<1> QED
  BY <1>4

\* Starting a generation.
LEMMA SetGen ==
  ASSUME NEW r, JobOK(r), NEW g \in Nat
  PROVE  Draft(r, [r EXCEPT !.gen = g])
<1> DEFINE s == [r EXCEPT !.gen = g]
<1>1. /\ s.runs = r.runs /\ s.evicted = r.evicted
      /\ s.made = r.made /\ s.version = r.version /\ r.made \in Nat
  BY DEF JobOK, JobRecords
<1>2. s \in JobRecords(r.runs, r.evicted)
  BY DEF JobOK, JobRecords
<1>3. RunTable(r.runs, r.made) /\ RunTable(r.evicted, r.made)
  BY DEF JobOK
<1>4. Draft(r, s)
  <2> HIDE DEF s
  <2> QED
    BY <1>1, <1>2, <1>3 DEF JobOK, Draft
<1> QED
  BY <1>4

\* Changing the content.
LEMMA SetKind ==
  ASSUME NEW r, JobOK(r), NEW k \in Kinds
  PROVE  Draft(r, [r EXCEPT !.kind = k])
<1> DEFINE s == [r EXCEPT !.kind = k]
<1>1. /\ s.runs = r.runs /\ s.evicted = r.evicted
      /\ s.made = r.made /\ s.version = r.version /\ r.made \in Nat
  BY DEF JobOK, JobRecords
<1>2. s \in JobRecords(r.runs, r.evicted)
  BY DEF JobOK, JobRecords
<1>3. RunTable(r.runs, r.made) /\ RunTable(r.evicted, r.made)
  BY DEF JobOK
<1>4. Draft(r, s)
  <2> HIDE DEF s
  <2> QED
    BY <1>1, <1>2, <1>3 DEF JobOK, Draft
<1> QED
  BY <1>4

\* Changing the schedule.
LEMMA SetSched ==
  ASSUME NEW r, JobOK(r), NEW sc \in Schedules
  PROVE  Draft(r, [r EXCEPT !.sched = sc])
<1> DEFINE s == [r EXCEPT !.sched = sc]
<1>1. /\ s.runs = r.runs /\ s.evicted = r.evicted
      /\ s.made = r.made /\ s.version = r.version /\ r.made \in Nat
  BY DEF JobOK, JobRecords
<1>2. s \in JobRecords(r.runs, r.evicted)
  BY DEF JobOK, JobRecords
<1>3. RunTable(r.runs, r.made) /\ RunTable(r.evicted, r.made)
  BY DEF JobOK
<1>4. Draft(r, s)
  <2> HIDE DEF s
  <2> QED
    BY <1>1, <1>2, <1>3 DEF JobOK, Draft
<1> QED
  BY <1>4

\* Remembering commands.
LEMMA SetReceipts ==
  ASSUME NEW r, JobOK(r), NEW q \in Seq(Receipt)
  PROVE  Draft(r, [r EXCEPT !.receipts = q])
<1> DEFINE s == [r EXCEPT !.receipts = q]
<1>1. /\ s.runs = r.runs /\ s.evicted = r.evicted
      /\ s.made = r.made /\ s.version = r.version /\ r.made \in Nat
  BY DEF JobOK, JobRecords
<1>2. s \in JobRecords(r.runs, r.evicted)
  BY DEF JobOK, JobRecords
<1>3. RunTable(r.runs, r.made) /\ RunTable(r.evicted, r.made)
  BY DEF JobOK
<1>4. Draft(r, s)
  <2> HIDE DEF s
  <2> QED
    BY <1>1, <1>2, <1>3 DEF JobOK, Draft
<1> QED
  BY <1>4

\* The version a write carries.
LEMMA BumpVersion ==
  ASSUME NEW r, JobOK(r)
  PROVE  Successor(r, [r EXCEPT !.version = @ + 1])
<1> DEFINE s == [r EXCEPT !.version = @ + 1]
<1>1. /\ s.runs = r.runs /\ s.evicted = r.evicted
      /\ s.made = r.made /\ s.version = r.version + 1 /\ r.made \in Nat
  BY DEF JobOK, JobRecords
<1>2. s \in JobRecords(r.runs, r.evicted)
  BY DEF JobOK, JobRecords
<1>3. RunTable(r.runs, r.made) /\ RunTable(r.evicted, r.made)
  BY DEF JobOK
<1>4. Successor(r, s)
  <2> HIDE DEF s
  <2> QED
    BY <1>1, <1>2, <1>3 DEF JobOK, Successor
<1> QED
  BY <1>4

\* Steps of one computation add up.
LEMMA DraftDraft ==
  ASSUME NEW r, NEW s, NEW t, JobOK(r), Draft(r, s), Draft(s, t)
  PROVE  Draft(r, t)
BY DEF Draft, JobOK, JobRecords

\* A computation ends with the write.
LEMMA DraftSuccessor ==
  ASSUME NEW r, NEW s, NEW t, JobOK(r), Draft(r, s), Successor(s, t)
  PROVE  Successor(r, t)
BY DEF Draft, Successor, JobOK, JobRecords

-----------------------------------------------------------------------------
(***************************************************************************)
(* Schedules and runs.                                                     *)
(***************************************************************************)
\* A set of natural numbers has a least element, and Least finds it.
LEMMA LeastMember ==
  ASSUME NEW S, S \subseteq Nat, S # {}
  PROVE  Least(S) \in S /\ \A y \in S : Least(S) <= y
<1>1. \E x \in S : \A y \in S : ~ (<<y, x>> \in OpToRel(<, Nat))
  BY NatLessThanWellFounded, WFMin
<1>2. PICK x \in S : \A y \in S : ~ (<<y, x>> \in OpToRel(<, Nat))
  BY <1>1
<1>3. \A y \in S : ~ (y < x)
  BY <1>2 DEF OpToRel
<1>4. \A y \in S : x <= y
  BY <1>3
<1> QED
  BY <1>4 DEF Least

\* The next instant of a schedule is an instant.
LEMMA NextType ==
  ASSUME NEW sc \in Schedules, NEW now \in Nat
  PROVE  next(sc, now) \in Nat
<1>1. sc \subseteq Nat
  BY InstanceAssumption
<1> DEFINE later == {t \in sc : t > now}
<1>2. CASE later = {}
  BY <1>2 DEF next, NoTime
<1>3. CASE later # {}
  <2>1. Least(later) \in later
    BY <1>1, <1>3, LeastMember
  <2> QED
    BY <1>1, <1>3, <2>1 DEF next
<1> QED
  BY <1>2, <1>3

\* Whatever happens to a run, it stays a run.
LEMMA RunType ==
  ASSUME NEW v \in Run, NEW st \in TerminalStatus, NEW now \in Nat
  PROVE  finish(v, st) \in Run /\ executeLocal(v, now) \in Run
<1>1. finish(v, st) \in Run
  BY DEF finish, Run
<1>2. CASE v.kind = "reminder"
  BY <1>2 DEF executeLocal, finish, Run, TerminalStatus
<1>3. CASE v.kind # "reminder"
  <2>1. now + ApprovalTTL \in Nat
    BY LimitAssumption
  <2>2. "waiting_approval" \in PendingStatus \cup TerminalStatus
    BY DEF PendingStatus
  <2> DEFINE w == [v EXCEPT !.status = "waiting_approval"]
  <2>3. w \in Run
    BY <2>2 DEF Run
  <2>4. [w EXCEPT !.expires = now + ApprovalTTL] \in Run
    BY <2>1, <2>3 DEF Run
  <2>5. executeLocal(v, now) = [w EXCEPT !.expires = now + ApprovalTTL]
    BY <1>3, Zenon DEF executeLocal
  <2> HIDE DEF w
  <2> QED
    BY <1>1, <2>4, <2>5
<1> QED
  BY <1>1, <1>2, <1>3

\* A new run of a job is a run.
LEMMA NewRunType ==
  ASSUME NEW r, JobOK(r), NEW a \in Nat, NEW o \in Nat, NEW t \in Nat
  PROVE  newRun(r, a, o, t) \in Run
BY DEF newRun, JobOK, JobRecords, Run, PendingStatus, NoTime

\* Cancelling what is pending keeps the record well typed.
LEMMA CancelPendingType ==
  ASSUME NEW r, JobOK(r)
  PROVE  Draft(r, cancelPending(r))
<1> DEFINE f == [i \in DOMAIN r.runs |->
                   IF pendingRun(r.runs[i]) THEN finish(r.runs[i], "cancelled") ELSE r.runs[i]]
<1>1. cancelPending(r) = [r EXCEPT !.runs = f]
  BY DEF cancelPending, OnRuns
<1>2. f \in [DOMAIN r.runs -> Run]
  <2> SUFFICES ASSUME NEW i \in DOMAIN r.runs PROVE f[i] \in Run
    OBVIOUS
  <2>1. r.runs[i] \in Run
    BY DEF JobOK, JobRecords, RunTable
  <2>2. finish(r.runs[i], "cancelled") \in Run
    BY <2>1, RunType DEF TerminalStatus
  <2> QED
    BY <2>1, <2>2
<1> HIDE DEF f
<1>3. RunTable(f, r.made)
  BY <1>2 DEF JobOK, RunTable
<1>4. Draft(r, [r EXCEPT !.runs = f])
  BY <1>3, SetRuns
<1> QED
  BY <1>1, <1>4

\* So does failing the expired reviews.
LEMMA FailExpiredType ==
  ASSUME NEW r, JobOK(r), NEW now \in Nat
  PROVE  Draft(r, FailExpired(r, now))
<1> DEFINE f == [i \in DOMAIN r.runs |->
                   IF expiredAt(r.runs[i], now) THEN finish(r.runs[i], "failed") ELSE r.runs[i]]
<1>1. FailExpired(r, now) = [r EXCEPT !.runs = f]
  BY DEF FailExpired, OnRuns
<1>2. f \in [DOMAIN r.runs -> Run]
  <2> SUFFICES ASSUME NEW i \in DOMAIN r.runs PROVE f[i] \in Run
    OBVIOUS
  <2>1. r.runs[i] \in Run
    BY DEF JobOK, JobRecords, RunTable
  <2>2. finish(r.runs[i], "failed") \in Run
    BY <2>1, RunType DEF TerminalStatus
  <2> QED
    BY <2>1, <2>2
<1> HIDE DEF f
<1>3. RunTable(f, r.made)
  BY <1>2 DEF JobOK, RunTable
<1>4. Draft(r, [r EXCEPT !.runs = f])
  BY <1>3, SetRuns
<1> QED
  BY <1>1, <1>4

\* So does running what is queued.
LEMMA RunQueuedType ==
  ASSUME NEW r, JobOK(r), NEW now \in Nat
  PROVE  Draft(r, RunQueued(r, now))
<1> DEFINE g(v) == IF v.status # "queued" THEN v
                   ELSE IF v.gen # r.gen THEN finish(v, "cancelled")
                   ELSE executeLocal(v, now)
           f == [i \in DOMAIN r.runs |-> g(r.runs[i])]
<1>1. RunQueued(r, now) = [r EXCEPT !.runs = f]
  BY DEF RunQueued, OnRuns
<1>2. f \in [DOMAIN r.runs -> Run]
  <2> SUFFICES ASSUME NEW i \in DOMAIN r.runs PROVE g(r.runs[i]) \in Run
    OBVIOUS
  <2>1. r.runs[i] \in Run
    BY DEF JobOK, JobRecords, RunTable
  <2>2. finish(r.runs[i], "cancelled") \in Run /\ executeLocal(r.runs[i], now) \in Run
    BY <2>1, RunType DEF TerminalStatus
  <2> QED
    BY <2>1, <2>2
<1> HIDE DEF f
<1>3. RunTable(f, r.made)
  BY <1>2 DEF JobOK, RunTable
<1>4. Draft(r, [r EXCEPT !.runs = f])
  BY <1>3, SetRuns
<1> QED
  BY <1>1, <1>4

\* A new run takes a new name.
LEMMA AddRunType ==
  ASSUME NEW r, JobOK(r), NEW v \in Run
  PROVE  Draft(r, AddRun(r, v)) /\ r.made + 1 \in Nat
<1> DEFINE s == [r EXCEPT !.made = r.made + 1]
           D == DOMAIN r.runs \cup {r.made + 1}
           f == [i \in D |-> IF i = r.made + 1 THEN v ELSE r.runs[i]]
<1>1. r.made \in Nat /\ DOMAIN r.runs \subseteq 1..r.made /\ r.runs \in [DOMAIN r.runs -> Run]
  BY DEF JobOK, JobRecords, RunTable
<1>2. f \in [D -> Run] /\ D \subseteq 1..(r.made + 1)
  BY <1>1
<1>3. RunTable(f, r.made + 1)
  BY <1>2 DEF RunTable
<1>4. AddRun(r, v) = [s EXCEPT !.runs = f]
  BY Zenon DEF AddRun
<1>5. /\ s.made = r.made + 1 /\ s.version = r.version
      /\ s.runs = r.runs /\ s.evicted = r.evicted
  BY DEF JobOK, JobRecords
<1>6. s \in JobRecords(r.runs, r.evicted)
  BY <1>1 DEF JobOK, JobRecords
<1>7. RunTable(r.runs, r.made + 1) /\ RunTable(r.evicted, r.made + 1)
  <2>1. 1..r.made \subseteq 1..(r.made + 1)
    BY <1>1
  <2> QED
    BY <2>1 DEF JobOK, RunTable
<1> HIDE DEF s, D, f
<1>8. JobOK(s)
  BY <1>5, <1>6, <1>7 DEF JobOK
<1>9. Draft(s, [s EXCEPT !.runs = f])
  BY <1>3, <1>5, <1>8, SetRuns
<1> QED
  BY <1>1, <1>4, <1>5, <1>9 DEF Draft

\* Evicted runs are retained runs of the record.
LEMMA EvictType ==
  ASSUME NEW r, JobOK(r), NEW E, E \subseteq DOMAIN r.runs
  PROVE  Draft(r, Evict(r, E))
<1> DEFINE f == [i \in DOMAIN r.runs \ E |-> r.runs[i]]
           s == [r EXCEPT !.runs = f]
           D == DOMAIN r.evicted \cup E
           g == [i \in D |-> IF i \in E THEN r.runs[i] ELSE r.evicted[i]]
<1>1. /\ r.runs \in [DOMAIN r.runs -> Run] /\ DOMAIN r.runs \subseteq 1..r.made
      /\ r.evicted \in [DOMAIN r.evicted -> Run] /\ DOMAIN r.evicted \subseteq 1..r.made
  BY DEF JobOK, RunTable
<1>2. f \in [DOMAIN r.runs \ E -> Run] /\ DOMAIN r.runs \ E \subseteq 1..r.made
  BY <1>1
<1>3. g \in [D -> Run] /\ D \subseteq 1..r.made
  BY <1>1
<1>4. RunTable(f, r.made) /\ RunTable(g, r.made)
  BY <1>2, <1>3 DEF RunTable
<1>5. Evict(r, E) = [s EXCEPT !.evicted = g]
  BY Zenon DEF Evict
<1>6. s.made = r.made
  BY DEF JobOK, JobRecords
<1> HIDE DEF f, D, g
<1>7. Draft(r, s) /\ JobOK(s)
  BY <1>4, SetRuns DEF Draft
<1> HIDE DEF s
<1>8. Draft(s, [s EXCEPT !.evicted = g])
  BY <1>4, <1>6, <1>7, SetEvicted
<1> QED
  BY <1>5, <1>7, <1>8, DraftDraft

\* Making room and compacting evict retained runs only.
LEMMA RoomType ==
  ASSUME NEW r, JobOK(r), NEW keep
  PROVE  /\ \A s \in reserveRun(r) : Draft(r, s)
         /\ \A s \in compact(r, keep) : Draft(r, s)
         /\ Draft(r, r) /\ Draft(r, Evict(r, Terminal(r)))
<1>1. Terminal(r) \subseteq DOMAIN r.runs /\ Terminal(r) \subseteq Nat
  <2>1. DOMAIN r.runs \subseteq Nat
    BY DEF JobOK, JobRecords, RunTable
  <2> QED
    BY <2>1 DEF Terminal
<1>2. Draft(r, r)
  BY DEF Draft, JobOK, JobRecords
<1>3. ASSUME Terminal(r) # {} PROVE Draft(r, Evict(r, {Least(Terminal(r))}))
  <2>1. {Least(Terminal(r))} \subseteq DOMAIN r.runs
    BY <1>1, <1>3, LeastMember
  <2> QED
    BY <2>1, EvictType
<1>4. ASSUME NEW s \in reserveRun(r) PROVE Draft(r, s)
  BY <1>2, <1>3, <1>4 DEF reserveRun, When
<1>5. ASSUME NEW s \in compact(r, keep) PROVE Draft(r, s)
  <2>1. PICK E \in SUBSET (Terminal(r) \ {keep}) : s = Evict(r, E)
    BY <1>5 DEF compact
  <2> QED
    BY <1>1, <2>1, EvictType
<1>6. Draft(r, Evict(r, Terminal(r)))
  BY <1>1, EvictType
<1> QED
  BY <1>2, <1>4, <1>5, <1>6

-----------------------------------------------------------------------------
(***************************************************************************)
(* Commands.                                                               *)
(***************************************************************************)
\* Adding a run that is executed at once.
LEMMA WithRunType ==
  ASSUME NEW r, JobOK(r), NEW v \in Run, NEW now \in Nat
  PROVE  Draft(r, WithRun(r, v, now).rec) /\ WithRun(r, v, now).run \in Nat
<1>1. executeLocal(v, now) \in Run
  BY RunType DEF TerminalStatus
<1>2. Draft(r, AddRun(r, executeLocal(v, now))) /\ r.made + 1 \in Nat
  BY <1>1, AddRunType
<1> QED
  BY <1>2 DEF WithRun, Effect

\* Adding it after making room.
LEMMA RoomAndRunType ==
  ASSUME NEW r, JobOK(r), NEW s \in reserveRun(r), NEW now \in Nat,
         NEW a \in Nat, NEW o \in Nat, NEW t \in Nat
  PROVE  /\ Draft(r, WithRun(s, newRun(s, a, o, t), now).rec)
         /\ WithRun(s, newRun(s, a, o, t), now).run \in Nat
<1>1. Draft(r, s) /\ JobOK(s)
  BY RoomType DEF Draft
<1>2. newRun(s, a, o, t) \in Run
  BY <1>1, NewRunType
<1>3. /\ Draft(s, WithRun(s, newRun(s, a, o, t), now).rec)
      /\ WithRun(s, newRun(s, a, o, t), now).run \in Nat
  BY <1>1, <1>2, WithRunType
<1> QED
  BY <1>1, <1>3, DraftDraft

\* Resolving one retained run.
LEMMA FinishOneType ==
  ASSUME NEW r, JobOK(r), NEW i \in DOMAIN r.runs, NEW st \in TerminalStatus
  PROVE  Draft(r, [r EXCEPT !.runs[i] = finish(@, st)])
<1> DEFINE f == [r.runs EXCEPT ![i] = finish(r.runs[i], st)]
<1>1. r.runs \in [DOMAIN r.runs -> Run] /\ DOMAIN r.runs \subseteq 1..r.made
  BY DEF JobOK, JobRecords, RunTable
<1>2. finish(r.runs[i], st) \in Run
  BY <1>1, RunType, 0 \in Nat
<1>3. RunTable(f, r.made)
  BY <1>1, <1>2 DEF RunTable
<1>4. [r EXCEPT !.runs[i] = finish(@, st)] = [r EXCEPT !.runs = f]
  BY Zenon
<1> HIDE DEF f
<1>5. Draft(r, [r EXCEPT !.runs = f])
  BY <1>3, SetRuns
<1> QED
  BY <1>4, <1>5

\* Pausing, which a suspension does as well.
LEMMA PausedType ==
  ASSUME NEW r, JobOK(r)
  PROVE  Draft(r, Paused(r))
<1> DEFINE s == [r EXCEPT !.status = "paused"]
           t == [s EXCEPT !.gen = r.gen + 1]
<1>1. r.gen + 1 \in Nat /\ s.gen = r.gen
  BY DEF JobOK, JobRecords, RunTable
<1>2. Draft(r, s) /\ JobOK(s)
  BY SetStatus DEF Draft
<1>3. Paused(r) = cancelPending(t)
  BY <1>1 DEF Paused
<1> HIDE DEF s
<1>4. Draft(s, t) /\ JobOK(t)
  BY <1>1, <1>2, SetGen DEF Draft
<1> HIDE DEF t
<1>5. Draft(t, cancelPending(t))
  BY <1>4, CancelPendingType
<1>6. Draft(r, t)
  BY <1>2, <1>4, DraftDraft
<1> QED
  BY <1>3, <1>5, <1>6, DraftDraft

\* Pause, resume and cancel.
LEMMA ActionType ==
  ASSUME NEW r, JobOK(r), NEW c \in Call, c.op \in {"pause", "resume", "cancel"},
         NEW now \in Nat, NEW e \in Action(c, r, now)
  PROVE  Draft(r, e.rec) /\ e.run \in Nat
<1>1. CASE c.op = "pause"
  <2>1. e = Effect(Paused(r), NoRun)
    BY <1>1 DEF Action, When
  <2> QED
    BY <2>1, PausedType DEF Effect, NoRun
<1>2. CASE c.op = "resume"
  <2> DEFINE s == [r EXCEPT !.status = "active"]
             t == [s EXCEPT !.next = next(r.sched, now)]
             u == [t EXCEPT !.gen = r.gen + 1]
  <2>1. t.gen = r.gen /\ r.gen + 1 \in Nat /\ r.sched \in Schedules
    BY DEF JobOK, JobRecords
  <2>2. e = Effect(u, NoRun)
    BY <1>2, <2>1 DEF Action, When
  <2>3. Draft(r, s) /\ JobOK(s)
    BY SetStatus DEF Draft
  <2> HIDE DEF s
  <2>4. Draft(s, t) /\ JobOK(t)
    BY <2>1, <2>3, NextType, SetNext DEF Draft
  <2> HIDE DEF t
  <2>5. Draft(t, u)
    BY <2>1, <2>4, SetGen
  <2> HIDE DEF u
  <2>6. Draft(r, u)
    BY <2>3, <2>4, <2>5, DraftDraft
  <2> QED
    BY <2>2, <2>6 DEF Effect, NoRun
<1>3. CASE c.op = "cancel"
  <2> DEFINE s == [r EXCEPT !.status = "cancelled"]
             t == [s EXCEPT !.next = NoTime]
             u == [t EXCEPT !.gen = r.gen + 1]
  <2>1. t.gen = r.gen /\ r.gen + 1 \in Nat /\ NoTime \in Nat
    BY DEF JobOK, JobRecords, NoTime
  <2>2. e = Effect(cancelPending(u), NoRun)
    BY <1>3, <2>1 DEF Action, When
  <2>3. Draft(r, s) /\ JobOK(s)
    BY SetStatus DEF Draft
  <2> HIDE DEF s
  <2>4. Draft(s, t) /\ JobOK(t)
    BY <2>1, <2>3, SetNext DEF Draft
  <2> HIDE DEF t
  <2>5. Draft(t, u) /\ JobOK(u)
    BY <2>1, <2>4, SetGen DEF Draft
  <2> HIDE DEF u
  <2>6. Draft(u, cancelPending(u))
    BY <2>5, CancelPendingType
  <2>7. Draft(r, t)
    BY <2>3, <2>4, DraftDraft
  <2>8. Draft(r, u)
    BY <2>5, <2>7, DraftDraft
  <2>9. Draft(r, cancelPending(u))
    BY <2>6, <2>8, DraftDraft
  <2> QED
    BY <2>2, <2>9 DEF Effect, NoRun
<1> QED
  BY <1>1, <1>2, <1>3

\* An edit.
LEMMA UpdateType ==
  ASSUME NEW r, JobOK(r), NEW c \in Call, NEW now \in Nat, NEW e \in Update(c, r, now)
  PROVE  Draft(r, e.rec) /\ e.run \in Nat
<1> DEFINE n == IF c.sched = r.sched THEN r.next ELSE next(c.sched, now)
           s == [r EXCEPT !.gen = r.gen + 1]
           t == [s EXCEPT !.kind = c.kind]
           u == [t EXCEPT !.sched = c.sched]
           v == [u EXCEPT !.next = n]
<1>1. r.gen + 1 \in Nat /\ r.next \in Nat /\ u.next = r.next
  BY DEF JobOK, JobRecords
<1>2. c.kind \in Kinds /\ c.sched \in Schedules
  BY DEF Call
<1>3. n \in Nat
  BY <1>1, <1>2, NextType
<1>4. e = Effect(cancelPending(v), NoRun)
  BY <1>1 DEF Update, When
<1> HIDE DEF n
<1>5. Draft(r, s) /\ JobOK(s)
  BY <1>1, SetGen DEF Draft
<1> HIDE DEF s
<1>6. Draft(s, t) /\ JobOK(t)
  BY <1>2, <1>5, SetKind DEF Draft
<1> HIDE DEF t
<1>7. Draft(t, u) /\ JobOK(u)
  BY <1>2, <1>6, SetSched DEF Draft
<1> HIDE DEF u
<1>8. Draft(u, v) /\ JobOK(v)
  BY <1>3, <1>7, SetNext DEF Draft
<1> HIDE DEF v
<1>9. Draft(v, cancelPending(v))
  BY <1>8, CancelPendingType
<1>10. Draft(r, t)
  BY <1>5, <1>6, DraftDraft
<1>11. Draft(r, u)
  BY <1>7, <1>10, DraftDraft
<1>12. Draft(r, v)
  BY <1>8, <1>11, DraftDraft
<1>13. Draft(r, cancelPending(v))
  BY <1>9, <1>12, DraftDraft
<1> QED
  BY <1>4, <1>13 DEF Effect, NoRun

\* Commands about runs.
LEMMA RunCommandType ==
  ASSUME NEW r, JobOK(r), NEW c \in Call, NEW now \in Nat
  PROVE  \A e \in RunNow(r, now) \cup RetryRun(c, r, now) \cup ApproveRun(c, r, now)
                   \cup CancelRun(c, r) \cup AddNote(c, r) :
           Draft(r, e.rec) /\ e.run \in Nat
<1>1. ASSUME NEW e \in RunNow(r, now) PROVE Draft(r, e.rec) /\ e.run \in Nat
  <2>1. PICK s \in reserveRun(r) : e = WithRun(s, newRun(s, 1, NoRun, NoTime), now)
    BY <1>1 DEF RunNow, When
  <2> QED
    BY <2>1, RoomAndRunType DEF NoRun, NoTime
<1>2. ASSUME NEW e \in RetryRun(c, r, now) PROVE Draft(r, e.rec) /\ e.run \in Nat
  <2>1. /\ Retryable(r, c.target)
        /\ \E s \in reserveRun(r) :
             e = WithRun(s, newRun(s, r.runs[c.target].attempt + 1, c.target, NoTime), now)
    BY <1>2 DEF RetryRun, When
  <2>2. c.target \in Nat /\ r.runs[c.target].attempt + 1 \in Nat
    BY <2>1 DEF Retryable, Call, JobOK, RunTable, Run
  <2> QED
    BY <2>1, <2>2, RoomAndRunType DEF NoTime
<1>3. ASSUME NEW e \in ApproveRun(c, r, now) \cup CancelRun(c, r)
      PROVE  Draft(r, e.rec) /\ e.run \in Nat
  <2>1. c.target \in DOMAIN r.runs /\ c.target \in Nat
    BY <1>3 DEF ApproveRun, CancelRun, When, Call
  <2>2. \/ e = Effect([r EXCEPT !.runs[c.target] = finish(@, "succeeded")], c.target)
        \/ e = Effect([r EXCEPT !.runs[c.target] = finish(@, "cancelled")], c.target)
    BY <1>3, Zenon DEF ApproveRun, CancelRun, When
  <2>3. /\ Draft(r, [r EXCEPT !.runs[c.target] = finish(@, "succeeded")])
        /\ Draft(r, [r EXCEPT !.runs[c.target] = finish(@, "cancelled")])
    BY <2>1, FinishOneType DEF TerminalStatus
  <2>4. PICK s : e = Effect(s, c.target) /\ Draft(r, s)
    BY <2>2, <2>3, Zenon
  <2> QED
    BY <2>1, <2>4 DEF Effect
<1>4. ASSUME NEW e \in AddNote(c, r) PROVE Draft(r, e.rec) /\ e.run \in Nat
  <2>1. e = Effect(r, NoRun)
    BY <1>4 DEF AddNote, When
  <2>2. Draft(r, r)
    BY RoomType
  <2> QED
    BY <2>1, <2>2 DEF Effect, NoRun
<1> QED
  BY <1>1, <1>2, <1>3, <1>4

\* Every command leaves a draft of the next record.
LEMMA CommandType ==
  ASSUME NEW r, JobOK(r), NEW c \in Call, NEW now \in Nat, NEW e \in Command(c, r, now)
  PROVE  Draft(r, e.rec) /\ e.run \in Nat
<1>1. CASE c.op \in {"pause", "resume", "cancel"}
  BY <1>1, ActionType DEF Command
<1>2. CASE c.op = "update"
  BY <1>2, UpdateType DEF Command
<1>3. CASE c.op \in {"run", "retry", "approve", "cancelRun", "note"}
  BY <1>3, RunCommandType DEF Command
<1> QED
  BY <1>1, <1>2, <1>3 DEF Call, Operations

\* Dropping the oldest receipt leaves receipts.
LEMMA TrimType ==
  ASSUME NEW s \in Seq(Receipt)
  PROVE  Trim(s) \in Seq(Receipt)
BY DEF Trim

\* Recording a command writes the next version.
LEMMA ReceiptedType ==
  ASSUME NEW r, JobOK(r), NEW e, Draft(r, e.rec), e.run \in Nat, NEW c \in Call
  PROVE  Successor(r, Receipted(e, c))
<1> DEFINE q == Trim(Append(e.rec.receipts, [call |-> c, run |-> e.run]))
           s == [e.rec EXCEPT !.receipts = q]
           t == [s EXCEPT !.version = @ + 1]
<1>1. JobOK(e.rec)
  BY DEF Draft
<1>2. [call |-> c, run |-> e.run] \in Receipt /\ e.rec.receipts \in Seq(Receipt)
  BY <1>1 DEF Receipt, JobOK, JobRecords
<1>3. q \in Seq(Receipt)
  <2>1. Append(e.rec.receipts, [call |-> c, run |-> e.run]) \in Seq(Receipt)
    BY <1>2
  <2> QED
    BY <2>1, TrimType
<1>4. s.version = e.rec.version
  BY <1>1 DEF JobOK, JobRecords
<1>5. Receipted(e, c) = t
  BY <1>4 DEF Receipted
<1> HIDE DEF q
<1>6. Draft(e.rec, s) /\ JobOK(s)
  BY <1>1, <1>3, SetReceipts DEF Draft
<1> HIDE DEF s
<1>7. Successor(s, t)
  BY <1>6, BumpVersion
<1> HIDE DEF t
<1>8. Draft(r, s)
  BY <1>6, DraftDraft
<1>9. Successor(r, t)
  BY <1>7, <1>8, DraftSuccessor
<1> QED
  BY <1>5, <1>9

\* What mutate commits is the next version of what it read.
LEMMA MutatedType ==
  ASSUME NEW r, JobOK(r), NEW c \in Call, NEW now \in Nat, NEW m \in Mutated(c, r, now)
  PROVE  Successor(r, m.rec) /\ m.run \in Nat
<1>1. PICK e \in Command(c, r, now) :
        m \in {Effect(s, e.run) : s \in compact(Receipted(e, c), e.run)}
  BY DEF Mutated
<1>2. PICK s \in compact(Receipted(e, c), e.run) : m = Effect(s, e.run)
  BY <1>1
<1>3. Draft(r, e.rec) /\ e.run \in Nat
  BY CommandType
<1>4. Successor(r, Receipted(e, c))
  BY <1>3, ReceiptedType
<1>5. Draft(Receipted(e, c), s)
  BY <1>4, RoomType DEF Successor
<1>6. Successor(r, s)
  BY <1>4, <1>5 DEF Draft, Successor, JobOK, JobRecords
<1> QED
  BY <1>2, <1>3, <1>6 DEF Effect

-----------------------------------------------------------------------------
(***************************************************************************)
(* Writes nobody asked for.                                                *)
(***************************************************************************)
\* What a read writes back.
LEMMA RefreshedType ==
  ASSUME NEW r, JobOK(r), NEW now \in Nat
  PROVE  Successor(r, Refreshed(r, now))
<1> DEFINE f == FailExpired(r, now)
           s == [f EXCEPT !.retryAfter = NoTime]
           t == [s EXCEPT !.version = @ + 1]
<1>1. Draft(r, f) /\ JobOK(f)
  BY FailExpiredType DEF Draft
<1> HIDE DEF f
<1>2. Draft(f, s) /\ JobOK(s)
  BY <1>1, SetRetryAfter DEF Draft, NoTime
<1>3. s.version = f.version
  BY <1>1 DEF JobOK, JobRecords
<1>4. Refreshed(r, now) = t
  BY <1>3 DEF Refreshed, f
<1>5. Draft(r, s)
  BY <1>1, <1>2, DraftDraft
<1> HIDE DEF s
<1>6. Successor(s, t)
  BY <1>2, BumpVersion
<1> HIDE DEF t
<1>7. Successor(r, t)
  BY <1>5, <1>6, DraftSuccessor
<1> QED
  BY <1>4, <1>7

\* What a tick writes back.
LEMMA TickedType ==
  ASSUME NEW r, JobOK(r), NEW now \in Nat, NEW u \in Ticked(r, now)
  PROVE  Successor(r, u)
<1> DEFINE a == [r EXCEPT !.retryAfter = NoTime]
           b == FailExpired(a, now)
           s == RunQueued(b, now)
<1>1. Draft(r, a) /\ JobOK(a)
  BY SetRetryAfter DEF Draft, NoTime
<1> HIDE DEF a
<1>2. Draft(a, b) /\ JobOK(b)
  BY <1>1, FailExpiredType DEF Draft
<1> HIDE DEF b
<1>3. Draft(b, s) /\ JobOK(s)
  BY <1>2, RunQueuedType DEF Draft
<1>4. Draft(r, b)
  BY <1>1, <1>2, DraftDraft
<1>5. Draft(r, s)
  BY <1>3, <1>4, DraftDraft
<1>6. PICK t \in RunOccurrence(s, now) \cup BackOff(s, now) \cup {s} :
        u = [t EXCEPT !.version = @ + 1]
  BY DEF Ticked, a, b
<1> HIDE DEF s
<1>7. Draft(s, t)
  <2>1. CASE t \in RunOccurrence(s, now)
    <3> DEFINE W(x) == WithRun(x, newRun(x, 1, NoRun, s.next), now)
    <3>1. PICK x \in reserveRun(s) :
            \E y \in compact(W(x).rec, W(x).run) : t = [y EXCEPT !.next = next(s.sched, now)]
      BY <2>1 DEF RunOccurrence
    <3>2. PICK y \in compact(W(x).rec, W(x).run) : t = [y EXCEPT !.next = next(s.sched, now)]
      BY <3>1
    <3>3. s.next \in Nat /\ s.sched \in Schedules
      BY <1>3 DEF JobOK, JobRecords
    <3>4. Draft(s, W(x).rec)
      <4>1. 1 \in Nat /\ NoRun \in Nat
        BY DEF NoRun
      <4> QED
        BY <1>3, <3>3, <4>1, RoomAndRunType
    <3> HIDE DEF W
    <3>5. Draft(W(x).rec, y) /\ JobOK(y)
      <4>1. JobOK(W(x).rec)
        BY <3>4 DEF Draft
      <4>2. Draft(W(x).rec, y)
        BY <3>2, <4>1, RoomType
      <4> QED
        BY <4>2 DEF Draft
    <3>6. Draft(y, t)
      BY <3>2, <3>3, <3>5, NextType, SetNext
    <3>7. Draft(s, y)
      BY <1>3, <3>4, <3>5, DraftDraft
    <3> QED
      BY <1>3, <3>6, <3>7, DraftDraft
  <2>2. CASE t \in BackOff(s, now)
    <3>1. PICK y \in {s} \cup {Evict(x, Terminal(x)) : x \in reserveRun(s)} :
            t = [y EXCEPT !.retryAfter = now + RetryDelay]
      BY <2>2 DEF BackOff, When
    <3>2. ASSUME NEW x \in reserveRun(s) PROVE Draft(s, Evict(x, Terminal(x)))
      <4>1. Draft(s, x) /\ JobOK(x)
        BY <1>3, RoomType DEF Draft
      <4>2. Draft(x, Evict(x, Terminal(x)))
        BY <4>1, RoomType
      <4> QED
        BY <1>3, <4>1, <4>2, DraftDraft
    <3>3. Draft(s, s)
      BY <1>3, RoomType
    <3>4. Draft(s, y) /\ JobOK(y)
      BY <3>1, <3>2, <3>3 DEF Draft
    <3>5. now + RetryDelay \in Nat
      BY LimitAssumption
    <3>6. Draft(y, t)
      BY <3>1, <3>4, <3>5, SetRetryAfter
    <3> QED
      BY <1>3, <3>4, <3>6, DraftDraft
  <2>3. CASE t = s
    BY <1>3, <2>3, RoomType
  <2> QED
    BY <1>6, <2>1, <2>2, <2>3
<1>8. Draft(r, t) /\ JobOK(t)
  BY <1>5, <1>7, DraftDraft DEF Draft
<1>9. Successor(t, u)
  BY <1>6, <1>8, BumpVersion
<1> QED
  BY <1>8, <1>9, DraftSuccessor

\* What a suspension writes back.
LEMMA SuspendedType ==
  ASSUME NEW r, JobOK(r)
  PROVE  Successor(r, Suspended(r))
<1> DEFINE a == Paused(r)
           s == [a EXCEPT !.next = NoTime]
           t == [s EXCEPT !.version = @ + 1]
<1>1. Draft(r, a) /\ JobOK(a)
  BY PausedType DEF Draft
<1> HIDE DEF a
<1>2. Draft(a, s) /\ JobOK(s)
  BY <1>1, SetNext DEF Draft, NoTime
<1>3. s.version = a.version
  BY <1>1 DEF JobOK, JobRecords
<1>4. Suspended(r) = t
  BY <1>3 DEF Suspended, a
<1>5. Draft(r, s)
  BY <1>1, <1>2, DraftDraft
<1> HIDE DEF s
<1>6. Successor(s, t)
  BY <1>2, BumpVersion
<1> HIDE DEF t
<1>7. Successor(r, t)
  BY <1>5, <1>6, DraftSuccessor
<1> QED
  BY <1>4, <1>7

\* What a create writes is a job at version 1.
LEMMA CreatedType ==
  ASSUME NEW b \in [kind : Kinds, sched : Schedules], NEW now \in Nat
  PROVE  JobOK(Created(b.kind, b.sched, now)) /\ Created(b.kind, b.sched, now).version = 1
<1> DEFINE s == Created(b.kind, b.sched, now)
<1>1. b.kind \in Kinds /\ b.sched \in Schedules
  OBVIOUS
<1>2. next(b.sched, now) \in Nat
  BY <1>1, NextType
<1>3. <<>> \in Seq(Receipt)
  OBVIOUS
<1>4. s \in JobRecords(NoRuns, NoRuns) /\ s.runs = NoRuns /\ s.evicted = NoRuns /\ s.version = 1
      /\ s.made = 0
  BY <1>1, <1>2, <1>3 DEF Created, JobRecords, NoTime
<1>5. RunTable(NoRuns, 0)
  BY DEF RunTable, NoRuns
<1> HIDE DEF s
<1>6. JobOK(s) /\ s.version = 1
  BY <1>4, <1>5 DEF JobOK
<1> QED
  BY <1>6 DEF s

\* What the table stores of a record is a record of the same version, and
\* never the absence of one.
LEMMA StoredType ==
  ASSUME NEW r, JobOK(r)
  PROVE  /\ JobOK(Stored(r)) /\ Stored(r).version = r.version
         /\ Stored(r) # NoRecord /\ r # NoRecord
<1>1. RunTable(NoRuns, r.made)
  BY DEF RunTable, NoRuns
<1>2. JobOK(Stored(r)) /\ Stored(r).version = r.version
  BY <1>1, SetEvicted DEF Stored, Draft
<1>3. ASSUME NEW x, JobOK(x) PROVE x # NoRecord
  <2>1. x.version # 0
    BY <1>3 DEF JobOK, JobRecords
  <2> QED
    BY <2>1 DEF NoRecord
<1> QED
  BY <1>2, <1>3

-----------------------------------------------------------------------------
(***************************************************************************)
(* Type correctness.                                                       *)
(***************************************************************************)
Phases == {"idle", "create", "commit", "recheck", "expire", "due", "tick", "suspend", "fence"}

\* A process enters a phase with what that phase needs.
LEMMA BecomeType ==
  ASSUME ProcsOK, clock \in 0..MaxTime, clock' = clock, calls' = calls,
         NEW p \in Procs, NEW pc \in Phases, NEW q \in Requests \cup {NoCall},
         NEW t \in 0..clock, NEW s,
         pc \in {"commit", "recheck"} => q \in Requests, pc = "commit" => calls[q] \in Call,
         pc \in {"commit", "expire", "tick", "fence"} => JobOK(s),
         Become(p, pc, q, t, s)
  PROVE  ProcsOK'
<1> DEFINE w == [pc |-> pc, req |-> q, now |-> t, snap |-> s]
           S == {proc'[x].snap : x \in Procs}
           R == [pc : Phases, req : Requests \cup {NoCall}, now : 0..MaxTime, snap : S]
<1>1. /\ proc \in [Procs -> [pc : Phases, req : Requests \cup {NoCall}, now : 0..MaxTime,
                              snap : {proc[x].snap : x \in Procs}]]
      /\ \A x \in Procs : /\ proc[x].now <= clock
                          /\ proc[x].pc \in {"commit", "recheck"} => proc[x].req \in Requests
                          /\ proc[x].pc = "commit" => calls[proc[x].req] \in Call
                          /\ Holds(x) => JobOK(proc[x].snap)
  BY DEF ProcsOK, Phases
<1>2. proc' = [proc EXCEPT ![p] = w]
  BY DEF Become
<1>3. proc'[p] = w /\ \A x \in Procs \ {p} : proc'[x] = proc[x]
  BY <1>1, <1>2
<1>4. DOMAIN proc' = Procs
  BY <1>1, <1>2
<1>5. ASSUME NEW x \in Procs PROVE proc'[x] \in R
  <2>1. proc'[x].snap \in S
    OBVIOUS
  <2>2. CASE x = p
    <3>1. MaxTime \in Nat /\ t \in 0..MaxTime
      BY InstanceAssumption
    <3> HIDE DEF S
    <3> QED
      BY <1>3, <2>1, <2>2, <3>1
  <2>3. CASE x # p
    <3> HIDE DEF S
    <3> QED
      BY <1>1, <1>3, <2>1, <2>3
  <2> QED
    BY <2>2, <2>3
<1>6. proc' \in [Procs -> R]
  <2> HIDE DEF R
  <2> QED
    BY <1>1, <1>2, <1>4, <1>5
<1>7. ASSUME NEW x \in Procs
      PROVE  /\ proc'[x].now <= clock
             /\ proc'[x].pc \in {"commit", "recheck"} => proc'[x].req \in Requests
             /\ proc'[x].pc = "commit" => calls'[proc'[x].req] \in Call
             /\ Holds(x)' => JobOK(proc'[x].snap)
  <2>1. CASE x = p
    BY <1>3, <2>1 DEF Holds
  <2>2. CASE x # p
    BY <1>1, <1>3, <2>2 DEF Holds
  <2> QED
    BY <2>1, <2>2
<1> QED
  BY <1>6, <1>7 DEF ProcsOK, Phases

\* So does a process that ends.
LEMMA EndType ==
  ASSUME ProcsOK, clock \in 0..MaxTime, clock' = clock, calls' = calls,
         NEW p \in Procs, End(p)
  PROVE  ProcsOK'
<1>1. Become(p, "idle", NoCall, NoTime, NoRecord)
  BY DEF End, Become, Idle
<1>2. NoTime \in 0..clock
  BY InstanceAssumption DEF NoTime
<1> QED
  BY <1>1, <1>2, BecomeType DEF Phases

\* A process that does nothing stays typed while the clock does not go back
\* and commands remain issued.
LEMMA StayType ==
  ASSUME ProcsOK, clock \in Nat, clock' \in Nat, clock <= clock', proc' = proc,
         \A q \in Requests : calls[q] \in Call => calls'[q] \in Call
  PROVE  ProcsOK'
<1>1. ASSUME NEW p \in Procs
      PROVE  /\ proc[p].now <= clock'
             /\ proc[p].pc \in {"commit", "recheck"} => proc[p].req \in Requests
             /\ proc[p].pc = "commit" => calls'[proc[p].req] \in Call
             /\ Holds(p) => JobOK(proc[p].snap)
  <2>1. proc[p].now \in Nat /\ proc[p].now <= clock
    BY InstanceAssumption DEF ProcsOK
  <2>2. proc[p].now <= clock'
    BY <2>1
  <2> QED
    BY <2>2 DEF ProcsOK
<1> QED
  BY <1>1, Zenon DEF ProcsOK, Holds

\* The history remains a table of runs.
LEMMA ArchiveType ==
  ASSUME NEW before, NEW after, JobOK(after),
         ledger \in [DOMAIN ledger -> Run], DOMAIN ledger \subseteq Nat
  PROVE  /\ Archive(before, after) \in [DOMAIN Archive(before, after) -> Run]
         /\ DOMAIN Archive(before, after) \subseteq Nat
<1> DEFINE seen == Observed(after)
           changed == {i \in DOMAIN seen : i \in DOMAIN before.runs => before.runs[i] # seen[i]}
           f == [i \in DOMAIN ledger \cup changed |-> IF i \in changed THEN seen[i] ELSE ledger[i]]
<1>1. /\ after.runs \in [DOMAIN after.runs -> Run] /\ DOMAIN after.runs \subseteq Nat
      /\ after.evicted \in [DOMAIN after.evicted -> Run] /\ DOMAIN after.evicted \subseteq Nat
  BY DEF JobOK, JobRecords, RunTable
<1>2. seen \in [DOMAIN seen -> Run] /\ DOMAIN seen \subseteq Nat
  BY <1>1 DEF Observed
<1>3. Archive(before, after) = f
  BY Zenon DEF Archive
<1>4. changed \subseteq DOMAIN seen
  OBVIOUS
<1> HIDE DEF seen, changed
<1>5. f \in [DOMAIN ledger \cup changed -> Run] /\ DOMAIN ledger \cup changed \subseteq Nat
  BY <1>2, <1>4
<1> HIDE DEF f
<1> QED
  BY <1>3, <1>5

\* A write stores the next version of the record and archives its runs.
LEMMA WriteType ==
  ASSUME StoreOK, NEW r, JobOK(r), Write(r)
  PROVE  StoreOK'
<1>1. rec' = Stored(r) /\ JobOK(Stored(r))
  BY StoredType DEF Write
<1>2. ledger' \in [DOMAIN ledger' -> Run] /\ DOMAIN ledger' \subseteq Nat
  BY ArchiveType DEF Write, StoreOK
<1> QED
  BY <1>1, <1>2, Zenon DEF StoreOK

\* The parts of the state an action leaves alone.
LEMMA StaysType ==
  ASSUME TypeOK
  PROVE  /\ NoWrite => StoreOK'
         /\ UNCHANGED environment => EnvironmentOK' /\ clock' = clock /\ calls' = calls
         /\ UNCHANGED history => HistoryOK'
BY Zenon DEF TypeOK, StoreOK, EnvironmentOK, HistoryOK, NoWrite, environment, history

\* Answers are about runs.
LEMMA AnswerType ==
  ASSUME HistoryOK, UNCHANGED applied, NEW q \in Requests, NEW R, R \subseteq Nat, Answer(q, R)
  PROVE  HistoryOK'
BY DEF HistoryOK, Answer

\* Also when they are taken from a receipt.
LEMMA AnswerFromType ==
  ASSUME HistoryOK, UNCHANGED applied, NEW q \in Requests, NEW r, JobOK(r), AnswerFrom(r, q)
  PROVE  HistoryOK'
<1> DEFINE R == {r.receipts[i].run : i \in {j \in Receipts(r, q) : r.receipts[j].call = calls[q]}}
<1>1. r.receipts \in Seq(Receipt)
  BY DEF JobOK, JobRecords
<1>2. R \subseteq Nat
  <2> SUFFICES ASSUME NEW i \in Receipts(r, q) PROVE r.receipts[i].run \in Nat
    OBVIOUS
  <2>1. i \in 1..Len(r.receipts)
    BY DEF Receipts
  <2>2. r.receipts[i] \in Receipt
    BY <1>1, <2>1
  <2> QED
    BY <2>2 DEF Receipt
<1>3. Answer(q, R)
  BY DEF AnswerFrom
<1> HIDE DEF R
<1> QED
  BY <1>2, <1>3, AnswerType

\* A client's command is a command.
LEMMA IssueType ==
  ASSUME TypeOK, NEW q \in Requests, Issue(q)
  PROVE  TypeOK'
<1>0. PICK op \in Ops : \E i \in Targets(op), k \in Kinds, s \in Schedules :
        calls' = [calls EXCEPT ![q] = [id |-> q, op |-> op, version |-> rec.version,
                                       target |-> i, kind |-> k, sched |-> s]]
  BY DEF Issue
<1>1. PICK i \in Targets(op), k \in Kinds, s \in Schedules :
        calls' = [calls EXCEPT ![q] = [id |-> q, op |-> op, version |-> rec.version,
                                       target |-> i, kind |-> k, sched |-> s]]
  BY <1>0
<1>2. JobOK(rec)
  BY DEF Issue, TypeOK, StoreOK
<1>3. i \in Nat
  BY <1>2 DEF Targets, NoRun, JobOK, RunTable, JobRecords
<1>4. rec.version \in Nat /\ op \in Operations
  BY <1>2, InstanceAssumption DEF JobOK, JobRecords
<1>5. [id |-> q, op |-> op, version |-> rec.version, target |-> i, kind |-> k, sched |-> s] \in Call
  BY <1>3, <1>4 DEF Call
<1>6. calls' \in [Requests -> Call \cup {NoCall}]
  BY <1>1, <1>5 DEF TypeOK, EnvironmentOK
<1>7. UNCHANGED <<rec, ledger, account, clock, birth, proc, purge, applied, answers>>
  BY DEF Issue
<1>8. StoreOK' /\ HistoryOK'
  BY <1>7, Zenon DEF TypeOK, StoreOK, HistoryOK
<1>9. EnvironmentOK'
  BY <1>6, <1>7, Zenon DEF TypeOK, EnvironmentOK
<1>10. ProcsOK'
  BY <1>1, <1>5, <1>7, StayType, InstanceAssumption DEF TypeOK, EnvironmentOK
<1> QED
  BY <1>8, <1>9, <1>10 DEF TypeOK

\* A process that writes nothing and tells nobody anything.
LEMMA QuietType ==
  ASSUME TypeOK, NoWrite, UNCHANGED environment, UNCHANGED history,
         NEW p \in Procs, NEW pc \in Phases, NEW q \in Requests \cup {NoCall},
         NEW t \in 0..clock, NEW s,
         pc \in {"commit", "recheck"} => q \in Requests, pc = "commit" => calls[q] \in Call,
         pc \in {"commit", "expire", "tick", "fence"} => JobOK(s),
         Become(p, pc, q, t, s) \/ End(p)
  PROVE  TypeOK'
<1>1. StoreOK' /\ EnvironmentOK' /\ clock' = clock /\ calls' = calls /\ HistoryOK'
  BY StaysType
<1>2. ProcsOK'
  BY <1>1, BecomeType, EndType DEF TypeOK, EnvironmentOK
<1> QED
  BY <1>1, <1>2 DEF TypeOK

\* A process that has written the successor of the record it held.
LEMMA CommittedType ==
  ASSUME TypeOK, StoreOK', UNCHANGED environment, HistoryOK', NEW p \in Procs, End(p)
  PROVE  TypeOK'
<1>1. EnvironmentOK' /\ clock' = clock /\ calls' = calls
  BY StaysType
<1>2. ProcsOK'
  BY <1>1, EndType DEF TypeOK, EnvironmentOK
<1> QED
  BY <1>1, <1>2 DEF TypeOK

\* The handlers of creates, commands and reads.
LEMMA HandlerType ==
  ASSUME TypeOK, NEW p \in Procs, Handler(p)
  PROVE  TypeOK'
<1> USE DEF TypeOK
<1>0. clock \in 0..clock /\ clock \in Nat /\ NoTime \in 0..clock
  BY InstanceAssumption DEF EnvironmentOK, NoTime
<1>1. CASE CreateRead(p)
  BY <1>0, <1>1, QuietType DEF CreateRead, Phases
<1>2. CASE CreateCommit(p)
  <2>1. proc[p].now \in Nat
    BY InstanceAssumption DEF ProcsOK
  <2>2. JobOK(Created(birth.kind, birth.sched, proc[p].now))
    BY <2>1, CreatedType DEF EnvironmentOK
  <2>3. StoreOK'
    <3>1. \/ rec' = Created(birth.kind, birth.sched, proc[p].now) /\ UNCHANGED ledger
          \/ NoWrite
      BY <1>2 DEF CreateCommit
    <3> QED
      BY <2>2, <3>1, StaysType, Zenon DEF StoreOK
  <2>4. HistoryOK' /\ UNCHANGED environment /\ End(p)
    BY <1>2, StaysType DEF CreateCommit
  <2> QED
    BY <2>3, <2>4, CommittedType
<1>3. ASSUME NEW q \in Requests, CommandRead(p, q) PROVE TypeOK'
  <2>1. JobOK(rec)
    BY <1>3 DEF CommandRead, StoreOK
  <2>2. CASE Receipts(rec, q) # {}
    <3>1. StoreOK' /\ EnvironmentOK' /\ clock' = clock /\ calls' = calls
      BY <1>3, StaysType DEF CommandRead
    <3>2. HistoryOK'
      BY <1>3, <2>1, <2>2, AnswerFromType DEF CommandRead
    <3>3. ProcsOK'
      BY <1>0, <1>3, <2>2, <3>1, StayType DEF CommandRead
    <3> QED
      BY <3>1, <3>2, <3>3
  <2>3. CASE Receipts(rec, q) = {}
    <3>1. Become(p, "commit", q, clock, rec) /\ NoWrite /\ UNCHANGED environment /\ UNCHANGED history
      BY <1>3, <2>3 DEF CommandRead, history
    <3> QED
      <4>1. calls[q] \in Call
        BY <1>3 DEF CommandRead, EnvironmentOK
      <4> QED
        BY <1>0, <2>1, <3>1, <4>1, QuietType DEF Phases
  <2> QED
    BY <2>2, <2>3
<1>4. CASE CommandCommit(p)
  <2> DEFINE q == proc[p].req
  <2>1. proc[p].pc = "commit" /\ q \in Requests /\ JobOK(proc[p].snap) /\ proc[p].now \in Nat
        /\ calls[q] \in Call
    BY <1>4, InstanceAssumption DEF CommandCommit, ProcsOK, Holds
  <2>2. ASSUME Unchanged(proc[p].snap),
               NEW e \in Mutated(calls[q], proc[p].snap, proc[p].now),
               Write(e.rec), Answer(q, {e.run}),
               applied' = [applied EXCEPT ![q] = @ + 1], End(p)
        PROVE  TypeOK'
    <3>1. JobOK(e.rec) /\ e.run \in Nat
      BY <2>1, <2>2, MutatedType DEF Successor
    <3>2. StoreOK'
      BY <2>2, <3>1, WriteType
    <3>3. applied' \in [Requests -> Nat] /\ answers' \in [Requests -> SUBSET Nat]
      BY <2>1, <2>2, <3>1 DEF Answer, HistoryOK
    <3> QED
      BY <1>4, <2>2, <3>2, <3>3, CommittedType DEF CommandCommit, HistoryOK
  <2>3. CASE NoWrite /\ UNCHANGED history /\ (End(p) \/ Become(p, "recheck", q, NoTime, NoRecord))
    BY <1>0, <1>4, <2>1, <2>3, QuietType DEF CommandCommit, Phases
  <2> QED
    BY <1>4, <2>2, <2>3 DEF CommandCommit
<1>5. CASE CommandRecheck(p)
  <2>1. proc[p].req \in Requests /\ (rec # NoRecord => JobOK(rec))
    BY <1>5 DEF CommandRecheck, ProcsOK, StoreOK
  <2>2. StoreOK' /\ EnvironmentOK' /\ clock' = clock /\ calls' = calls
    BY <1>5, StaysType DEF CommandRecheck
  <2>3. HistoryOK'
    <3>1. CASE UNCHANGED answers
      BY <1>5, <3>1, StaysType DEF CommandRecheck, history
    <3>2. CASE rec # NoRecord /\ AnswerFrom(rec, proc[p].req)
      BY <1>5, <2>1, <3>2, AnswerFromType DEF CommandRecheck
    <3> QED
      BY <1>5, <3>1, <3>2 DEF CommandRecheck
  <2> QED
    BY <1>5, <2>2, <2>3, CommittedType DEF CommandRecheck
<1>6. CASE ViewRead(p)
  BY <1>0, <1>6, QuietType DEF ViewRead, Phases, StoreOK
<1>7. CASE ViewCommit(p)
  <2>1. JobOK(proc[p].snap) /\ proc[p].now \in Nat
    BY <1>7, InstanceAssumption DEF ViewCommit, ProcsOK, Holds
  <2>2. JobOK(Refreshed(proc[p].snap, proc[p].now))
    BY <2>1, RefreshedType DEF Successor
  <2>3. StoreOK'
    BY <1>7, <2>2, WriteType, StaysType DEF ViewCommit
  <2> QED
    BY <1>7, <2>3, StaysType, CommittedType DEF ViewCommit
<1> QED
  BY <1>1, <1>2, <1>3, <1>4, <1>5, <1>6, <1>7 DEF Handler

\* The worker, and invocations that die.
LEMMA WorkerType ==
  ASSUME TypeOK, NEW p \in Procs, Worker(p) \/ Crash(p)
  PROVE  TypeOK'
<1> USE DEF TypeOK
<1>0. /\ clock \in 0..clock /\ NoTime \in 0..clock
      /\ proc[p].now \in 0..clock /\ proc[p].now \in Nat
  BY InstanceAssumption DEF EnvironmentOK, ProcsOK, NoTime
<1>1. CASE TickStart(p)
  BY <1>0, <1>1, QuietType DEF TickStart, Phases
<1>2. CASE TickRead(p)
  BY <1>0, <1>2, QuietType DEF TickRead, Phases, StoreOK
<1>3. CASE TickCommit(p)
  <2>1. JobOK(proc[p].snap)
    BY <1>3 DEF TickCommit, ProcsOK, Holds
  <2>2. ASSUME NEW r \in Ticked(proc[p].snap, proc[p].now), Write(r), End(p)
        PROVE  TypeOK'
    <3>1. JobOK(r)
      BY <1>0, <2>1, TickedType DEF Successor
    <3>2. StoreOK'
      BY <2>2, <3>1, WriteType
    <3> QED
      BY <1>3, <2>2, <3>2, StaysType, CommittedType DEF TickCommit
  <2>3. CASE NoWrite /\ (End(p) \/ Become(p, "suspend", NoCall, NoTime, NoRecord))
    BY <1>0, <1>3, <2>3, QuietType DEF TickCommit, Phases
  <2> QED
    BY <1>3, <2>2, <2>3 DEF TickCommit
<1>4. CASE SuspendRead(p)
  BY <1>0, <1>4, QuietType DEF SuspendRead, Phases, StoreOK
<1>5. CASE SuspendCommit(p)
  <2>1. JobOK(Stored(Suspended(proc[p].snap)))
    <3>1. JobOK(proc[p].snap)
      BY <1>5 DEF SuspendCommit, ProcsOK, Holds
    <3>2. JobOK(Suspended(proc[p].snap))
      BY <3>1, SuspendedType DEF Successor
    <3> QED
      BY <3>2, StoredType
  <2>2. StoreOK'
    <3>1. \/ rec' = Stored(Suspended(proc[p].snap)) /\ UNCHANGED ledger
          \/ NoWrite
      BY <1>5 DEF SuspendCommit
    <3> QED
      BY <2>1, <3>1, StaysType, Zenon DEF StoreOK
  <2> QED
    BY <1>5, <2>2, StaysType, CommittedType DEF SuspendCommit
<1>6. CASE Crash(p)
  BY <1>0, <1>6, QuietType DEF Crash, Phases
<1> QED
  BY <1>1, <1>2, <1>3, <1>4, <1>5, <1>6 DEF Worker

\* The account and the clock.
LEMMA WorldType ==
  ASSUME TypeOK,
         \/ \E event \in {"revoke", "reinstate", "purge"}, from, to \in
                {"active", "inactive", "deleting"} : SetAccount(event, from, to)
         \/ PurgeList \/ PurgeDelete \/ AdvanceClock
  PROVE  TypeOK'
<1> USE DEF TypeOK
<1>1. clock \in Nat /\ MaxTime \in Nat /\ clock <= MaxTime
  BY InstanceAssumption DEF EnvironmentOK
<1>2. /\ UNCHANGED <<birth, calls, proc, applied, answers>>
      /\ clock' = clock \/ AdvanceClock
  BY DEF SetAccount, PurgeList, PurgeDelete, AdvanceClock
<1>3. HistoryOK'
  BY <1>2, Zenon DEF HistoryOK
<1>4. clock' \in 0..MaxTime /\ clock <= clock'
  BY <1>1, <1>2 DEF AdvanceClock
<1>5. ProcsOK'
  BY <1>1, <1>2, <1>4, StayType
<1>6. StoreOK'
  <2>1. CASE UNCHANGED <<rec, ledger>>
    BY <2>1, Zenon DEF StoreOK
  <2>2. CASE PurgeDelete
    <3>1. rec' # NoRecord => JobOK(rec')
      BY <2>2 DEF PurgeDelete, StoreOK
    <3>2. ledger' = [i \in DOMAIN ledger \ purge.runs |-> ledger[i]]
      BY <2>2 DEF PurgeDelete
    <3>3. ledger' \in [DOMAIN ledger' -> Run] /\ DOMAIN ledger' \subseteq Nat
      BY <3>2 DEF StoreOK
    <3> QED
      BY <3>1, <3>3, Zenon DEF StoreOK
  <2> QED
    BY <2>1, <2>2 DEF SetAccount, PurgeList, AdvanceClock
<1>7. EnvironmentOK'
  <2>1. account' \in {"active", "inactive", "deleting"}
    BY DEF EnvironmentOK, SetAccount, PurgeList, PurgeDelete, AdvanceClock
  <2>2. purge' \in [pc : {"none", "listed", "done"}, job : BOOLEAN, runs : SUBSET Nat]
    <3>1. CASE purge' = purge
      BY <3>1 DEF EnvironmentOK
    <3>2. CASE PurgeList
      <4>1. purge' = [pc |-> "listed", job |-> rec # NoRecord, runs |-> DOMAIN ledger]
        BY <3>2 DEF PurgeList
      <4>2. DOMAIN ledger \in SUBSET Nat
        BY DEF StoreOK
      <4>3. (rec # NoRecord) \in BOOLEAN
        OBVIOUS
      <4> QED
        BY <4>1, <4>2, <4>3
    <3>3. CASE PurgeDelete
      BY <3>3 DEF PurgeDelete, EnvironmentOK
    <3> QED
      BY <3>1, <3>2, <3>3 DEF SetAccount, AdvanceClock
  <2> QED
    BY <1>2, <1>4, <2>1, <2>2, Zenon DEF EnvironmentOK
<1> QED
  BY <1>3, <1>5, <1>6, <1>7

\* Every step preserves the types.
LEMMA TypeStep == TypeOK /\ [Next]_vars => TypeOK'
<1> SUFFICES ASSUME TypeOK, [Next]_vars PROVE TypeOK'
  OBVIOUS
<1>1. CASE UNCHANGED vars
  BY <1>1, Zenon DEF vars, TypeOK, StoreOK, EnvironmentOK, ProcsOK, HistoryOK, Holds
<1>2. CASE Next
  BY <1>2, IssueType, HandlerType, WorkerType, WorldType DEF Next
<1> QED
  BY <1>1, <1>2

\* The variables have their types at the beginning.
LEMMA TypeInit == Init => TypeOK
<1> SUFFICES ASSUME Init PROVE TypeOK
  OBVIOUS
<1>1. StoreOK
  BY DEF Init, StoreOK, NoRuns
<1>2. EnvironmentOK
  BY InstanceAssumption DEF Init, EnvironmentOK
<1>3. ProcsOK
  BY InstanceAssumption DEF Init, ProcsOK, Idle, Holds, NoTime
<1>4. HistoryOK
  BY DEF Init, HistoryOK
<1> QED
  BY <1>1, <1>2, <1>3, <1>4 DEF TypeOK

\* Type correctness of the deployed job, for any number of concurrent
\* handlers and workers.
THEOREM TypeCorrect == Spec => []TypeOK
BY TypeInit, TypeStep, PTL DEF Spec

-----------------------------------------------------------------------------
(***************************************************************************)
(* Snapshots.  The version fence works because every write carries the     *)
(* next version, because a purged row never comes back while somebody      *)
(* still holds an old record, and because a deletion is never taken back.  *)
(***************************************************************************)
PurgeIsFinal == purge.pc # "none" => account = "deleting"

Current == TypeOK /\ SnapshotsCurrent /\ PurgeIsFinal

\* A process that finds the version unchanged holds the record itself.
LEMMA HeldIsCurrent ==
  ASSUME Current, NEW p \in Procs, Holds(p), Unchanged(proc[p].snap)
  PROVE  rec # NoRecord /\ JobOK(rec) /\ proc[p].snap = rec
BY DEF Current, SnapshotsCurrent, Unchanged, TypeOK, StoreOK

\* A record that is the stored form of a successor.
LEMMA StoredSuccessor ==
  ASSUME NEW r, NEW s, JobOK(r), Successor(r, s)
  PROVE  Stored(s) # NoRecord /\ Stored(s).version = r.version + 1
BY StoredType DEF Successor

RecordStep ==
  \/ UNCHANGED rec
  \/ rec = NoRecord /\ account = "active"
  \/ rec # NoRecord /\ rec' # NoRecord /\ rec'.version = rec.version + 1
  \/ rec' = NoRecord /\ account = "deleting"

\* How a step changes the record.
LEMMA RecordSteps ==
  ASSUME Current, [Next]_vars
  PROVE  RecordStep
<1>1. CASE UNCHANGED vars
  BY <1>1 DEF vars, RecordStep
<1>2. ASSUME NEW q \in Requests, Issue(q) PROVE RecordStep
  BY <1>2 DEF Issue, RecordStep
<1>3. ASSUME NEW p \in Procs, CreateCommit(p) PROVE RecordStep
  BY <1>3 DEF CreateCommit, NoWrite, Authorized, RecordStep
<1>4. ASSUME NEW p \in Procs, CommandCommit(p) PROVE RecordStep
  <2>1. CASE NoWrite
    BY <2>1 DEF NoWrite, RecordStep
  <2>2. ASSUME Unchanged(proc[p].snap),
               NEW e \in Mutated(calls[proc[p].req], proc[p].snap, proc[p].now), Write(e.rec)
        PROVE  RecordStep
    <3>1. proc[p].snap = rec /\ JobOK(rec) /\ rec # NoRecord
      BY <1>4, <2>2, HeldIsCurrent DEF CommandCommit, Holds
    <3>2. calls[proc[p].req] \in Call /\ proc[p].now \in Nat
      BY <1>4, InstanceAssumption DEF CommandCommit, Current, TypeOK, ProcsOK
    <3>3. Successor(rec, e.rec)
      BY <2>2, <3>1, <3>2, MutatedType
    <3> QED
      BY <2>2, <3>1, <3>3, StoredSuccessor DEF Write, RecordStep
  <2> QED
    BY <1>4, <2>1, <2>2 DEF CommandCommit
<1>5. ASSUME NEW p \in Procs, ViewCommit(p) PROVE RecordStep
  <2>1. CASE NoWrite
    BY <2>1 DEF NoWrite, RecordStep
  <2>2. CASE Unchanged(proc[p].snap) /\ Write(Refreshed(proc[p].snap, proc[p].now))
    <3>1. proc[p].snap = rec /\ JobOK(rec) /\ rec # NoRecord
      BY <1>5, <2>2, HeldIsCurrent DEF ViewCommit, Holds
    <3>2. proc[p].now \in Nat
      BY InstanceAssumption DEF Current, TypeOK, ProcsOK
    <3>3. Successor(rec, Refreshed(rec, proc[p].now))
      BY <3>1, <3>2, RefreshedType
    <3> QED
      BY <2>2, <3>1, <3>3, StoredSuccessor DEF Write, RecordStep
  <2> QED
    BY <1>5, <2>1, <2>2 DEF ViewCommit
<1>6. ASSUME NEW p \in Procs, TickCommit(p) PROVE RecordStep
  <2>1. CASE NoWrite
    BY <2>1 DEF NoWrite, RecordStep
  <2>2. ASSUME Unchanged(proc[p].snap), NEW r \in Ticked(proc[p].snap, proc[p].now), Write(r)
        PROVE  RecordStep
    <3>1. proc[p].snap = rec /\ JobOK(rec) /\ rec # NoRecord
      BY <1>6, <2>2, HeldIsCurrent DEF TickCommit, Holds
    <3>2. proc[p].now \in Nat
      BY InstanceAssumption DEF Current, TypeOK, ProcsOK
    <3>3. Successor(rec, r)
      BY <2>2, <3>1, <3>2, TickedType
    <3> QED
      BY <2>2, <3>1, <3>3, StoredSuccessor DEF Write, RecordStep
  <2> QED
    BY <1>6, <2>1, <2>2 DEF TickCommit
<1>7. ASSUME NEW p \in Procs, SuspendCommit(p) PROVE RecordStep
  <2>1. CASE NoWrite
    BY <2>1 DEF NoWrite, RecordStep
  <2>2. CASE Unchanged(proc[p].snap) /\ rec' = Stored(Suspended(proc[p].snap))
    <3>1. proc[p].snap = rec /\ JobOK(rec) /\ rec # NoRecord
      BY <1>7, <2>2, HeldIsCurrent DEF SuspendCommit, Holds
    <3> QED
      BY <2>2, <3>1, SuspendedType, StoredSuccessor DEF RecordStep
  <2> QED
    BY <1>7, <2>1, <2>2 DEF SuspendCommit
<1>8. CASE PurgeDelete
  BY <1>8 DEF PurgeDelete, Current, PurgeIsFinal, RecordStep
<1>9. CASE UNCHANGED rec
  BY <1>9 DEF RecordStep
<1> QED
  BY <1>1, <1>2, <1>3, <1>4, <1>5, <1>6, <1>7, <1>8, <1>9
  DEF Next, Handler, Worker, CreateRead, CommandRead, CommandRecheck, ViewRead, TickStart,
      TickRead, SuspendRead, Crash, NoWrite, SetAccount, PurgeList, AdvanceClock

\* How a step changes what a process holds: it keeps its snapshot, or it has
\* just read the record.
Keeps(p) == Holds(p) /\ proc'[p].snap = proc[p].snap
Reads(p) == rec # NoRecord /\ rec' = rec /\ proc'[p].snap = rec

LEMMA BecomeSnapshot ==
  ASSUME ProcsOK, NEW p \in Procs, NEW pc, NEW q, NEW t, NEW s, Become(p, pc, q, t, s),
         pc \in {"commit", "expire", "tick", "fence"} =>
           rec # NoRecord /\ rec' = rec /\ s = rec,
         NEW x \in Procs, Holds(x)'
  PROVE  Keeps(x) \/ Reads(x)
<1>1. /\ proc' = [proc EXCEPT ![p] = [pc |-> pc, req |-> q, now |-> t, snap |-> s]]
      /\ DOMAIN proc = Procs
  BY DEF Become, ProcsOK
<1>2. CASE x = p
  BY <1>1, <1>2 DEF Holds, Reads
<1>3. CASE x # p
  BY <1>1, <1>3 DEF Holds, Keeps
<1> QED
  BY <1>2, <1>3

LEMMA EndSnapshot ==
  ASSUME ProcsOK, NEW p \in Procs, End(p), NEW x \in Procs, Holds(x)'
  PROVE  Keeps(x) \/ Reads(x)
BY BecomeSnapshot DEF End, Become, Idle

LEMMA ProcSteps ==
  ASSUME TypeOK, [Next]_vars, NEW x \in Procs, Holds(x)'
  PROVE  Keeps(x) \/ Reads(x)
<1>0. ProcsOK
  BY DEF TypeOK
<1>1. CASE UNCHANGED proc
  BY <1>1 DEF Holds, Keeps
<1>2. ASSUME NEW p \in Procs, End(p) PROVE Keeps(x) \/ Reads(x)
  BY <1>0, <1>2, EndSnapshot
<1>3. ASSUME NEW p \in Procs,
             NEW pc \in {"create", "recheck", "due", "suspend"}, NEW q, NEW t, NEW s,
             Become(p, pc, q, t, s)
      PROVE  Keeps(x) \/ Reads(x)
  BY <1>0, <1>3, BecomeSnapshot
<1>4. ASSUME NEW p \in Procs, NEW pc, NEW q, NEW t, Become(p, pc, q, t, rec),
             rec # NoRecord, NoWrite
      PROVE  Keeps(x) \/ Reads(x)
  BY <1>0, <1>4, BecomeSnapshot DEF NoWrite
<1>5. ASSUME NEW p \in Procs, Handler(p) PROVE Keeps(x) \/ Reads(x)
  BY <1>1, <1>2, <1>3, <1>4, <1>5
  DEF Handler, CreateRead, CreateCommit, CommandRead, CommandCommit, CommandRecheck,
      ViewRead, ViewCommit
<1>6. ASSUME NEW p \in Procs, Worker(p) \/ Crash(p) PROVE Keeps(x) \/ Reads(x)
  BY <1>1, <1>2, <1>3, <1>4, <1>6
  DEF Worker, Crash, TickStart, TickRead, TickCommit, SuspendRead, SuspendCommit
<1> QED
  BY <1>1, <1>5, <1>6
  DEF Next, vars, Issue, SetAccount, PurgeList, PurgeDelete, AdvanceClock

\* A deletion is never taken back.
LEMMA DeletingStays ==
  ASSUME [Next]_vars, account = "deleting"
  PROVE  account' = "deleting"
BY DEF Next, vars, Issue, Handler, Worker, Crash, SetAccount, PurgeList, PurgeDelete,
       AdvanceClock, environment, CreateRead, CreateCommit, CommandRead, CommandCommit,
       CommandRecheck, ViewRead, ViewCommit, TickStart, TickRead, TickCommit, SuspendRead,
       SuspendCommit

\* Only the purge itself moves the purge.
LEMMA PurgeSteps ==
  ASSUME [Next]_vars
  PROVE  purge' = purge \/ PurgeList \/ PurgeDelete
BY DEF Next, vars, Issue, Handler, Worker, Crash, SetAccount, AdvanceClock, environment,
       CreateRead, CreateCommit, CommandRead, CommandCommit, CommandRecheck, ViewRead,
       ViewCommit, TickStart, TickRead, TickCommit, SuspendRead, SuspendCommit

LEMMA CurrentInit == Init => Current
<1> SUFFICES ASSUME Init PROVE Current
  OBVIOUS
<1>1. \A p \in Procs : ~ Holds(p)
  BY DEF Init, Holds, Idle
<1> QED
  BY <1>1, TypeInit DEF Init, Current, SnapshotsCurrent, PurgeIsFinal

LEMMA CurrentStep == Current /\ [Next]_vars => Current'
<1> SUFFICES ASSUME Current, [Next]_vars PROVE Current'
  OBVIOUS
<1>1. TypeOK /\ TypeOK'
  BY TypeStep DEF Current
<1>2. PurgeIsFinal'
  <2>1. CASE account = "deleting"
    BY <2>1, DeletingStays DEF PurgeIsFinal
  <2>2. CASE account # "deleting"
    BY <2>2, PurgeSteps DEF Current, PurgeIsFinal, PurgeList, PurgeDelete
  <2> QED
    BY <2>1, <2>2
<1>3. ASSUME NEW p \in Procs, Holds(p)'
      PROVE  \/ rec' = NoRecord /\ account' = "deleting"
             \/ /\ rec' # NoRecord /\ proc'[p].snap.version <= rec'.version
                /\ proc'[p].snap.version = rec'.version => proc'[p].snap = rec'
  <2>1. (rec # NoRecord => rec.version \in Nat) /\ (rec' # NoRecord => rec'.version \in Nat)
    BY <1>1 DEF TypeOK, StoreOK, JobOK, JobRecords
  <2>2. CASE Reads(p)
    BY <2>1, <2>2 DEF Reads
  <2>3. CASE Keeps(p)
    <3>1. /\ \/ rec = NoRecord /\ account = "deleting"
             \/ /\ rec # NoRecord /\ proc[p].snap.version <= rec.version
                /\ proc[p].snap.version = rec.version => proc[p].snap = rec
          /\ proc'[p].snap = proc[p].snap /\ proc[p].snap.version \in Nat
      BY <1>1, <2>3 DEF Keeps, Current, SnapshotsCurrent, TypeOK, ProcsOK, JobOK, JobRecords
    <3>2. CASE UNCHANGED rec
      BY <3>1, <3>2, DeletingStays
    <3>3. CASE rec = NoRecord /\ account = "active"
      BY <3>1, <3>3
    <3>4. CASE rec # NoRecord /\ rec' # NoRecord /\ rec'.version = rec.version + 1
      BY <2>1, <3>1, <3>4
    <3>5. CASE rec' = NoRecord /\ account = "deleting"
      BY <3>5, DeletingStays
    <3> QED
      BY <3>2, <3>3, <3>4, <3>5, RecordSteps DEF RecordStep
  <2> QED
    BY <1>1, <1>3, <2>2, <2>3, ProcSteps
<1>4. SnapshotsCurrent'
  BY <1>3 DEF SnapshotsCurrent
<1> QED
  BY <1>1, <1>2, <1>4 DEF Current

\* The version fence is enough: two different records of a job never carry
\* the same version, and no create brings a purged row back while an old
\* snapshot is in flight.
THEOREM SnapshotsAreCurrent == Spec => []SnapshotsCurrent
<1>1. Spec => []Current
  BY CurrentInit, CurrentStep, PTL DEF Spec
<1>2. Current => SnapshotsCurrent
  BY DEF Current
<1> QED
  BY <1>1, <1>2, PTL

-----------------------------------------------------------------------------
(***************************************************************************)
(* Commands take effect at most once, and not because of the receipts,     *)
(* which are bounded: a command commits only on the version its author     *)
(* saw, and its own commit moves the record past that version.             *)
(***************************************************************************)
\* A command on its way to the table holds the version it was issued for.
CommandsHold ==
  \A p \in Procs : proc[p].pc = "commit" => proc[p].snap.version = calls[proc[p].req].version

\* A command that has been carried out is behind the record.
AppliedBehind ==
  \A q \in Requests : applied[q] > 0 =>
    /\ calls[q] \in Call
    /\ rec = NoRecord => account = "deleting"
    /\ rec # NoRecord => calls[q].version < rec.version

Once == CommandsHold /\ AppliedBehind /\ AtMostOnce

\* Commands do not change once they are issued.
LEMMA CallsStay ==
  ASSUME TypeOK, [Next]_vars, NEW q \in Requests, calls[q] \in Call
  PROVE  calls'[q] = calls[q]
<1>1. ASSUME NEW x \in Requests, Issue(x) PROVE calls'[q] = calls[q]
  <2>1. x # q
    BY <1>1, InstanceAssumption DEF Issue
  <2> QED
    BY <1>1, <2>1 DEF Issue, TypeOK, EnvironmentOK
<1> QED
  BY <1>1
  DEF Next, vars, Handler, Worker, Crash, SetAccount, PurgeList, PurgeDelete,
      AdvanceClock, environment, CreateRead, CreateCommit, CommandRead, CommandCommit,
      CommandRecheck, ViewRead, ViewCommit, TickStart, TickRead, TickCommit, SuspendRead,
      SuspendCommit

\* A process is about to commit a command because it was, or because it has
\* just read a record of the version the command names.
CommandKept(p) ==
  proc[p].pc = "commit" /\ proc'[p].snap = proc[p].snap /\ proc'[p].req = proc[p].req
CommandChosen(p) ==
  calls[proc'[p].req] # NoCall /\ proc'[p].snap.version = calls[proc'[p].req].version

LEMMA CommandProcs ==
  ASSUME TypeOK, [Next]_vars, NEW x \in Procs, proc'[x].pc = "commit"
  PROVE  CommandKept(x) \/ CommandChosen(x)
<1>0. DOMAIN proc = Procs
  BY DEF TypeOK, ProcsOK
<1>1. CASE UNCHANGED proc
  BY <1>1 DEF CommandKept
<1>2. ASSUME NEW p \in Procs, NEW pc, NEW q, NEW t, NEW s, Become(p, pc, q, t, s),
             pc = "commit" => calls[q] # NoCall /\ s.version = calls[q].version
      PROVE  CommandKept(x) \/ CommandChosen(x)
  <2>1. proc' = [proc EXCEPT ![p] = [pc |-> pc, req |-> q, now |-> t, snap |-> s]]
    BY <1>2 DEF Become
  <2>2. CASE x = p
    BY <1>0, <1>2, <2>1, <2>2 DEF CommandChosen
  <2>3. CASE x # p
    BY <1>0, <2>1, <2>3 DEF CommandKept
  <2> QED
    BY <2>2, <2>3
<1>3. ASSUME NEW p \in Procs, End(p) PROVE CommandKept(x) \/ CommandChosen(x)
  <2>1. Become(p, "idle", NoCall, NoTime, NoRecord)
    BY <1>3 DEF End, Become, Idle
  <2> QED
    BY <1>2, <2>1
<1>4. ASSUME NEW p \in Procs, Handler(p) PROVE CommandKept(x) \/ CommandChosen(x)
  <2>1. ASSUME NEW q \in Requests, CommandRead(p, q)
        PROVE  CommandKept(x) \/ CommandChosen(x)
    BY <1>1, <1>2, <2>1 DEF CommandRead
  <2> QED
    BY <1>2, <1>3, <1>4, <2>1
    DEF Handler, CreateRead, CreateCommit, CommandCommit, CommandRecheck, ViewRead, ViewCommit
<1>5. ASSUME NEW p \in Procs, Worker(p) \/ Crash(p)
      PROVE  CommandKept(x) \/ CommandChosen(x)
  BY <1>2, <1>3, <1>5
  DEF Worker, Crash, TickStart, TickRead, TickCommit, SuspendRead, SuspendCommit
<1> QED
  BY <1>1, <1>4, <1>5
  DEF Next, vars, Issue, SetAccount, PurgeList, PurgeDelete, AdvanceClock

\* Only a commit counts as an application.
Applies(p) ==
  LET q == proc[p].req IN
  /\ proc[p].pc = "commit" /\ Unchanged(proc[p].snap) /\ q \in Requests
  /\ applied' = [applied EXCEPT ![q] = @ + 1]
  /\ \E e \in Mutated(calls[q], proc[p].snap, proc[p].now) : Write(e.rec)

LEMMA AppliedSteps ==
  ASSUME TypeOK, [Next]_vars
  PROVE  applied' = applied \/ \E p \in Procs : Applies(p)
<1>1. ASSUME NEW p \in Procs, CommandCommit(p) PROVE applied' = applied \/ Applies(p)
  BY <1>1 DEF CommandCommit, Applies, history, TypeOK, ProcsOK
<1> QED
  BY <1>1
  DEF Next, vars, Issue, Handler, Worker, Crash, SetAccount, PurgeList, PurgeDelete,
      AdvanceClock, history, CreateRead, CreateCommit, CommandRead, CommandRecheck,
      ViewRead, ViewCommit, TickStart, TickRead, TickCommit, SuspendRead, SuspendCommit

LEMMA OnceInit == Init => Once
BY DEF Init, Once, CommandsHold, AppliedBehind, AtMostOnce, Idle

LEMMA OnceStep == Current /\ Once /\ [Next]_vars => Once'
<1> SUFFICES ASSUME Current, Once, [Next]_vars PROVE Once'
  OBVIOUS
<1>0. TypeOK /\ TypeOK'
  BY TypeStep DEF Current
<1>1. /\ rec # NoRecord => rec.version \in Nat
      /\ rec' # NoRecord => rec'.version \in Nat
      /\ applied \in [Requests -> Nat]
      /\ calls \in [Requests -> Call \cup {NoCall}]
  BY <1>0 DEF TypeOK, StoreOK, JobOK, JobRecords, HistoryOK, EnvironmentOK
<1>2. CommandsHold'
  <2> SUFFICES ASSUME NEW p \in Procs, proc'[p].pc = "commit"
               PROVE  proc'[p].snap.version = calls'[proc'[p].req].version
    BY DEF CommandsHold
  <2>1. proc'[p].req \in Requests
    BY <1>0 DEF TypeOK, ProcsOK
  <2>2. CASE CommandKept(p)
    <3>1. calls[proc[p].req] \in Call /\ proc[p].snap.version = calls[proc[p].req].version
      BY <1>0, <2>2 DEF CommandKept, TypeOK, ProcsOK, Once, CommandsHold
    <3> QED
      BY <1>0, <2>1, <2>2, <3>1, CallsStay DEF CommandKept
  <2>3. CASE CommandChosen(p)
    BY <1>0, <1>1, <2>1, <2>3, CallsStay DEF CommandChosen
  <2> QED
    BY <1>0, <2>2, <2>3, CommandProcs
<1>3. ASSUME NEW q \in Requests, applied[q] > 0
      PROVE  /\ calls'[q] \in Call
             /\ rec' = NoRecord => account' = "deleting"
             /\ rec' # NoRecord => calls'[q].version < rec'.version
  <2>1. /\ calls[q] \in Call /\ calls'[q] = calls[q] /\ calls[q].version \in Nat
        /\ rec = NoRecord => account = "deleting"
        /\ rec # NoRecord => calls[q].version < rec.version
    BY <1>0, <1>3, CallsStay DEF Once, AppliedBehind, Call
  <2>2. CASE UNCHANGED rec
    BY <2>1, <2>2, DeletingStays
  <2>3. CASE rec # NoRecord /\ rec' # NoRecord /\ rec'.version = rec.version + 1
    BY <1>1, <2>1, <2>3
  <2>4. CASE rec' = NoRecord /\ account = "deleting"
    BY <2>1, <2>4, DeletingStays
  <2> QED
    BY <2>1, <2>2, <2>3, <2>4, RecordSteps DEF RecordStep
<1>4. CASE applied' = applied
  BY <1>2, <1>3, <1>4 DEF Once, AppliedBehind, AtMostOnce
<1>5. ASSUME NEW p \in Procs, Applies(p) PROVE Once'
  <2> DEFINE q == proc[p].req
  <2>1. /\ q \in Requests /\ calls[q] \in Call /\ calls[q].version \in Nat
        /\ calls'[q] = calls[q]
    BY <1>0, <1>5, CallsStay DEF Applies, TypeOK, ProcsOK, Call
  <2>2. rec # NoRecord /\ JobOK(rec) /\ proc[p].snap = rec /\ calls[q].version = rec.version
    BY <1>5, HeldIsCurrent DEF Applies, Holds, Once, CommandsHold
  <2>3. applied[q] = 0
    BY <1>1, <2>1, <2>2 DEF Once, AppliedBehind
  <2>4. \A x \in Requests : applied'[x] = IF x = q THEN 1 ELSE applied[x]
    BY <1>1, <1>5, <2>1, <2>3 DEF Applies
  <2>5. rec' # NoRecord /\ rec'.version = rec.version + 1
    <3>1. proc[p].now \in Nat
      BY <1>0, InstanceAssumption DEF TypeOK, ProcsOK
    <3>2. PICK e \in Mutated(calls[q], rec, proc[p].now) : Write(e.rec)
      BY <1>5, <2>2 DEF Applies
    <3>3. Successor(rec, e.rec)
      BY <2>1, <2>2, <3>1, <3>2, MutatedType
    <3> QED
      BY <2>2, <3>2, <3>3, StoredSuccessor DEF Write
  <2>6. AtMostOnce'
    BY <1>1, <2>4 DEF Once, AtMostOnce
  <2>7. AppliedBehind'
    <3> SUFFICES ASSUME NEW x \in Requests, applied'[x] > 0
                 PROVE  /\ calls'[x] \in Call
                        /\ rec' = NoRecord => account' = "deleting"
                        /\ rec' # NoRecord => calls'[x].version < rec'.version
      BY DEF AppliedBehind
    <3>1. CASE x = q
      BY <1>1, <2>1, <2>2, <2>5, <3>1
    <3>2. CASE x # q
      BY <1>3, <2>4, <3>2
    <3> QED
      BY <3>1, <3>2
  <2> QED
    BY <1>2, <2>6, <2>7 DEF Once
<1> QED
  BY <1>0, <1>4, <1>5, AppliedSteps

\* A command takes effect at most once, whatever the number of handlers that
\* carry copies of it, and also after its receipt has been dropped.
THEOREM AppliedAtMostOnce == Spec => []AtMostOnce
<1>1. Init => Current /\ Once
  BY CurrentInit, OnceInit
<1>2. (Current /\ Once) /\ [Next]_vars => (Current /\ Once)'
  BY CurrentStep, OnceStep
<1>3. Current /\ Once => AtMostOnce
  BY DEF Once
<1> QED
  BY <1>1, <1>2, <1>3, PTL DEF Spec

-----------------------------------------------------------------------------
(***************************************************************************)
(* Purges.  Once the account is being deleted nothing is written any more, *)
(* whatever processes are still in flight, so the keys listed after that   *)
(* are all the keys there will ever be.                                    *)
(***************************************************************************)
Purged ==
  /\ purge.pc = "listed" =>
       (rec # NoRecord => purge.job) /\ DOMAIN ledger \subseteq purge.runs
  /\ purge.pc = "done" => rec = NoRecord /\ DOMAIN ledger = {}

\* Without an active account the history does not grow.
LEMMA LedgerSteps ==
  ASSUME [Next]_vars, account # "active"
  PROVE  ledger' = ledger \/ PurgeDelete
BY DEF Next, vars, Issue, Handler, Worker, Crash, SetAccount, PurgeList, AdvanceClock,
       NoWrite, Authorized, CreateRead, CreateCommit, CommandRead, CommandCommit,
       CommandRecheck, ViewRead, ViewCommit, TickStart, TickRead, TickCommit, SuspendRead,
       SuspendCommit

LEMMA PurgedInit == Init => Purged
BY DEF Init, Purged

LEMMA PurgedStep == Current /\ Purged /\ [Next]_vars => Purged'
<1> SUFFICES ASSUME Current, Purged, [Next]_vars PROVE Purged'
  OBVIOUS
<1>1. CASE PurgeList
  BY <1>1 DEF PurgeList, Purged
<1>2. CASE PurgeDelete
  BY <1>2 DEF PurgeDelete, Purged, Current, TypeOK, EnvironmentOK
<1>3. CASE purge' = purge /\ ~ PurgeDelete
  <2>1. CASE purge.pc = "none"
    BY <1>3, <2>1 DEF Purged
  <2>2. CASE purge.pc # "none"
    <3>1. account = "deleting"
      BY <2>2 DEF Current, PurgeIsFinal
    <3>2. ledger' = ledger
      BY <1>3, <3>1, LedgerSteps
    <3>3. rec' # NoRecord => rec # NoRecord
      BY <3>1, RecordSteps DEF RecordStep
    <3> QED
      BY <1>3, <3>2, <3>3 DEF Purged
  <2> QED
    BY <2>1, <2>2
<1> QED
  BY <1>1, <1>2, <1>3, PurgeSteps

\* A finished purge left neither the job nor any of its history, and no
\* handler or worker that was in flight brings anything back.
THEOREM PurgeLeavesNothing == Spec => []PurgeComplete
<1>1. Init => Current /\ Purged
  BY CurrentInit, PurgedInit
<1>2. (Current /\ Purged) /\ [Next]_vars => (Current /\ Purged)'
  BY CurrentStep, PurgedStep
<1>3. Current /\ Purged => PurgeComplete
  BY DEF Purged, PurgeComplete
<1> QED
  BY <1>1, <1>2, <1>3, PTL DEF Spec

-----------------------------------------------------------------------------
(***************************************************************************)
(* Jobs implements AtomicJob: whatever handlers and workers interleave,    *)
(* the record changes as if every operation happened at one instant.  The  *)
(* atomic job computes with the operators of JobRecord, as Jobs does.      *)
(***************************************************************************)
LEMMA SameCardinality == ASSUME NEW S PROVE Atomic!Cardinality(S) = Cardinality(S)
BY Zenon DEF Atomic!Cardinality, Cardinality

LEMMA SameTerminal == ASSUME NEW r PROVE Atomic!Terminal(r) = Terminal(r)
BY Zenon DEF Atomic!Terminal, Terminal, Atomic!pendingRun, pendingRun,
             Atomic!PendingStatus, PendingStatus

LEMMA SameLeast == ASSUME NEW S PROVE Atomic!Least(S) = Least(S)
BY Zenon DEF Atomic!Least, Least

LEMMA SameEvict == ASSUME NEW r, NEW E PROVE Atomic!Evict(r, E) = Evict(r, E)
BY Zenon DEF Atomic!Evict, Evict

LEMMA SameNext == ASSUME NEW s, NEW t PROVE Atomic!next(s, t) = next(s, t)
BY Zenon DEF Atomic!next, next, Atomic!NoTime, NoTime, Atomic!Least, Least

LEMMA SameReserve == ASSUME NEW r PROVE Atomic!reserveRun(r) = reserveRun(r)
<1>1. Atomic!Evict(r, {Atomic!Least(Atomic!Terminal(r))}) = Evict(r, {Least(Terminal(r))})
  BY SameTerminal, SameLeast, SameEvict
<1> QED
  BY <1>1, SameTerminal, SameCardinality
  DEF Atomic!reserveRun, reserveRun, Atomic!When, When

LEMMA SameCompact ==
  ASSUME NEW r, NEW keep PROVE Atomic!compact(r, keep) = compact(r, keep)
BY Zenon DEF Atomic!compact, compact, Atomic!Evict, Evict, Atomic!Terminal, Terminal,
             Atomic!pendingRun, pendingRun, Atomic!PendingStatus, PendingStatus

LEMMA SameCancelPending == ASSUME NEW r PROVE Atomic!cancelPending(r) = cancelPending(r)
BY Zenon DEF Atomic!cancelPending, cancelPending, Atomic!OnRuns, OnRuns,
             Atomic!finish, finish, Atomic!pendingRun, pendingRun,
             Atomic!PendingStatus, PendingStatus

LEMMA SamePaused == ASSUME NEW r PROVE Atomic!Paused(r) = Paused(r)
BY Zenon, SameCancelPending DEF Atomic!Paused, Paused

LEMMA SameWithRun ==
  ASSUME NEW r, NEW v, NEW t PROVE Atomic!WithRun(r, v, t) = WithRun(r, v, t)
BY Zenon DEF Atomic!WithRun, WithRun, Atomic!AddRun, AddRun, Atomic!executeLocal,
             executeLocal, Atomic!Effect, Effect, Atomic!finish, finish

LEMMA SameNewRun ==
  ASSUME NEW r, NEW a, NEW i, NEW s PROVE Atomic!newRun(r, a, i, s) = newRun(r, a, i, s)
BY Zenon DEF Atomic!newRun, newRun, Atomic!NoTime, NoTime

-----------------------------------------------------------------------------
\* Commands.
LEMMA SameAction ==
  ASSUME NEW c, NEW r, NEW t PROVE Atomic!Action(c, r, t) = Action(c, r, t)
BY Zenon, SamePaused, SameCancelPending, SameNext
DEF Atomic!Action, Action, Atomic!When, When, Atomic!Effect, Effect, Atomic!NoRun, NoRun,
    Atomic!NoTime, NoTime

LEMMA SameUpdate ==
  ASSUME NEW c, NEW r, NEW t PROVE Atomic!Update(c, r, t) = Update(c, r, t)
BY Zenon, SameCancelPending, SameNext, SameCardinality
DEF Atomic!Update, Update, Atomic!When, When, Atomic!Effect, Effect, Atomic!NoRun, NoRun,
    Atomic!FutureSchedule, FutureSchedule, Atomic!NoTime, NoTime

LEMMA SameRunNow ==
  ASSUME NEW r, NEW t PROVE Atomic!RunNow(r, t) = RunNow(r, t)
BY Zenon, SameReserve
DEF Atomic!RunNow, RunNow, Atomic!When, When, Atomic!NoRun, NoRun, Atomic!NoTime, NoTime,
    Atomic!WithRun, WithRun, Atomic!AddRun, AddRun, Atomic!executeLocal,
    executeLocal, Atomic!Effect, Effect, Atomic!finish, finish, Atomic!newRun, newRun

LEMMA SameRetryRun ==
  ASSUME NEW c, NEW r, NEW t PROVE Atomic!RetryRun(c, r, t) = RetryRun(c, r, t)
BY Zenon, SameReserve
DEF Atomic!RetryRun, RetryRun, Atomic!Retryable, Retryable, Atomic!When, When,
    Atomic!NoTime, NoTime,
    Atomic!WithRun, WithRun, Atomic!AddRun, AddRun, Atomic!executeLocal,
    executeLocal, Atomic!Effect, Effect, Atomic!finish, finish, Atomic!newRun, newRun

LEMMA SameApproveRun ==
  ASSUME NEW c, NEW r, NEW t PROVE Atomic!ApproveRun(c, r, t) = ApproveRun(c, r, t)
BY Zenon DEF Atomic!ApproveRun, ApproveRun, Atomic!When, When, Atomic!Effect, Effect,
             Atomic!finish, finish

LEMMA SameCancelRun ==
  ASSUME NEW c, NEW r PROVE Atomic!CancelRun(c, r) = CancelRun(c, r)
BY Zenon DEF Atomic!CancelRun, CancelRun, Atomic!When, When, Atomic!Effect, Effect,
             Atomic!finish, finish, Atomic!pendingRun, pendingRun,
             Atomic!PendingStatus, PendingStatus

LEMMA SameAddNote ==
  ASSUME NEW c, NEW r PROVE Atomic!AddNote(c, r) = AddNote(c, r)
BY Zenon DEF Atomic!AddNote, AddNote, Atomic!When, When, Atomic!Effect, Effect,
             Atomic!NoRun, NoRun

LEMMA SameCommand ==
  ASSUME NEW c, NEW r, NEW t PROVE Atomic!Command(c, r, t) = Command(c, r, t)
BY Zenon, SameAction, SameUpdate, SameRunNow, SameRetryRun, SameApproveRun, SameCancelRun,
   SameAddNote
DEF Atomic!Command, Command

LEMMA SameMutated ==
  ASSUME NEW c, NEW r, NEW t PROVE Atomic!Mutated(c, r, t) = Mutated(c, r, t)
BY Zenon, SameCommand
DEF Atomic!Mutated, Mutated, Atomic!Effect, Effect, Atomic!Receipted, Receipted,
    Atomic!Trim, Trim, Atomic!compact, compact, Atomic!Evict, Evict, Atomic!Terminal,
    Terminal, Atomic!pendingRun, pendingRun, Atomic!PendingStatus, PendingStatus

-----------------------------------------------------------------------------
\* Writes nobody asked for.
LEMMA SameExpired ==
  ASSUME NEW r, NEW t PROVE Atomic!hasExpired(r, t) <=> hasExpired(r, t)
BY Zenon DEF Atomic!hasExpired, hasExpired, Atomic!expiredAt, expiredAt

LEMMA SameFailExpired ==
  ASSUME NEW r, NEW t PROVE Atomic!FailExpired(r, t) = FailExpired(r, t)
BY Zenon DEF Atomic!FailExpired, FailExpired, Atomic!expiredAt, expiredAt,
             Atomic!OnRuns, OnRuns, Atomic!finish, finish

LEMMA SameRefreshed ==
  ASSUME NEW r, NEW t PROVE Atomic!Refreshed(r, t) = Refreshed(r, t)
BY Zenon, SameFailExpired DEF Atomic!Refreshed, Refreshed, Atomic!NoTime, NoTime

LEMMA SameDue == ASSUME NEW r, NEW t PROVE Atomic!isDue(r, t) <=> isDue(r, t)
<1>1. Atomic!dueAt(r) = dueAt(r)
  BY Zenon, SameLeast DEF Atomic!dueAt, dueAt, Atomic!NoTime, NoTime
<1> QED
  BY <1>1, Zenon DEF Atomic!isDue, isDue, Atomic!NoTime, NoTime

LEMMA SameRunQueued ==
  ASSUME NEW r, NEW t PROVE Atomic!RunQueued(r, t) = RunQueued(r, t)
BY Zenon DEF Atomic!RunQueued, RunQueued, Atomic!OnRuns, OnRuns, Atomic!finish, finish,
             Atomic!executeLocal, executeLocal

LEMMA SameOccurrence ==
  ASSUME NEW r, NEW t PROVE Atomic!RunOccurrence(r, t) = RunOccurrence(r, t)
BY Zenon, SameReserve
DEF Atomic!RunOccurrence, RunOccurrence, Atomic!next, next, Atomic!NoTime, NoTime,
    Atomic!Least, Least, Atomic!NoRun, NoRun, Atomic!WithRun, WithRun, Atomic!AddRun,
    AddRun, Atomic!executeLocal, executeLocal, Atomic!Effect, Effect, Atomic!finish,
    finish, Atomic!compact, compact, Atomic!Evict, Evict, Atomic!Terminal, Terminal,
    Atomic!pendingRun, pendingRun, Atomic!PendingStatus, PendingStatus, Atomic!newRun, newRun

LEMMA SameBackOff == ASSUME NEW r, NEW t PROVE Atomic!BackOff(r, t) = BackOff(r, t)
BY Zenon, SameReserve
DEF Atomic!BackOff, BackOff, Atomic!When, When, Atomic!Evict, Evict, Atomic!Terminal,
    Terminal, Atomic!pendingRun, pendingRun, Atomic!PendingStatus, PendingStatus

LEMMA SameTicked == ASSUME NEW r, NEW t PROVE Atomic!Ticked(r, t) = Ticked(r, t)
BY Zenon, SameRunQueued, SameFailExpired, SameOccurrence, SameBackOff
DEF Atomic!Ticked, Ticked, Atomic!NoTime, NoTime

LEMMA SameSuspended == ASSUME NEW r PROVE Atomic!Suspended(r) = Suspended(r)
BY Zenon, SamePaused DEF Atomic!Suspended, Suspended, Atomic!NoTime, NoTime

LEMMA SameStored == ASSUME NEW r PROVE Atomic!Stored(r) = Stored(r)
BY Zenon DEF Atomic!Stored, Stored, Atomic!NoRuns, NoRuns, Atomic!NoRun, NoRun

LEMMA SameCreated ==
  ASSUME NEW k, NEW s, NEW t PROVE Atomic!Created(k, s, t) = Created(k, s, t)
BY Zenon, SameNext DEF Atomic!Created, Created, Atomic!NoRuns, NoRuns, Atomic!NoRun, NoRun,
                       Atomic!NoTime, NoTime

LEMMA SameNoRecord == Atomic!NoRecord = NoRecord
BY DEF Atomic!NoRecord, NoRecord

-----------------------------------------------------------------------------
(***************************************************************************)
(* A process about to persist expiries or a tick had a reason to when it   *)
(* read the record.                                                        *)
(***************************************************************************)
WorkFound(p) ==
  /\ proc[p].pc = "expire" => hasExpired(proc[p].snap, proc[p].now)
  /\ proc[p].pc = "tick" => isDue(proc[p].snap, proc[p].now)

WorkHeld == \A p \in Procs : WorkFound(p)

LEMMA WorkInit == Init => WorkHeld
BY DEF Init, WorkHeld, WorkFound, Idle

LEMMA WorkStep == TypeOK /\ WorkHeld /\ [Next]_vars => WorkHeld'
<1> SUFFICES ASSUME TypeOK, WorkHeld, [Next]_vars, NEW x \in Procs
             PROVE  WorkFound(x)'
  BY DEF WorkHeld
<1>0. DOMAIN proc = Procs /\ WorkFound(x)
  BY DEF TypeOK, ProcsOK, WorkHeld
<1>1. CASE UNCHANGED proc
  BY <1>0, <1>1 DEF WorkFound
<1>2. ASSUME NEW p \in Procs, NEW pc, NEW q, NEW t, NEW s, Become(p, pc, q, t, s),
             pc = "expire" => hasExpired(s, t), pc = "tick" => isDue(s, t)
      PROVE  WorkFound(x)'
  <2>1. proc' = [proc EXCEPT ![p] = [pc |-> pc, req |-> q, now |-> t, snap |-> s]]
    BY <1>2 DEF Become
  <2>2. CASE x = p
    BY <1>0, <1>2, <2>1, <2>2 DEF WorkFound
  <2>3. CASE x # p
    BY <1>0, <2>1, <2>3 DEF WorkFound
  <2> QED
    BY <2>2, <2>3
<1>3. ASSUME NEW p \in Procs, End(p) PROVE WorkFound(x)'
  <2>1. Become(p, "idle", NoCall, NoTime, NoRecord)
    BY <1>3 DEF End, Become, Idle
  <2> QED
    BY <1>2, <2>1
<1>4. ASSUME NEW p \in Procs, Handler(p) PROVE WorkFound(x)'
  BY <1>1, <1>2, <1>3, <1>4
  DEF Handler, CreateRead, CreateCommit, CommandRead, CommandCommit, CommandRecheck,
      ViewRead, ViewCommit
<1>5. ASSUME NEW p \in Procs, Worker(p) \/ Crash(p) PROVE WorkFound(x)'
  BY <1>2, <1>3, <1>5
  DEF Worker, Crash, TickStart, TickRead, TickCommit, SuspendRead, SuspendCommit
<1> QED
  BY <1>1, <1>4, <1>5
  DEF Next, vars, Issue, SetAccount, PurgeList, PurgeDelete, AdvanceClock

-----------------------------------------------------------------------------
(***************************************************************************)
(* Every step is an operation of the atomic job or leaves it alone.        *)
(***************************************************************************)
AtomicStep == Atomic!Operation \/ UNCHANGED <<rec, Performed>>

\* A command that is committed is performed.
LEMMA CommitPerforms ==
  ASSUME Current, Once, NEW p \in Procs, CommandCommit(p)
  PROVE  AtomicStep
<1> DEFINE q == proc[p].req
<1>1. CASE NoWrite /\ UNCHANGED history
  BY <1>1 DEF NoWrite, history, Performed, AtomicStep
<1>2. ASSUME Authorized, Unchanged(proc[p].snap),
             NEW e \in Mutated(calls[q], proc[p].snap, proc[p].now), Write(e.rec),
             applied' = [applied EXCEPT ![q] = @ + 1]
      PROVE  AtomicStep
  <2>1. proc[p].pc = "commit"
    BY DEF CommandCommit
  <2>2. rec # NoRecord /\ JobOK(rec) /\ proc[p].snap = rec
    BY <1>2, <2>1, HeldIsCurrent DEF Holds
  <2>3. /\ q \in Requests /\ q \in DOMAIN calls /\ calls[q] \in Call /\ calls[q] # NoCall
        /\ proc[p].now \in 0..clock /\ applied \in [Requests -> Nat]
    <3>1. proc[p].now \in Nat /\ clock \in Nat /\ proc[p].now <= clock
      BY InstanceAssumption DEF Current, TypeOK, ProcsOK, EnvironmentOK
    <3> QED
      BY <2>1, <3>1, InstanceAssumption
      DEF Current, TypeOK, ProcsOK, EnvironmentOK, HistoryOK
  <2>4. calls[q].version = rec.version
    BY <2>1, <2>2 DEF Once, CommandsHold
  <2>5. applied[q] = 0
    BY <2>2, <2>3, <2>4 DEF Once, AppliedBehind, JobOK, JobRecords
  <2>6. q \notin Performed /\ Performed' = Performed \cup {q}
    BY <1>2, <2>3, <2>5 DEF Performed
  <2>7. \E t \in 0..clock : \E f \in Atomic!Mutated(calls[q], rec, t) : rec' = Atomic!Stored(f.rec)
    <3>1. rec' = Stored(e.rec) /\ e \in Mutated(calls[q], rec, proc[p].now)
      BY <1>2, <2>2 DEF Write
    <3> QED
      BY <2>3, <3>1, SameMutated, SameStored
  <2>8. Atomic!Perform(q)
    BY <1>2, <2>2, <2>3, <2>4, <2>6, <2>7, SameNoRecord DEF Atomic!Perform, Authorized
  <2> QED
    BY <2>3, <2>8 DEF AtomicStep, Atomic!Operation
<1> QED
  BY <1>1, <1>2 DEF CommandCommit

LEMMA StepsAreAtomic ==
  ASSUME Current, Once, WorkHeld, [Next]_vars
  PROVE  AtomicStep
<1>0. ASSUME NEW p \in Procs PROVE proc[p].now \in 0..clock
  <2>1. proc[p].now \in Nat /\ clock \in Nat /\ proc[p].now <= clock
    BY InstanceAssumption DEF Current, TypeOK, ProcsOK, EnvironmentOK
  <2> QED
    BY <2>1
<1>1. CASE UNCHANGED <<rec, applied>>
  BY <1>1 DEF AtomicStep, Performed
<1>2. ASSUME NEW p \in Procs, CreateCommit(p) PROVE AtomicStep
  <2>1. CASE NoWrite
    BY <1>2, <2>1 DEF CreateCommit, NoWrite, history, AtomicStep, Performed
  <2>2. CASE rec' = Created(birth.kind, birth.sched, proc[p].now) /\ Authorized /\ rec = NoRecord
    <3>1. Atomic!Create
      <4>1. \E t \in 0..clock : rec' = Atomic!Created(birth.kind, birth.sched, t)
        BY <1>0, <2>2, SameCreated
      <4>2. UNCHANGED Performed
        BY <1>2 DEF CreateCommit, history, Performed
      <4> QED
        BY <2>2, <4>1, <4>2, SameNoRecord DEF Atomic!Create, Authorized
    <3> QED
      BY <3>1 DEF AtomicStep, Atomic!Operation
  <2> QED
    BY <1>2, <2>1, <2>2 DEF CreateCommit
<1>3. ASSUME NEW p \in Procs, ViewCommit(p) PROVE AtomicStep
  <2>1. CASE NoWrite
    BY <1>3, <2>1 DEF ViewCommit, NoWrite, history, AtomicStep, Performed
  <2>2. CASE Authorized /\ Unchanged(proc[p].snap) /\ Write(Refreshed(proc[p].snap, proc[p].now))
    <3>1. rec # NoRecord /\ proc[p].snap = rec /\ hasExpired(rec, proc[p].now)
      BY <1>3, <2>2, HeldIsCurrent DEF ViewCommit, Holds, WorkHeld, WorkFound
    <3>2. Atomic!Expire
      <4>1. \E t \in 0..clock : Atomic!hasExpired(rec, t) /\ rec' = Atomic!Stored(Atomic!Refreshed(rec, t))
        <5>1. rec' = Stored(Refreshed(rec, proc[p].now))
          BY <2>2, <3>1 DEF Write
        <5> QED
          BY <1>0, <3>1, <5>1, SameExpired, SameRefreshed, SameStored
      <4>2. UNCHANGED Performed
        BY <1>3 DEF ViewCommit, history, Performed
      <4> QED
        BY <2>2, <3>1, <4>1, <4>2, SameNoRecord DEF Atomic!Expire, Authorized
    <3> QED
      BY <3>2 DEF AtomicStep, Atomic!Operation
  <2> QED
    BY <1>3, <2>1, <2>2 DEF ViewCommit
<1>4. ASSUME NEW p \in Procs, TickCommit(p) PROVE AtomicStep
  <2>1. CASE NoWrite
    BY <1>4, <2>1 DEF TickCommit, NoWrite, history, AtomicStep, Performed
  <2>2. ASSUME Authorized, Unchanged(proc[p].snap),
               NEW r \in Ticked(proc[p].snap, proc[p].now), Write(r)
        PROVE  AtomicStep
    <3>1. rec # NoRecord /\ proc[p].snap = rec /\ isDue(rec, proc[p].now)
      BY <1>4, <2>2, HeldIsCurrent DEF TickCommit, Holds, WorkHeld, WorkFound
    <3>2. Atomic!Tick
      <4>1. \E t \in 0..clock : /\ Atomic!isDue(rec, t)
                                /\ \E s \in Atomic!Ticked(rec, t) : rec' = Atomic!Stored(s)
        <5>1. rec' = Stored(r) /\ r \in Ticked(rec, proc[p].now)
          BY <2>2, <3>1 DEF Write
        <5> QED
          BY <1>0, <3>1, <5>1, SameDue, SameTicked, SameStored
      <4>2. UNCHANGED Performed
        BY <1>4 DEF TickCommit, history, Performed
      <4> QED
        BY <2>2, <3>1, <4>1, <4>2, SameNoRecord DEF Atomic!Tick, Authorized
    <3> QED
      BY <3>2 DEF AtomicStep, Atomic!Operation
  <2> QED
    BY <1>4, <2>1, <2>2 DEF TickCommit
<1>5. ASSUME NEW p \in Procs, SuspendCommit(p) PROVE AtomicStep
  <2>1. CASE NoWrite
    BY <1>5, <2>1 DEF SuspendCommit, NoWrite, history, AtomicStep, Performed
  <2>2. CASE ~ Authorized /\ Unchanged(proc[p].snap) /\ rec' = Stored(Suspended(proc[p].snap))
    <3>1. rec # NoRecord /\ proc[p].snap = rec
      BY <1>5, <2>2, HeldIsCurrent DEF SuspendCommit, Holds
    <3>2. UNCHANGED Performed
      BY <1>5 DEF SuspendCommit, history, Performed
    <3>3. Atomic!Suspend
      BY <2>2, <3>1, <3>2, SameSuspended, SameStored, SameNoRecord
      DEF Atomic!Suspend, Authorized
    <3> QED
      BY <3>3 DEF AtomicStep, Atomic!Operation
  <2> QED
    BY <1>5, <2>1, <2>2 DEF SuspendCommit
<1>6. CASE PurgeDelete
  <2>1. account = "deleting" /\ UNCHANGED Performed
    BY <1>6 DEF PurgeDelete, Current, PurgeIsFinal, Performed
  <2>2. rec' = NoRecord \/ UNCHANGED rec
    BY <1>6 DEF PurgeDelete
  <2> QED
    BY <2>1, <2>2, SameNoRecord DEF AtomicStep, Atomic!Operation, Atomic!Remove
<1> QED
  BY <1>1, <1>2, <1>3, <1>4, <1>5, <1>6, CommitPerforms
  DEF Next, vars, Handler, Worker, Crash, Issue, SetAccount, PurgeList, AdvanceClock,
      history, NoWrite, CreateRead, CommandRead, CommandRecheck, ViewRead, TickStart,
      TickRead, SuspendRead

\* Lost updates, double executions and writes computed from outdated records
\* are impossible: the concurrent job implements the atomic one.
THEOREM ImplementsAtomicJob == Spec => ActsAtomically
<1> DEFINE I == Current /\ Once /\ WorkHeld
<1>1. Init => I
  BY CurrentInit, OnceInit, WorkInit
<1>2. I /\ [Next]_vars => I'
  BY CurrentStep, OnceStep, WorkStep DEF Current
<1>3. Init => rec = Atomic!NoRecord /\ Performed = {}
  BY SameNoRecord DEF Init, Performed
<1>4. I /\ [Next]_vars => [Atomic!Operation]_<<rec, Performed>>
  BY StepsAreAtomic DEF AtomicStep
<1> QED
  BY <1>1, <1>2, <1>3, <1>4, PTL DEF Spec, ActsAtomically, Atomic!Spec

-----------------------------------------------------------------------------
(***************************************************************************)
(* What every operation does to the runs of the record it starts from:     *)
(* none is lost, since those that leave the record travel with the write;  *)
(* a finished one keeps its outcome; the others keep their content; at     *)
(* most one is added, and it is a fresh run or the first retry of one that *)
(* failed.                                                                 *)
(***************************************************************************)
\* The same piece of work, whatever has become of it.
SameWork(v, w) ==
  /\ w.kind = v.kind /\ w.gen = v.gen /\ w.attempt = v.attempt
  /\ w.retryOf = v.retryOf /\ w.slot = v.slot

Revised(v, w) == SameWork(v, w) /\ (~ pendingRun(v) => w = v)

\* The runs a record tells of, retained or just evicted.
Names(s) == DOMAIN s.runs \cup DOMAIN s.evicted
Seen(s, i) == IF i \in DOMAIN s.runs THEN s.runs[i] ELSE s.evicted[i]

\* A retry is younger than the run it retries.  While that run is retained it
\* is finished, and its retry is retained as well.
Linked(s) ==
  \A j \in Names(s) : LET i == Seen(s, j).retryOf IN
    /\ i < j
    /\ i \in DOMAIN s.runs => j \in DOMAIN s.runs /\ ~ pendingRun(s.runs[i])

\* No run of the record is a retry of k.
Childless(s, k) == k \in DOMAIN s.runs => \A j \in Names(s) : Seen(s, j).retryOf # k

\* The run v may be added to the record b.
FirstRetry(b, v) ==
  v.retryOf # NoRun =>
    /\ v.retryOf \in DOMAIN b.runs /\ ~ pendingRun(b.runs[v.retryOf])
    /\ \A j \in DOMAIN b.runs : b.runs[j].retryOf # v.retryOf
    /\ v.attempt = b.runs[v.retryOf].attempt + 1 /\ v.attempt <= MaxAttempts
    /\ v.gen = b.runs[v.retryOf].gen /\ v.kind = b.runs[v.retryOf].kind

\* The record s has been computed from the stored record b.
Derived(b, s) ==
  /\ s.made \in {b.made, b.made + 1}
  /\ DOMAIN s.runs \cap DOMAIN s.evicted = {}
  /\ Names(s) = DOMAIN b.runs \cup ((b.made + 1)..s.made)
  /\ \A i \in DOMAIN s.evicted : ~ pendingRun(s.evicted[i])
  /\ \A i \in DOMAIN b.runs : Revised(b.runs[i], Seen(s, i))
  /\ s.made = b.made + 1 => FirstRetry(b, Seen(s, s.made))
  /\ Linked(s)

\* The job itself, apart from its runs.
SameJob(s, t) ==
  /\ t.status = s.status /\ t.kind = s.kind /\ t.sched = s.sched
  /\ t.gen = s.gen /\ t.next = s.next /\ t.receipts = s.receipts

\* Runs have been revised one by one.
Touched(s, t) ==
  /\ t.made = s.made /\ t.evicted = s.evicted /\ DOMAIN t.runs = DOMAIN s.runs
  /\ \A i \in DOMAIN s.runs : Revised(s.runs[i], t.runs[i])

\* Some of the runs have left the record, nothing else has changed.
Shed(s, t) ==
  /\ SameJob(s, t) /\ t.made = s.made
  /\ \A i \in DOMAIN t.runs : i \in DOMAIN s.runs /\ t.runs[i] = s.runs[i]
  /\ \A i \in Names(s) : Seen(t, i) = Seen(s, i)

LEMMA DerivedSelf ==
  ASSUME NEW b, JobOK(b), DOMAIN b.evicted = {}, Linked(b)
  PROVE  Derived(b, b)
<1>1. b.made \in Nat
  BY DEF JobOK, JobRecords
<1>2. (b.made + 1)..b.made = {}
  BY <1>1
<1>3. \A i \in DOMAIN b.runs : Revised(b.runs[i], Seen(b, i))
  BY DEF Revised, SameWork, Seen
<1> QED
  BY <1>1, <1>2, <1>3 DEF Derived, Names

\* Runs revised one by one.
LEMMA DerivedTouched ==
  ASSUME NEW b, NEW s, NEW t, JobOK(b), JobOK(s), Derived(b, s),
         Touched(s, t)
  PROVE  Derived(b, t)
<1>0. /\ t.made = s.made /\ t.evicted = s.evicted /\ DOMAIN t.runs = DOMAIN s.runs
      /\ \A i \in DOMAIN s.runs : Revised(s.runs[i], t.runs[i])
  BY DEF Touched
<1>1. Names(t) = Names(s)
  BY <1>0 DEF Names
<1>2. \A i \in Names(s) : Revised(Seen(s, i), Seen(t, i))
  BY <1>0 DEF Names, Seen, Revised, SameWork
<1>3. DOMAIN b.runs \subseteq Names(s)
  BY DEF Derived
<1>4. \A i \in DOMAIN b.runs : Revised(b.runs[i], Seen(t, i))
  <2> SUFFICES ASSUME NEW i \in DOMAIN b.runs PROVE Revised(b.runs[i], Seen(t, i))
    OBVIOUS
  <2>1. Revised(b.runs[i], Seen(s, i)) /\ Revised(Seen(s, i), Seen(t, i))
    BY <1>2, <1>3 DEF Derived
  <2> QED
    BY <2>1 DEF Revised, SameWork
<1>5. s.made = b.made + 1 => FirstRetry(b, Seen(t, s.made))
  <2> SUFFICES ASSUME s.made = b.made + 1 PROVE FirstRetry(b, Seen(t, s.made))
    OBVIOUS
  <2>1. s.made \in Names(s)
    <3>1. b.made \in Nat
      BY DEF JobOK, JobRecords
    <3> QED
      BY <3>1 DEF Derived
  <2>2. SameWork(Seen(s, s.made), Seen(t, s.made)) /\ FirstRetry(b, Seen(s, s.made))
    BY <1>2, <2>1 DEF Revised, Derived
  <2> QED
    BY <2>2 DEF FirstRetry, SameWork
<1>6. Linked(t)
  <2> SUFFICES ASSUME NEW j \in Names(s)
               PROVE  LET i == Seen(t, j).retryOf IN
                      /\ i < j
                      /\ i \in DOMAIN s.runs => j \in DOMAIN s.runs /\ ~ pendingRun(t.runs[i])
    BY <1>0, <1>1 DEF Linked
  <2> DEFINE i == Seen(s, j).retryOf
  <2>1. Seen(t, j).retryOf = i
    BY <1>2 DEF Revised, SameWork
  <2>2. i < j /\ (i \in DOMAIN s.runs => j \in DOMAIN s.runs /\ ~ pendingRun(s.runs[i]))
    BY DEF Derived, Linked
  <2> QED
    BY <1>0, <2>1, <2>2 DEF Revised
<1> QED
  BY <1>0, <1>1, <1>4, <1>5, <1>6 DEF Derived

\* Fields of the job that are not its runs.
LEMMA DerivedSame ==
  ASSUME NEW b, NEW s, NEW t, JobOK(b), JobOK(s), Derived(b, s),
         t.made = s.made, t.evicted = s.evicted, t.runs = s.runs
  PROVE  Derived(b, t)
<1>1. Touched(s, t)
  BY DEF Touched, Revised, SameWork
<1> QED
  BY <1>1, DerivedTouched

\* Finished runs leave the record, none of them before the run it retries.
LEMMA DerivedEvict ==
  ASSUME NEW b, NEW s, NEW E, JobOK(b), JobOK(s), Derived(b, s), E \subseteq Terminal(s),
         \A j \in E : Seen(s, j).retryOf \notin Terminal(s) \ E
  PROVE  Derived(b, Evict(s, E)) /\ Shed(s, Evict(s, E))
<1> DEFINE t == Evict(s, E)
<1>1. /\ t.made = s.made
      /\ t.runs = [i \in DOMAIN s.runs \ E |-> s.runs[i]]
      /\ t.evicted = [i \in DOMAIN s.evicted \cup E |->
                        IF i \in E THEN s.runs[i] ELSE s.evicted[i]]
      /\ SameJob(s, t)
  BY DEF Evict, JobOK, JobRecords, SameJob
<1>2. E \subseteq DOMAIN s.runs /\ \A i \in E : ~ pendingRun(s.runs[i])
  BY DEF Terminal
<1> HIDE DEF t
<1>3. DOMAIN t.runs = DOMAIN s.runs \ E /\ DOMAIN t.evicted = DOMAIN s.evicted \cup E
  BY <1>1
<1>4. Names(t) = Names(s) /\ DOMAIN t.runs \cap DOMAIN t.evicted = {}
  BY <1>2, <1>3 DEF Names, Derived
<1>5. \A i \in Names(s) : Seen(t, i) = Seen(s, i)
  BY <1>1, <1>2, <1>3 DEF Names, Seen, Derived
<1>6. \A i \in DOMAIN t.evicted : ~ pendingRun(t.evicted[i])
  BY <1>1, <1>2, <1>3 DEF Derived
<1>7. Linked(t)
  <2> SUFFICES ASSUME NEW j \in Names(s)
               PROVE  LET i == Seen(s, j).retryOf IN
                      /\ i < j
                      /\ i \in DOMAIN t.runs => j \in DOMAIN t.runs /\ ~ pendingRun(t.runs[i])
    BY <1>4, <1>5 DEF Linked
  <2> DEFINE i == Seen(s, j).retryOf
  <2>1. i < j /\ (i \in DOMAIN s.runs => j \in DOMAIN s.runs /\ ~ pendingRun(s.runs[i]))
    BY DEF Derived, Linked
  <2>2. ASSUME i \in DOMAIN t.runs PROVE j \in DOMAIN t.runs /\ ~ pendingRun(t.runs[i])
    <3>1. i \in Terminal(s) \ E
      BY <1>3, <2>1, <2>2 DEF Terminal
    <3> QED
      BY <1>1, <1>3, <2>1, <2>2, <3>1
  <2> QED
    BY <2>1, <2>2
<1>8. DOMAIN b.runs \subseteq Names(s) /\ (s.made = b.made + 1 => s.made \in Names(s))
  <2>1. b.made \in Nat
    BY DEF JobOK, JobRecords
  <2> QED
    BY <2>1 DEF Derived
<1>9. Derived(b, t)
  BY <1>1, <1>4, <1>5, <1>6, <1>7, <1>8 DEF Derived
<1>10. Shed(s, t)
  BY <1>1, <1>5 DEF Shed
<1> QED
  BY <1>1, <1>9, <1>10 DEF t

\* A run is added to a record that has none of its own yet.
LEMMA DerivedAdd ==
  ASSUME NEW b, NEW s, NEW v \in Run, JobOK(b), JobOK(s), Derived(b, s), s.made = b.made,
         FirstRetry(b, v)
  PROVE  LET t == AddRun(s, v) IN
         /\ Derived(b, t) /\ SameJob(s, t) /\ t.made = s.made + 1 /\ Childless(t, t.made)
         /\ t.runs = [i \in DOMAIN s.runs \cup {s.made + 1} |->
                        IF i = s.made + 1 THEN v ELSE s.runs[i]]
<1> DEFINE t == AddRun(s, v)
           n == s.made + 1
<1>1. /\ t.made = n /\ t.evicted = s.evicted /\ SameJob(s, t)
      /\ t.runs = [i \in DOMAIN s.runs \cup {n} |-> IF i = n THEN v ELSE s.runs[i]]
  BY DEF AddRun, JobOK, JobRecords, SameJob
<1>2. /\ s.made \in Nat /\ n \in Nat
      /\ DOMAIN s.runs \subseteq 1..s.made /\ DOMAIN s.evicted \subseteq 1..s.made
      /\ DOMAIN b.runs \subseteq 1..s.made
  BY DEF JobOK, JobRecords, RunTable
<1> HIDE DEF t
<1>3. n \notin Names(s) /\ n \notin DOMAIN b.runs
  BY <1>2 DEF Names
<1>4. DOMAIN t.runs = DOMAIN s.runs \cup {n} /\ Names(t) = Names(s) \cup {n}
  BY <1>1 DEF Names
<1>5. Seen(t, n) = v /\ \A i \in Names(s) : Seen(t, i) = Seen(s, i)
  BY <1>1, <1>3, <1>4 DEF Seen, Names
<1>6. DOMAIN t.runs \cap DOMAIN t.evicted = {}
  BY <1>1, <1>3, <1>4 DEF Derived, Names
<1>7. Names(t) = DOMAIN b.runs \cup ((b.made + 1)..t.made)
  <2>1. (b.made + 1)..s.made = {} /\ (b.made + 1)..t.made = {n}
    BY <1>1, <1>2
  <2> QED
    BY <1>4, <2>1 DEF Derived
<1>8. Linked(t)
  <2> SUFFICES ASSUME NEW j \in Names(t)
               PROVE  LET i == Seen(t, j).retryOf IN
                      /\ i < j
                      /\ i \in DOMAIN t.runs => j \in DOMAIN t.runs /\ ~ pendingRun(t.runs[i])
    BY DEF Linked
  <2> DEFINE i == Seen(t, j).retryOf
  <2>1. CASE j = n
    <3>1. i = v.retryOf /\ i \in Nat
      BY <1>5, <2>1 DEF Run
    <3>2. CASE i = NoRun
      BY <1>2, <1>4, <2>1, <3>2 DEF NoRun
    <3>3. CASE i # NoRun
      <4>1. i \in DOMAIN b.runs /\ ~ pendingRun(b.runs[i]) /\ i # n
        BY <1>3, <3>1, <3>3 DEF FirstRetry
      <4>2. i \in DOMAIN t.runs => t.runs[i] = b.runs[i]
        <5>1. ASSUME i \in DOMAIN s.runs PROVE s.runs[i] = b.runs[i]
          BY <4>1, <5>1 DEF Derived, Revised, Seen
        <5> QED
          BY <1>1, <1>4, <4>1, <5>1
      <4> QED
        BY <1>2, <1>4, <2>1, <4>1, <4>2
    <3> QED
      BY <3>2, <3>3
  <2>2. CASE j # n
    <3>1. j \in Names(s) /\ i = Seen(s, j).retryOf
      BY <1>4, <1>5, <2>2
    <3>2. i < j /\ (i \in DOMAIN s.runs => j \in DOMAIN s.runs /\ ~ pendingRun(s.runs[i]))
      BY <3>1 DEF Derived, Linked
    <3>3. j \in 1..s.made /\ i \in Nat
      <4>1. /\ s.runs \in [DOMAIN s.runs -> Run] /\ s.evicted \in [DOMAIN s.evicted -> Run]
            /\ j \in 1..s.made
        BY <1>2, <3>1 DEF Names, JobOK, RunTable
      <4> QED
        BY <3>1, <4>1 DEF Names, Seen, Run
    <3>4. i # n
      BY <1>2, <3>2, <3>3
    <3>5. i \in DOMAIN t.runs => i \in DOMAIN s.runs /\ t.runs[i] = s.runs[i]
      BY <1>1, <1>4, <3>4
    <3> QED
      BY <1>4, <3>2, <3>5
  <2> QED
    BY <2>1, <2>2
<1>9. \A i \in DOMAIN b.runs : Revised(b.runs[i], Seen(t, i))
  <2>1. DOMAIN b.runs \subseteq Names(s)
    BY DEF Derived
  <2> QED
    BY <1>5, <2>1 DEF Derived
<1>10. Derived(b, t)
  BY <1>1, <1>5, <1>6, <1>7, <1>8, <1>9 DEF Derived
<1>11. Childless(t, n)
  <2> SUFFICES ASSUME NEW j \in Names(t), Seen(t, j).retryOf = n PROVE FALSE
    BY DEF Childless
  <2>1. n < j /\ j \in 1..n
    BY <1>2, <1>4, <1>8 DEF Linked, Names
  <2> QED
    BY <1>2, <2>1
<1> QED
  BY <1>1, <1>10, <1>11 DEF t

\* Making room and compacting take finished runs away, the oldest first.
LEMMA DerivedRoom ==
  ASSUME NEW b, NEW s, JobOK(b), JobOK(s), Derived(b, s), NEW x \in reserveRun(s)
  PROVE  Derived(b, x) /\ Shed(s, x)
<1>1. CASE x = s
  BY <1>1 DEF SameJob, Shed
<1>2. CASE Terminal(s) # {} /\ x = Evict(s, {Least(Terminal(s))})
  <2> DEFINE j == Least(Terminal(s))
  <2>1. DOMAIN s.runs \subseteq Nat
    BY DEF JobOK, JobRecords, RunTable
  <2>2. j \in Terminal(s) /\ \A y \in Terminal(s) : j <= y
    BY <1>2, <2>1, LeastMember DEF Terminal
  <2>3. Seen(s, j).retryOf < j
    BY <2>2 DEF Derived, Linked, Names, Terminal
  <2>4. Seen(s, j).retryOf \in Nat
    BY <2>2 DEF JobOK, RunTable, Terminal, Run, Seen
  <2>5. Seen(s, j).retryOf \notin Terminal(s)
    <3>1. j \in Nat
      BY <2>1, <2>2 DEF Terminal
    <3> HIDE DEF j
    <3> QED
      BY <2>2, <2>3, <2>4, <3>1
  <2> HIDE DEF j
  <2> QED
    BY <1>2, <2>2, <2>5, DerivedEvict DEF j
<1> QED
  BY <1>1, <1>2 DEF reserveRun, When

LEMMA DerivedCompact ==
  ASSUME NEW b, NEW s, JobOK(b), JobOK(s), Derived(b, s), NEW keep, Childless(s, keep),
         NEW x \in compact(s, keep)
  PROVE  Derived(b, x) /\ Shed(s, x)
<1> DEFINE old == Terminal(s) \ {keep}
<1>1. PICK E \in SUBSET old : x = Evict(s, E) /\ \A i \in E, j \in old \ E : i < j
  BY DEF compact
<1>2. ASSUME NEW j \in E PROVE Seen(s, j).retryOf \notin Terminal(s) \ E
  <2> DEFINE i == Seen(s, j).retryOf
  <2>1. j \in DOMAIN s.runs /\ j \in Names(s)
    BY <1>1, <1>2 DEF Terminal, Names
  <2>2. i < j /\ i \in Nat /\ j \in Nat
    <3>1. DOMAIN s.runs \subseteq Nat
      BY DEF JobOK, JobRecords, RunTable
    <3>2. i \in Nat
      BY <2>1 DEF JobOK, RunTable, Run, Seen
    <3> QED
      BY <2>1, <3>1, <3>2 DEF Derived, Linked
  <2>3. CASE i = keep
    BY <2>1, <2>3 DEF Childless, Terminal
  <2>4. CASE i # keep
    <3>1. ASSUME i \in old \ E PROVE FALSE
      BY <1>1, <1>2, <2>2, <3>1
    <3> QED
      BY <2>4, <3>1
  <2> QED
    BY <2>3, <2>4
<1> QED
  BY <1>1, <1>2, DerivedEvict

\* With every finished run gone as well.
LEMMA DerivedAllGone ==
  ASSUME NEW b, NEW s, JobOK(b), JobOK(s), Derived(b, s)
  PROVE  Derived(b, Evict(s, Terminal(s))) /\ Shed(s, Evict(s, Terminal(s)))
BY DerivedEvict

-----------------------------------------------------------------------------
(***************************************************************************)
(* Pending work is current.                                                *)
(***************************************************************************)
\* No run belongs to a generation to come, those of the current one have the
\* job's content, and only those are pending, in an active job.
Orderly(s) ==
  \A i \in DOMAIN s.runs : LET v == s.runs[i] IN
    /\ pendingRun(v) => s.status = "active" /\ v.gen = s.gen
    /\ v.gen <= s.gen /\ (v.gen = s.gen => v.kind = s.kind)

\* Losing runs.
LEMMA OrderlyShed ==
  ASSUME NEW s, NEW t, Orderly(s), Shed(s, t)
  PROVE  Orderly(t)
BY DEF Orderly, SameJob, Shed

\* Revising runs without leaving the generation.
LEMMA OrderlyTouched ==
  ASSUME NEW s, NEW t, Orderly(s), SameJob(s, t), Touched(s, t)
  PROVE  Orderly(t)
BY DEF Orderly, SameJob, Touched, Revised, SameWork

\* A new generation in which nothing is pending yet.
LEMMA OrderlyRenewed ==
  ASSUME NEW s, NEW t, JobOK(s), Orderly(s), t.gen = s.gen + 1, Touched(s, t),
         \A i \in DOMAIN t.runs : ~ pendingRun(t.runs[i])
  PROVE  Orderly(t)
<1> SUFFICES ASSUME NEW i \in DOMAIN s.runs
             PROVE  t.runs[i].gen <= t.gen /\ t.runs[i].gen # t.gen
  BY DEF Orderly, Touched
<1>1. s.runs[i].gen \in Nat /\ s.gen \in Nat
  BY DEF JobOK, JobRecords, RunTable, Run
<1>2. t.runs[i].gen = s.runs[i].gen /\ s.runs[i].gen <= s.gen
  BY DEF Touched, Revised, SameWork, Orderly
<1> QED
  BY <1>1, <1>2

\* Executing or finishing a pending run leaves it the same work.
LEMMA RunRevised ==
  ASSUME NEW v \in Run, NEW st \in TerminalStatus, NEW now
  PROVE  /\ SameWork(v, finish(v, st)) /\ ~ pendingRun(finish(v, st))
         /\ SameWork(v, executeLocal(v, now))
         /\ pendingRun(v) => Revised(v, finish(v, st)) /\ Revised(v, executeLocal(v, now))
         /\ Revised(v, v)
<1>1. SameWork(v, finish(v, st)) /\ ~ pendingRun(finish(v, st))
  BY DEF finish, SameWork, Run, pendingRun, PendingStatus, TerminalStatus
<1>2. SameWork(v, executeLocal(v, now))
  <2>1. CASE v.kind = "reminder"
    BY <2>1 DEF executeLocal, finish, SameWork, Run
  <2>2. CASE v.kind # "reminder"
    BY <2>2 DEF executeLocal, SameWork, Run
  <2> QED
    BY <2>1, <2>2
<1>3. Revised(v, v)
  BY DEF Revised, SameWork
<1> QED
  BY <1>1, <1>2, <1>3 DEF Revised

\* Room is made and a new run of the current generation is added.
LEMMA DerivedWithRun ==
  ASSUME NEW b, NEW s, JobOK(b), JobOK(s), Derived(b, s), s.made = b.made, Orderly(s),
         s.status = "active", NEW x \in reserveRun(s),
         NEW a \in Nat, NEW o \in Nat, NEW t \in Nat, NEW now \in Nat,
         FirstRetry(b, newRun(s, a, o, t))
  PROVE  LET w == WithRun(x, newRun(x, a, o, t), now) IN
         /\ Derived(b, w.rec) /\ SameJob(s, w.rec) /\ Orderly(w.rec)
         /\ w.rec.made = s.made + 1 /\ w.run = s.made + 1 /\ Childless(w.rec, w.run)
         /\ Seen(w.rec, w.run).slot = t
<1> DEFINE u == newRun(x, a, o, t)
           v == executeLocal(u, now)
           y == AddRun(x, v)
<1>1. Derived(b, x) /\ Shed(s, x) /\ SameJob(s, x) /\ x.made = s.made /\ JobOK(x)
  BY DerivedRoom, RoomType DEF Draft, Shed
<1>2. Orderly(x)
  BY <1>1, OrderlyShed
<1>3. u = newRun(s, a, o, t) /\ u \in Run
  BY <1>1, NewRunType DEF newRun, SameJob
<1>4. SameWork(u, v) /\ v \in Run
  BY <1>3, RunRevised, RunType DEF TerminalStatus
<1>5. FirstRetry(b, v)
  BY <1>3, <1>4 DEF FirstRetry, SameWork
<1>6. /\ WithRun(x, u, now).rec = y /\ WithRun(x, u, now).run = x.made + 1
      /\ u.gen = x.gen /\ u.kind = x.kind /\ u.slot = t
  BY DEF WithRun, Effect, newRun
<1> HIDE DEF u, v
<1>7. /\ Derived(b, y) /\ SameJob(x, y) /\ y.made = x.made + 1 /\ Childless(y, y.made)
      /\ y.runs = [i \in DOMAIN x.runs \cup {x.made + 1} |->
                     IF i = x.made + 1 THEN v ELSE x.runs[i]]
  <2>1. JobOK(x) /\ Derived(b, x) /\ x.made = b.made /\ v \in Run
    BY <1>1, <1>4
  <2> QED
    BY <2>1, <1>5, DerivedAdd, SMTT(60)
<1> HIDE DEF y
<1>8. SameJob(s, y)
  BY <1>1, <1>7 DEF SameJob
<1>9. Orderly(y)
  <2> SUFFICES ASSUME NEW i \in DOMAIN y.runs
               PROVE  /\ pendingRun(y.runs[i]) => y.status = "active" /\ y.runs[i].gen = y.gen
                      /\ y.runs[i].gen <= y.gen
                      /\ y.runs[i].gen = y.gen => y.runs[i].kind = y.kind
    BY DEF Orderly
  <2>1. CASE i = x.made + 1
    <3>1. x.gen \in Nat
      BY <1>1 DEF JobOK, JobRecords
    <3>2. y.runs[i] = v /\ v.gen = y.gen /\ v.kind = y.kind
      BY <1>4, <1>6, <1>7, <2>1 DEF SameWork, SameJob
    <3> QED
      BY <1>7, <1>8, <3>1, <3>2 DEF SameJob
  <2>2. CASE i # x.made + 1
    BY <1>2, <1>7, <2>2 DEF Orderly, SameJob
  <2> QED
    BY <2>1, <2>2
<1>10. Seen(y, y.made).slot = t
  BY <1>4, <1>6, <1>7 DEF Seen, SameWork
<1> QED
  BY <1>1, <1>6, <1>7, <1>8, <1>9, <1>10 DEF u

-----------------------------------------------------------------------------
(***************************************************************************)
(* The operations on all runs at once.                                     *)
(***************************************************************************)
LEMMA CancelTouches ==
  ASSUME NEW s, JobOK(s)
  PROVE  LET t == cancelPending(s) IN
         /\ Touched(s, t) /\ SameJob(s, t) /\ \A i \in DOMAIN t.runs : ~ pendingRun(t.runs[i])
<1> DEFINE t == cancelPending(s)
<1>1. /\ t.made = s.made /\ t.evicted = s.evicted /\ SameJob(s, t)
      /\ t.runs = [i \in DOMAIN s.runs |->
                     IF pendingRun(s.runs[i]) THEN finish(s.runs[i], "cancelled") ELSE s.runs[i]]
  BY DEF cancelPending, OnRuns, JobOK, JobRecords, SameJob
<1> HIDE DEF t
<1>2. ASSUME NEW i \in DOMAIN s.runs
      PROVE  Revised(s.runs[i], t.runs[i]) /\ ~ pendingRun(t.runs[i])
  <2>1. s.runs[i] \in Run /\ "cancelled" \in TerminalStatus
    BY DEF JobOK, RunTable, TerminalStatus
  <2>2. /\ ~ pendingRun(finish(s.runs[i], "cancelled")) /\ Revised(s.runs[i], s.runs[i])
        /\ pendingRun(s.runs[i]) => Revised(s.runs[i], finish(s.runs[i], "cancelled"))
    BY <2>1, RunRevised
  <2> QED
    BY <1>1, <2>2
<1> QED
  BY <1>1, <1>2 DEF Touched, t

LEMMA FailTouches ==
  ASSUME NEW s, JobOK(s), NEW now
  PROVE  Touched(s, FailExpired(s, now)) /\ SameJob(s, FailExpired(s, now))
<1> DEFINE t == FailExpired(s, now)
<1>1. /\ t.made = s.made /\ t.evicted = s.evicted /\ SameJob(s, t)
      /\ t.runs = [i \in DOMAIN s.runs |->
                     IF expiredAt(s.runs[i], now) THEN finish(s.runs[i], "failed") ELSE s.runs[i]]
  BY DEF FailExpired, OnRuns, JobOK, JobRecords, SameJob
<1> HIDE DEF t
<1>2. ASSUME NEW i \in DOMAIN s.runs
      PROVE  Revised(s.runs[i], t.runs[i])
  <2>1. s.runs[i] \in Run /\ "failed" \in TerminalStatus
    BY DEF JobOK, RunTable, TerminalStatus
  <2>2. expiredAt(s.runs[i], now) => pendingRun(s.runs[i])
    BY DEF expiredAt, pendingRun, PendingStatus
  <2> QED
    BY <1>1, <2>1, <2>2, RunRevised
<1> QED
  BY <1>1, <1>2 DEF Touched, t

LEMMA QueuedTouches ==
  ASSUME NEW s, JobOK(s), NEW now
  PROVE  Touched(s, RunQueued(s, now)) /\ SameJob(s, RunQueued(s, now))
<1> DEFINE t == RunQueued(s, now)
<1>1. /\ t.made = s.made /\ t.evicted = s.evicted /\ SameJob(s, t)
      /\ t.runs = [i \in DOMAIN s.runs |->
                     IF s.runs[i].status # "queued" THEN s.runs[i]
                     ELSE IF s.runs[i].gen # s.gen THEN finish(s.runs[i], "cancelled")
                     ELSE executeLocal(s.runs[i], now)]
  BY DEF RunQueued, OnRuns, JobOK, JobRecords, SameJob
<1> HIDE DEF t
<1>2. ASSUME NEW i \in DOMAIN s.runs
      PROVE  Revised(s.runs[i], t.runs[i])
  <2>1. s.runs[i] \in Run /\ "cancelled" \in TerminalStatus
    BY DEF JobOK, RunTable, TerminalStatus
  <2>2. s.runs[i].status = "queued" => pendingRun(s.runs[i])
    BY DEF pendingRun, PendingStatus
  <2> QED
    BY <1>1, <2>1, <2>2, RunRevised
<1> QED
  BY <1>1, <1>2 DEF Touched, t

\* One run is resolved.
LEMMA FinishTouches ==
  ASSUME NEW s, JobOK(s), NEW i \in DOMAIN s.runs, pendingRun(s.runs[i]),
         NEW st \in TerminalStatus
  PROVE  LET t == [s EXCEPT !.runs[i] = finish(@, st)] IN Touched(s, t) /\ SameJob(s, t)
<1> DEFINE t == [s EXCEPT !.runs[i] = finish(@, st)]
<1>1. /\ t.made = s.made /\ t.evicted = s.evicted /\ SameJob(s, t)
      /\ t.runs = [s.runs EXCEPT ![i] = finish(s.runs[i], st)]
  BY DEF JobOK, JobRecords, SameJob
<1> HIDE DEF t
<1>2. s.runs \in [DOMAIN s.runs -> Run]
  BY DEF JobOK, RunTable
<1>3. ASSUME NEW j \in DOMAIN s.runs
      PROVE  Revised(s.runs[j], t.runs[j])
  <2>1. s.runs[j] \in Run
    BY <1>2
  <2> QED
    BY <1>1, <1>2, <2>1, RunRevised
<1> QED
  BY <1>1, <1>2, <1>3 DEF Touched, t

-----------------------------------------------------------------------------
(***************************************************************************)
(* Commands.                                                               *)
(***************************************************************************)
\* A record as the table keeps it between two operations.
Base(r) == JobOK(r) /\ DOMAIN r.evicted = {} /\ Linked(r) /\ Orderly(r)

\* The next occurrence is the one it was, none, or one still to come.
NextMoves(r, s, now) == s.next = r.next \/ s.next = NoTime \/ s.next > now

\* What a command does before its receipt is recorded.
Commanded(r, c, now, e) ==
  /\ Derived(r, e.rec) /\ Orderly(e.rec) /\ Childless(e.rec, e.run)
  /\ e.rec.receipts = r.receipts
  /\ NextMoves(r, e.rec, now)
  /\ e.rec.made # r.made => r.status = "active" /\ Seen(e.rec, e.rec.made).slot = NoTime
  /\ r.status = "cancelled" => e.rec.status = "cancelled"
  /\ c.op = "cancel" => e.rec.status = "cancelled" /\ e.rec.made = r.made

LEMMA NextLater ==
  ASSUME NEW sc \in Schedules, NEW now \in Nat
  PROVE  next(sc, now) = NoTime \/ next(sc, now) > now
<1>1. sc \subseteq Nat
  BY InstanceAssumption
<1> DEFINE later == {t \in sc : t > now}
<1>2. CASE later = {}
  BY <1>2 DEF next
<1>3. CASE later # {}
  <2>1. Least(later) \in later
    BY <1>1, <1>3, LeastMember
  <2> QED
    BY <1>3, <2>1 DEF next
<1> QED
  BY <1>2, <1>3

\* No run is named NoRun.
LEMMA NoRunChildless ==
  ASSUME NEW s, JobOK(s)
  PROVE  Childless(s, NoRun)
BY DEF Childless, NoRun, JobOK, JobRecords, RunTable

\* A command that revises runs, or none.
LEMMA CommandedTouched ==
  ASSUME NEW r, Base(r), NEW c, NEW now, NEW e, JobOK(e.rec), Touched(r, e.rec),
         Orderly(e.rec), Childless(e.rec, e.run), e.rec.receipts = r.receipts,
         NextMoves(r, e.rec, now), r.status = "cancelled" => e.rec.status = "cancelled",
         c.op = "cancel" => e.rec.status = "cancelled"
  PROVE  Commanded(r, c, now, e)
<1>1. Derived(r, e.rec)
  BY DerivedSelf, DerivedTouched DEF Base
<1>2. e.rec.made = r.made
  BY DEF Touched
<1> QED
  BY <1>1, <1>2 DEF Commanded

\* A command that begins a new generation.
LEMMA CommandedRenewed ==
  ASSUME NEW r, Base(r), NEW c \in Call, NEW now \in Nat, NEW u, JobOK(u),
         u.runs = r.runs, u.evicted = r.evicted, u.made = r.made, u.gen = r.gen + 1,
         u.receipts = r.receipts, NextMoves(r, u, now),
         r.status = "cancelled" => u.status = "cancelled",
         c.op = "cancel" => u.status = "cancelled"
  PROVE  Commanded(r, c, now, Effect(cancelPending(u), NoRun))
<1> DEFINE t == cancelPending(u)
           e == Effect(t, NoRun)
<1>1. e.rec = t /\ e.run = NoRun
  BY DEF Effect
<1>2. /\ Touched(u, t) /\ SameJob(u, t) /\ \A i \in DOMAIN t.runs : ~ pendingRun(t.runs[i])
      /\ JobOK(t)
  BY CancelTouches, CancelPendingType DEF Draft
<1> HIDE DEF t
<1>3. Touched(r, t)
  BY <1>2 DEF Touched
<1>4. Orderly(t)
  BY <1>2, <1>3, OrderlyRenewed DEF Base, SameJob
<1>5. Childless(t, NoRun)
  BY <1>2, NoRunChildless
<1>6. NextMoves(r, t, now) /\ t.receipts = r.receipts /\ t.status = u.status
  BY <1>2 DEF NextMoves, SameJob
<1> HIDE DEF e
<1>7. Commanded(r, c, now, e)
  BY <1>1, <1>2, <1>3, <1>4, <1>5, <1>6, CommandedTouched
<1> QED
  BY <1>7 DEF e, t

LEMMA ActionCommands ==
  ASSUME NEW r, Base(r), NEW c \in Call, c.op \in {"pause", "resume", "cancel"},
         NEW now \in Nat, NEW e \in Action(c, r, now)
  PROVE  Commanded(r, c, now, e)
<1>0. JobOK(r) /\ r.gen + 1 \in Nat /\ r.sched \in Schedules
  BY DEF Base, JobOK, JobRecords
<1>1. CASE c.op = "pause"
  <2> DEFINE u == [r EXCEPT !.status = "paused", !.gen = r.gen + 1]
  <2>1. e = Effect(cancelPending(u), NoRun) /\ r.status = "active"
    BY <1>0, <1>1 DEF Action, When, Paused, JobOK, JobRecords
  <2>2. /\ u.runs = r.runs /\ u.evicted = r.evicted /\ u.made = r.made /\ u.gen = r.gen + 1
        /\ u.receipts = r.receipts /\ u.next = r.next
    BY <1>0 DEF JobOK, JobRecords
  <2>3. JobOK(u)
    BY <1>0 DEF JobOK, JobRecords, RunTable
  <2> HIDE DEF u
  <2> QED
    BY <1>1, <2>1, <2>2, <2>3, CommandedRenewed DEF NextMoves
<1>2. CASE c.op = "resume"
  <2> DEFINE n == next(r.sched, now)
             t == [r EXCEPT !.status = "active", !.next = n, !.gen = r.gen + 1]
  <2>1. e = Effect(t, NoRun) /\ r.status = "paused"
    BY <1>0, <1>2 DEF Action, When, JobOK, JobRecords
  <2>2. n \in Nat /\ (n = NoTime \/ n > now)
    BY <1>0, NextType, NextLater
  <2> HIDE DEF n
  <2>3. /\ t.runs = r.runs /\ t.evicted = r.evicted /\ t.made = r.made /\ t.gen = r.gen + 1
        /\ t.receipts = r.receipts /\ t.next = n
    BY <1>0 DEF JobOK, JobRecords
  <2>4. JobOK(t)
    BY <1>0, <2>2 DEF JobOK, JobRecords, RunTable
  <2> HIDE DEF t
  <2>5. Touched(r, t)
    BY <2>3 DEF Touched, Revised, SameWork
  <2>6. Orderly(t)
    <3>1. \A i \in DOMAIN t.runs : ~ pendingRun(t.runs[i])
      BY <2>1, <2>3 DEF Base, Orderly
    <3> QED
      BY <1>0, <2>3, <2>5, <3>1, OrderlyRenewed DEF Base
  <2>7. Childless(t, NoRun)
    BY <2>4, NoRunChildless
  <2>8. e.rec = t /\ e.run = NoRun
    BY <2>1 DEF Effect
  <2> QED
    BY <1>2, <2>1, <2>2, <2>3, <2>4, <2>5, <2>6, <2>7, <2>8, CommandedTouched DEF NextMoves
<1>3. CASE c.op = "cancel"
  <2> DEFINE u == [r EXCEPT !.status = "cancelled", !.next = NoTime, !.gen = r.gen + 1]
  <2>1. e = Effect(cancelPending(u), NoRun)
    BY <1>0, <1>3 DEF Action, When, JobOK, JobRecords
  <2>2. /\ u.runs = r.runs /\ u.evicted = r.evicted /\ u.made = r.made /\ u.gen = r.gen + 1
        /\ u.receipts = r.receipts /\ u.next = NoTime /\ u.status = "cancelled"
    BY <1>0 DEF JobOK, JobRecords
  <2>3. JobOK(u)
    BY <1>0 DEF JobOK, JobRecords, RunTable, NoTime
  <2> HIDE DEF u
  <2> QED
    BY <2>1, <2>2, <2>3, CommandedRenewed DEF NextMoves
<1> QED
  BY <1>1, <1>2, <1>3

LEMMA UpdateCommands ==
  ASSUME NEW r, Base(r), NEW c \in Call, c.op = "update", NEW now \in Nat,
         NEW e \in Update(c, r, now)
  PROVE  Commanded(r, c, now, e)
<1> DEFINE n == IF c.sched = r.sched THEN r.next ELSE next(c.sched, now)
           u == [r EXCEPT !.gen = r.gen + 1, !.kind = c.kind, !.sched = c.sched, !.next = n]
<1>1. /\ JobOK(r) /\ r.gen + 1 \in Nat /\ r.next \in Nat
      /\ c.kind \in Kinds /\ c.sched \in Schedules
  BY DEF Base, JobOK, JobRecords, Call
<1>2. e = Effect(cancelPending(u), NoRun) /\ r.status # "cancelled"
  BY <1>1 DEF Update, When, JobOK, JobRecords
<1>3. n \in Nat /\ (n = r.next \/ n = NoTime \/ n > now)
  BY <1>1, NextType, NextLater
<1> HIDE DEF n
<1>4. /\ u.runs = r.runs /\ u.evicted = r.evicted /\ u.made = r.made /\ u.gen = r.gen + 1
      /\ u.receipts = r.receipts /\ u.next = n
  BY <1>1 DEF JobOK, JobRecords
<1>5. JobOK(u)
  BY <1>1, <1>3 DEF JobOK, JobRecords, RunTable
<1> HIDE DEF u
<1> QED
  BY <1>2, <1>3, <1>4, <1>5, CommandedRenewed DEF NextMoves

\* A command that adds a run of the current generation.
LEMMA CommandedRun ==
  ASSUME NEW r, Base(r), NEW c \in Call, c.op # "cancel", NEW now \in Nat,
         r.status = "active", NEW x \in reserveRun(r), NEW a \in Nat, NEW o \in Nat,
         FirstRetry(r, newRun(r, a, o, NoTime))
  PROVE  Commanded(r, c, now, WithRun(x, newRun(x, a, o, NoTime), now))
<1> DEFINE w == WithRun(x, newRun(x, a, o, NoTime), now)
<1>1. Derived(r, r) /\ NoTime \in Nat
  BY DerivedSelf DEF Base, NoTime
<1>2. /\ Derived(r, w.rec) /\ SameJob(r, w.rec) /\ Orderly(w.rec)
      /\ w.rec.made = r.made + 1 /\ w.run = r.made + 1 /\ Childless(w.rec, w.run)
      /\ Seen(w.rec, w.run).slot = NoTime
  BY <1>1, DerivedWithRun DEF Base
<1> HIDE DEF w
<1>3. Commanded(r, c, now, w)
  BY <1>2 DEF Commanded, SameJob, NextMoves
<1> QED
  BY <1>3 DEF w

LEMMA RunCommands ==
  ASSUME NEW r, Base(r), NEW c \in Call, c.op \in {"run", "retry"}, NEW now \in Nat,
         NEW e \in IF c.op = "run" THEN RunNow(r, now) ELSE RetryRun(c, r, now)
  PROVE  Commanded(r, c, now, e)
<1>1. CASE c.op = "run"
  <2>1. /\ r.status = "active"
        /\ \E x \in reserveRun(r) : e = WithRun(x, newRun(x, 1, NoRun, NoTime), now)
    BY <1>1 DEF RunNow, When
  <2>2. FirstRetry(r, newRun(r, 1, NoRun, NoTime))
    BY DEF FirstRetry, newRun
  <2> QED
    BY <1>1, <2>1, <2>2, CommandedRun DEF NoRun
<1>2. CASE c.op = "retry"
  <2> DEFINE i == c.target
             a == r.runs[i].attempt + 1
  <2>1. /\ Retryable(r, i)
        /\ \E x \in reserveRun(r) : e = WithRun(x, newRun(x, a, i, NoTime), now)
    BY <1>2 DEF RetryRun, When
  <2>2. /\ i \in DOMAIN r.runs /\ r.status = "active" /\ ~ pendingRun(r.runs[i])
        /\ r.runs[i].gen = r.gen /\ r.runs[i].attempt < MaxAttempts
        /\ \A j \in DOMAIN r.runs : r.runs[j].retryOf # i
    BY <2>1 DEF Retryable, pendingRun, PendingStatus
  <2>3. r.runs[i].kind = r.kind
    BY <2>2 DEF Base, Orderly
  <2>4. r.runs[i].attempt \in Nat /\ i \in Nat /\ MaxAttempts \in Nat
    BY <2>2, LimitAssumption DEF Base, JobOK, RunTable, Run, Call
  <2>5. FirstRetry(r, newRun(r, a, i, NoTime))
    BY <2>2, <2>3, <2>4 DEF FirstRetry, newRun
  <2>6. a \in Nat
    BY <2>4
  <2> HIDE DEF i, a
  <2> QED
    BY <1>2, <2>1, <2>2, <2>4, <2>5, <2>6, CommandedRun
<1> QED
  BY <1>1, <1>2

\* A pending run has no retry yet.
LEMMA PendingChildless ==
  ASSUME NEW r, Base(r), NEW t, Touched(r, t), NEW i \in DOMAIN r.runs, pendingRun(r.runs[i])
  PROVE  Childless(t, i)
<1> SUFFICES ASSUME NEW j \in Names(t), Seen(t, j).retryOf = i PROVE FALSE
  BY DEF Childless
<1>1. j \in DOMAIN r.runs /\ j \in Names(r)
  BY DEF Touched, Names, Base
<1>2. Seen(r, j).retryOf = i
  BY <1>1 DEF Touched, Seen, Revised, SameWork
<1> QED
  BY <1>1, <1>2 DEF Base, Linked

LEMMA ResolveCommands ==
  ASSUME NEW r, Base(r), NEW c \in Call, c.op \in {"approve", "cancelRun"}, NEW now \in Nat,
         NEW e \in IF c.op = "approve" THEN ApproveRun(c, r, now) ELSE CancelRun(c, r)
  PROVE  Commanded(r, c, now, e)
<1> DEFINE i == c.target
           st == IF c.op = "approve" THEN "succeeded" ELSE "cancelled"
           t == [r EXCEPT !.runs[i] = finish(@, st)]
<1>1. e = Effect(t, i) /\ i \in DOMAIN r.runs /\ pendingRun(r.runs[i])
  <2>1. CASE c.op = "approve"
    <3>1. /\ e = Effect([r EXCEPT !.runs[c.target] = finish(@, "succeeded")], c.target)
          /\ i \in DOMAIN r.runs /\ r.runs[i].status = "waiting_approval"
      BY <2>1, Zenon DEF ApproveRun, When
    <3> QED
      BY <2>1, <3>1 DEF pendingRun, PendingStatus
  <2>2. CASE c.op = "cancelRun"
    <3>1. /\ e = Effect([r EXCEPT !.runs[c.target] = finish(@, "cancelled")], c.target)
          /\ i \in DOMAIN r.runs /\ pendingRun(r.runs[i])
      BY <2>2, Zenon DEF CancelRun, When
    <3> QED
      BY <2>2, <3>1
  <2> QED
    BY <2>1, <2>2
<1>2. st \in TerminalStatus /\ JobOK(r)
  BY DEF TerminalStatus, Base
<1> HIDE DEF st
<1>3. Touched(r, t) /\ SameJob(r, t) /\ JobOK(t)
  BY <1>1, <1>2, FinishTouches, FinishOneType DEF Draft
<1> HIDE DEF t
<1>4. Orderly(t) /\ Childless(t, i)
  BY <1>1, <1>3, OrderlyTouched, PendingChildless DEF Base
<1>5. e.rec = t /\ e.run = i
  BY <1>1 DEF Effect
<1> QED
  BY <1>3, <1>4, <1>5, CommandedTouched DEF SameJob, NextMoves

LEMMA NoteCommands ==
  ASSUME NEW r, Base(r), NEW c \in Call, c.op = "note", NEW now, NEW e \in AddNote(c, r)
  PROVE  Commanded(r, c, now, e)
<1>1. e.rec = r /\ e.run = NoRun
  BY DEF AddNote, When, Effect
<1>2. Touched(r, r) /\ Childless(r, NoRun)
  BY NoRunChildless DEF Touched, Revised, SameWork, Base
<1> QED
  BY <1>1, <1>2, CommandedTouched DEF Base, NextMoves

LEMMA CommandsOrderly ==
  ASSUME NEW r, Base(r), NEW c \in Call, NEW now \in Nat, NEW e \in Command(c, r, now)
  PROVE  Commanded(r, c, now, e)
<1>1. CASE c.op \in {"pause", "resume", "cancel"}
  BY <1>1, ActionCommands DEF Command
<1>2. CASE c.op = "update"
  BY <1>2, UpdateCommands DEF Command
<1>3. CASE c.op \in {"run", "retry"}
  BY <1>3, RunCommands DEF Command
<1>4. CASE c.op \in {"approve", "cancelRun"}
  BY <1>4, ResolveCommands DEF Command
<1>5. CASE c.op = "note"
  BY <1>5, NoteCommands DEF Command
<1> QED
  BY <1>1, <1>2, <1>3, <1>4, <1>5 DEF Call, Operations

-----------------------------------------------------------------------------
(***************************************************************************)
(* Next versions.                                                          *)
(***************************************************************************)
\* A new run that stands for an occurrence stands for the one that was next,
\* which is past, and the schedule has moved beyond the present.
Consumes(r, s, now) ==
  LET t == Seen(s, s.made).slot IN
  t # NoTime => t = r.next /\ t <= now /\ (s.next = NoTime \/ s.next > now)

Evolves(r, s, now) ==
  /\ Derived(r, s) /\ Orderly(s) /\ NextMoves(r, s, now)
  /\ s.made # r.made => r.status = "active" /\ Consumes(r, s, now)

\* Work that nobody asked for moves the schedule only past an occurrence.
Elapses(r, s, now) == s.next # r.next => r.next # NoTime /\ r.next <= now

\* Cancelled for good.
StaysCancelled(r, s) == r.status = "cancelled" => s.status = "cancelled"

LEMMA MutatedEvolves ==
  ASSUME NEW r, Base(r), NEW c \in Call, NEW now \in Nat, NEW m \in Mutated(c, r, now)
  PROVE  /\ Evolves(r, m.rec, now) /\ StaysCancelled(r, m.rec)
         /\ c.op = "cancel" => m.rec.status = "cancelled" /\ m.rec.made = r.made
         /\ m.rec.receipts = Trim(Append(r.receipts, [call |-> c, run |-> m.run]))
<1>1. PICK e \in Command(c, r, now) :
        \E s \in compact(Receipted(e, c), e.run) : m = Effect(s, e.run)
  BY DEF Mutated
<1> DEFINE q == Receipted(e, c)
<1>2. PICK s \in compact(q, e.run) : m = Effect(s, e.run)
  BY <1>1
<1>3. Commanded(r, c, now, e) /\ Draft(r, e.rec) /\ e.run \in Nat /\ JobOK(e.rec) /\ JobOK(r)
  BY CommandsOrderly, CommandType DEF Base, Draft
<1>4. JobOK(q)
  BY <1>3, ReceiptedType DEF Successor
<1>5. /\ q.runs = e.rec.runs /\ q.evicted = e.rec.evicted /\ q.made = e.rec.made
      /\ q.status = e.rec.status /\ q.kind = e.rec.kind /\ q.gen = e.rec.gen
      /\ q.next = e.rec.next
      /\ q.receipts = Trim(Append(r.receipts, [call |-> c, run |-> e.run]))
  BY <1>3 DEF Receipted, JobOK, JobRecords, Commanded
<1> HIDE DEF q
<1>6. Derived(r, q) /\ Orderly(q) /\ Childless(q, e.run)
  <2>1. Derived(r, q)
    BY <1>3, <1>5, DerivedSame DEF Commanded
  <2> QED
    BY <1>3, <1>5, <2>1 DEF Commanded, Orderly, Childless, Names, Seen
<1>7. Derived(r, s) /\ Shed(q, s)
  BY <1>2, <1>3, <1>4, <1>6, DerivedCompact
<1>8. Orderly(s)
  BY <1>6, <1>7, OrderlyShed
<1>9. s.next = e.rec.next /\ s.status = e.rec.status /\ s.made = e.rec.made
      /\ s.receipts = Trim(Append(r.receipts, [call |-> c, run |-> e.run]))
  BY <1>5, <1>7 DEF Shed, SameJob
<1>10. ASSUME s.made # r.made PROVE r.status = "active" /\ Seen(s, s.made).slot = NoTime
  <2>1. s.made \in Names(q)
    <3>1. r.made \in Nat
      BY <1>3 DEF JobOK, JobRecords
    <3> QED
      BY <1>6, <1>10, <1>7, <3>1 DEF Derived, Shed
  <2>2. Seen(s, s.made) = Seen(e.rec, e.rec.made)
    BY <1>5, <1>7, <1>9, <2>1 DEF Shed, Seen
  <2> QED
    BY <1>3, <1>9, <1>10, <2>2 DEF Commanded
<1>11. m.rec = s /\ m.run = e.run
  BY <1>2 DEF Effect
<1>12. Evolves(r, s, now)
  BY <1>3, <1>7, <1>8, <1>9, <1>10 DEF Evolves, NextMoves, Commanded, Consumes
<1> QED
  BY <1>3, <1>9, <1>11, <1>12 DEF Commanded, StaysCancelled

LEMMA RefreshedEvolves ==
  ASSUME NEW r, Base(r), NEW now \in Nat
  PROVE  LET s == Refreshed(r, now) IN
         /\ Evolves(r, s, now) /\ s.made = r.made /\ s.status = r.status
         /\ s.receipts = r.receipts /\ Elapses(r, s, now)
<1> DEFINE f == FailExpired(r, now)
           s == Refreshed(r, now)
<1>1. Touched(r, f) /\ SameJob(r, f) /\ JobOK(f) /\ JobOK(r) /\ Derived(r, r)
  BY FailTouches, FailExpiredType, DerivedSelf DEF Base, Draft
<1>2. s = [f EXCEPT !.retryAfter = NoTime, !.version = @ + 1]
  BY DEF Refreshed
<1> HIDE DEF f, s
<1>3. /\ s.runs = f.runs /\ s.evicted = f.evicted /\ s.made = f.made /\ SameJob(f, s)
  BY <1>1, <1>2 DEF JobOK, JobRecords, SameJob
<1>4. Touched(r, s) /\ SameJob(r, s)
  BY <1>1, <1>3 DEF Touched, SameJob
<1>5. Derived(r, s) /\ Orderly(s)
  BY <1>1, <1>4, DerivedTouched, OrderlyTouched DEF Base
<1>6. s.made = r.made /\ s.next = r.next /\ s.status = r.status /\ s.receipts = r.receipts
  BY <1>4 DEF Touched, SameJob
<1> QED
  BY <1>5, <1>6 DEF Evolves, NextMoves, Elapses, s

LEMMA SuspendedEvolves ==
  ASSUME NEW r, Base(r), NEW now \in Nat
  PROVE  LET s == Suspended(r) IN
         /\ Evolves(r, s, now) /\ Touched(r, s) /\ s.status = "paused" /\ s.next = NoTime
         /\ s.receipts = r.receipts
<1> DEFINE u == [r EXCEPT !.status = "paused", !.gen = r.gen + 1]
           t == cancelPending(u)
           s == Suspended(r)
<1>1. JobOK(r) /\ r.gen + 1 \in Nat /\ Derived(r, r)
  BY DerivedSelf DEF Base, JobOK, JobRecords
<1>2. s = [t EXCEPT !.next = NoTime, !.version = @ + 1]
  BY <1>1 DEF Suspended, Paused, JobOK, JobRecords
<1>3. /\ u.runs = r.runs /\ u.evicted = r.evicted /\ u.made = r.made /\ u.gen = r.gen + 1
      /\ u.receipts = r.receipts /\ u.status = "paused"
  BY <1>1 DEF JobOK, JobRecords
<1>4. JobOK(u)
  BY <1>1 DEF JobOK, JobRecords, RunTable
<1> HIDE DEF u
<1>5. /\ Touched(u, t) /\ SameJob(u, t) /\ \A i \in DOMAIN t.runs : ~ pendingRun(t.runs[i])
      /\ JobOK(t)
  BY <1>4, CancelTouches, CancelPendingType DEF Draft
<1> HIDE DEF t, s
<1>6. /\ s.runs = t.runs /\ s.evicted = t.evicted /\ s.made = t.made /\ s.next = NoTime
      /\ s.status = t.status /\ s.gen = t.gen /\ s.receipts = t.receipts
  BY <1>2, <1>5 DEF JobOK, JobRecords
<1>7. /\ Touched(r, s) /\ s.gen = r.gen + 1 /\ \A i \in DOMAIN s.runs : ~ pendingRun(s.runs[i])
      /\ s.status = "paused" /\ s.receipts = r.receipts /\ s.made = r.made
  BY <1>3, <1>5, <1>6 DEF Touched, SameJob
<1>8. Orderly(s)
  BY <1>1, <1>7, OrderlyRenewed DEF Base
<1>9. JobOK(s) /\ Derived(r, s)
  BY <1>1, <1>7, SuspendedType, DerivedTouched DEF Successor, s
<1> QED
  BY <1>6, <1>7, <1>8, <1>9 DEF Evolves, NextMoves, s

\* A due job is active.
LEMMA DueActive ==
  ASSUME NEW r, NEW now, isDue(r, now)
  PROVE  r.status = "active"
BY DEF isDue, dueAt

LEMMA TickedEvolves ==
  ASSUME NEW r, Base(r), NEW now \in Nat, isDue(r, now), NEW u \in Ticked(r, now)
  PROVE  /\ Evolves(r, u, now) /\ Elapses(r, u, now)
         /\ u.status = r.status /\ u.receipts = r.receipts
<1> DEFINE a == [r EXCEPT !.retryAfter = NoTime]
           b == FailExpired(a, now)
           s == RunQueued(b, now)
<1>1. JobOK(r) /\ JobOK(a) /\ Derived(r, r) /\ r.status = "active"
  BY SetRetryAfter, DerivedSelf, DueActive DEF Draft, NoTime, Base
<1>2. a.runs = r.runs /\ a.evicted = r.evicted /\ a.made = r.made /\ SameJob(r, a)
  BY <1>1 DEF JobOK, JobRecords, SameJob
<1> HIDE DEF a
<1>3. Touched(a, b) /\ SameJob(a, b) /\ JobOK(b)
  BY <1>1, FailTouches, FailExpiredType DEF Draft
<1> HIDE DEF b
<1>4. Touched(b, s) /\ SameJob(b, s) /\ JobOK(s)
  BY <1>3, QueuedTouches, RunQueuedType DEF Draft
<1>5. PICK t : /\ \/ t = s
                  \/ s.next # NoTime /\ s.next <= now /\ t \in RunOccurrence(s, now)
                  \/ t \in BackOff(s, now)
               /\ u = [t EXCEPT !.version = @ + 1]
  BY DEF Ticked, a, b
<1> HIDE DEF s
<1>6. /\ Derived(r, s) /\ Orderly(s) /\ SameJob(r, s) /\ s.made = r.made
      /\ s.status = "active"
  <2>1. Derived(r, a) /\ Orderly(a)
    BY <1>1, <1>2, DerivedSame DEF Orderly, SameJob, Base
  <2>2. Derived(r, b) /\ Orderly(b)
    BY <1>1, <1>3, <2>1, DerivedTouched, OrderlyTouched
  <2>3. Derived(r, s) /\ Orderly(s)
    BY <1>1, <1>3, <1>4, <2>2, DerivedTouched, OrderlyTouched
  <2> QED
    BY <1>1, <1>2, <1>3, <1>4, <2>3 DEF SameJob, Touched
<1>7. /\ JobOK(t) /\ Evolves(r, t, now) /\ Elapses(r, t, now)
      /\ t.status = r.status /\ t.receipts = r.receipts
  <2>1. CASE t = s
    BY <1>4, <1>6, <2>1 DEF Evolves, NextMoves, Elapses, SameJob
  <2>2. CASE s.next # NoTime /\ s.next <= now /\ t \in RunOccurrence(s, now)
    <3> DEFINE W(x) == WithRun(x, newRun(x, 1, NoRun, s.next), now)
    <3>1. PICK x \in reserveRun(s) :
            \E y \in compact(W(x).rec, W(x).run) : t = [y EXCEPT !.next = next(s.sched, now)]
      BY <2>2 DEF RunOccurrence
    <3> DEFINE w == W(x)
    <3>2. PICK y \in compact(w.rec, w.run) : t = [y EXCEPT !.next = next(s.sched, now)]
      BY <3>1
    <3>3. /\ s.next \in Nat /\ s.sched \in Schedules /\ 1 \in Nat /\ NoRun \in Nat
          /\ FirstRetry(r, newRun(s, 1, NoRun, s.next))
      BY <1>4 DEF JobOK, JobRecords, FirstRetry, newRun, NoRun
    <3>4. /\ Derived(r, w.rec) /\ SameJob(s, w.rec) /\ Orderly(w.rec)
          /\ w.rec.made = s.made + 1 /\ w.run = s.made + 1 /\ Childless(w.rec, w.run)
          /\ Seen(w.rec, w.run).slot = s.next
      BY <1>1, <1>4, <1>6, <3>3, DerivedWithRun
    <3>5. JobOK(w.rec)
      BY <1>4, <3>3, RoomAndRunType DEF Draft
    <3> HIDE DEF w
    <3>6. Derived(r, y) /\ Shed(w.rec, y) /\ JobOK(y)
      BY <1>1, <3>2, <3>4, <3>5, DerivedCompact, RoomType DEF Draft
    <3>7. Orderly(y)
      BY <3>4, <3>6, OrderlyShed
    <3>8. /\ t.runs = y.runs /\ t.evicted = y.evicted /\ t.made = y.made
          /\ t.next = next(s.sched, now) /\ t.status = y.status /\ t.kind = y.kind
          /\ t.gen = y.gen /\ t.receipts = y.receipts
      BY <3>2, <3>6 DEF JobOK, JobRecords
    <3>9. JobOK(t) /\ (t.next = NoTime \/ t.next > now)
      BY <3>2, <3>3, <3>6, <3>8, NextType, NextLater, SetNext DEF Draft
    <3>10. Derived(r, t)
      BY <1>1, <3>6, <3>8, DerivedSame
    <3>11. Orderly(t)
      BY <3>7, <3>8 DEF Orderly
    <3>12. Seen(t, t.made).slot = s.next
      <4>1. t.made = s.made + 1 /\ t.made \in Names(w.rec)
        <5>1. r.made \in Nat
          BY <1>1 DEF JobOK, JobRecords
        <5> QED
          BY <1>6, <3>4, <3>6, <3>8, <5>1 DEF Shed, Derived
      <4> QED
        BY <3>4, <3>6, <3>8, <4>1 DEF Shed, Seen
    <3>13. t.status = r.status /\ t.receipts = r.receipts /\ s.next = r.next
      BY <1>6, <3>4, <3>6, <3>8 DEF Shed, SameJob
    <3> QED
      BY <1>1, <2>2, <3>9, <3>10, <3>11, <3>12, <3>13 DEF Evolves, NextMoves, Elapses, Consumes
  <2>3. CASE t \in BackOff(s, now)
    <3>1. PICK y : /\ y = s \/ \E x \in reserveRun(s) : y = Evict(x, Terminal(x))
                   /\ t = [y EXCEPT !.retryAfter = now + RetryDelay]
      BY <2>3 DEF BackOff, When
    <3>2. JobOK(y) /\ Derived(r, y) /\ Orderly(y) /\ SameJob(s, y) /\ y.made = s.made
      <4>1. CASE y = s
        BY <1>4, <1>6, <4>1 DEF SameJob
      <4>2. ASSUME NEW x \in reserveRun(s), y = Evict(x, Terminal(x))
            PROVE  /\ JobOK(y) /\ Derived(r, y) /\ Orderly(y) /\ SameJob(s, y)
                   /\ y.made = s.made
        <5>1. Derived(r, x) /\ Shed(s, x) /\ JobOK(x)
          BY <1>1, <1>4, <1>6, DerivedRoom, RoomType DEF Draft
        <5>2. Derived(r, y) /\ Shed(x, y) /\ JobOK(y)
          BY <1>1, <4>2, <5>1, DerivedAllGone, RoomType DEF Draft
        <5>3. Orderly(y)
          BY <1>6, <5>1, <5>2, OrderlyShed
        <5> QED
          BY <5>1, <5>2, <5>3 DEF Shed, SameJob
      <4> QED
        BY <3>1, <4>1, <4>2
    <3>3. /\ t.runs = y.runs /\ t.evicted = y.evicted /\ t.made = y.made /\ SameJob(y, t)
      BY <3>1, <3>2 DEF JobOK, JobRecords, SameJob
    <3>4. JobOK(t)
      BY <3>1, <3>2, SetRetryAfter, LimitAssumption DEF Draft
    <3>5. Derived(r, t) /\ Orderly(t)
      BY <1>1, <3>2, <3>3, DerivedSame DEF Orderly, SameJob
    <3> QED
      BY <1>6, <3>2, <3>3, <3>4, <3>5 DEF Evolves, NextMoves, Elapses, SameJob
  <2> QED
    BY <1>5, <2>1, <2>2, <2>3
<1>8. /\ u.runs = t.runs /\ u.evicted = t.evicted /\ u.made = t.made /\ SameJob(t, u)
  BY <1>5, <1>7 DEF JobOK, JobRecords, SameJob
<1>9. Derived(r, u) /\ Orderly(u)
  BY <1>1, <1>7, <1>8, DerivedSame DEF Evolves, Orderly, SameJob
<1>10. Seen(u, u.made) = Seen(t, t.made)
  BY <1>8 DEF Seen
<1> QED
  BY <1>7, <1>8, <1>9, <1>10 DEF Evolves, NextMoves, Elapses, Consumes, SameJob

-----------------------------------------------------------------------------
(***************************************************************************)
(* The steps that write, seen from the record: it is created, a command    *)
(* or the system's own work takes it to its next version, it is suspended, *)
(* or a purge removes it.                                                  *)
(***************************************************************************)
RecordBase == rec # NoRecord => Base(rec)

Creates(p) ==
  /\ Authorized /\ rec = NoRecord
  /\ rec' = Created(birth.kind, birth.sched, proc[p].now)
  /\ UNCHANGED <<ledger, environment, history>>

Commits(p) ==
  LET q == proc[p].req IN
  /\ proc[p].pc = "commit" /\ Authorized /\ rec # NoRecord /\ proc[p].snap = rec
  /\ q \in Requests /\ calls[q] \in Call
  /\ \E m \in Mutated(calls[q], rec, proc[p].now) : Write(m.rec) /\ Answer(q, {m.run})
  /\ applied' = [applied EXCEPT ![q] = @ + 1]
  /\ UNCHANGED environment

Works(p) ==
  /\ Authorized /\ rec # NoRecord
  /\ \E s : /\ Write(s) /\ Successor(rec, s) /\ Evolves(rec, s, proc[p].now)
            /\ Elapses(rec, s, proc[p].now)
            /\ s.status = rec.status /\ s.receipts = rec.receipts
  /\ UNCHANGED <<environment, history>>

Suspends ==
  /\ ~ Authorized /\ rec # NoRecord
  /\ rec' = Stored(Suspended(rec))
  /\ UNCHANGED <<ledger, environment, history>>

Writes(p) == Creates(p) \/ Commits(p) \/ Works(p)

LEMMA CommandCommits ==
  ASSUME Current, NEW p \in Procs, CommandCommit(p)
  PROVE  (NoWrite /\ UNCHANGED history) \/ Commits(p)
<1>1. CASE /\ Authorized /\ Unchanged(proc[p].snap)
           /\ \E e \in Mutated(calls[proc[p].req], proc[p].snap, proc[p].now) :
                Write(e.rec) /\ Answer(proc[p].req, {e.run})
           /\ applied' = [applied EXCEPT ![proc[p].req] = @ + 1]
  <2>1. proc[p].pc = "commit" /\ UNCHANGED environment
    BY DEF CommandCommit
  <2>2. rec # NoRecord /\ proc[p].snap = rec
    BY <1>1, <2>1, HeldIsCurrent DEF Holds
  <2>3. proc[p].req \in Requests /\ calls[proc[p].req] \in Call
    BY <2>1 DEF Current, TypeOK, ProcsOK
  <2> QED
    BY <1>1, <2>1, <2>2, <2>3 DEF Commits
<1> QED
  BY <1>1 DEF CommandCommit

LEMMA WritingSteps ==
  ASSUME Current, WorkHeld, RecordBase, [Next]_vars
  PROVE  \/ UNCHANGED <<rec, ledger>>
         \/ \E p \in Procs : Writes(p)
         \/ Suspends \/ PurgeDelete
<1>1. ASSUME NEW p \in Procs, CreateCommit(p)
      PROVE  UNCHANGED <<rec, ledger>> \/ Creates(p)
  BY <1>1 DEF CreateCommit, NoWrite, Creates
<1>2. ASSUME NEW p \in Procs, CommandCommit(p)
      PROVE  UNCHANGED <<rec, ledger>> \/ Commits(p)
  BY <1>2, CommandCommits DEF NoWrite
<1>3. ASSUME NEW p \in Procs, ViewCommit(p)
      PROVE  UNCHANGED <<rec, ledger>> \/ Works(p)
  <2>1. CASE NoWrite
    BY <2>1 DEF NoWrite
  <2>2. CASE Authorized /\ Unchanged(proc[p].snap) /\ Write(Refreshed(proc[p].snap, proc[p].now))
    <3>1. rec # NoRecord /\ proc[p].snap = rec /\ JobOK(rec) /\ Base(rec)
      BY <1>3, <2>2, HeldIsCurrent DEF ViewCommit, Holds, RecordBase
    <3>2. proc[p].now \in Nat
      BY InstanceAssumption DEF Current, TypeOK, ProcsOK
    <3> DEFINE s == Refreshed(rec, proc[p].now)
    <3>3. /\ Successor(rec, s) /\ Evolves(rec, s, proc[p].now)
          /\ Elapses(rec, s, proc[p].now)
          /\ s.status = rec.status /\ s.receipts = rec.receipts
      BY <3>1, <3>2, RefreshedType, RefreshedEvolves
    <3>4. Write(s)
      BY <2>2, <3>1
    <3> HIDE DEF s
    <3> QED
      BY <1>3, <2>2, <3>1, <3>3, <3>4 DEF Works, ViewCommit
  <2> QED
    BY <1>3, <2>1, <2>2 DEF ViewCommit
<1>4. ASSUME NEW p \in Procs, TickCommit(p)
      PROVE  UNCHANGED <<rec, ledger>> \/ Works(p)
  <2>1. CASE NoWrite
    BY <2>1 DEF NoWrite
  <2>2. ASSUME Authorized, Unchanged(proc[p].snap),
               NEW s \in Ticked(proc[p].snap, proc[p].now), Write(s)
        PROVE  Works(p)
    <3>1. /\ rec # NoRecord /\ proc[p].snap = rec /\ JobOK(rec) /\ Base(rec)
          /\ isDue(rec, proc[p].now)
      BY <1>4, <2>2, HeldIsCurrent DEF TickCommit, Holds, RecordBase, WorkHeld, WorkFound
    <3>2. proc[p].now \in Nat
      BY InstanceAssumption DEF Current, TypeOK, ProcsOK
    <3>3. /\ Successor(rec, s) /\ Evolves(rec, s, proc[p].now)
          /\ Elapses(rec, s, proc[p].now)
          /\ s.status = rec.status /\ s.receipts = rec.receipts
      BY <2>2, <3>1, <3>2, TickedType, TickedEvolves
    <3> QED
      BY <1>4, <2>2, <3>1, <3>3 DEF Works, TickCommit
  <2> QED
    BY <1>4, <2>1, <2>2 DEF TickCommit
<1>5. ASSUME NEW p \in Procs, SuspendCommit(p)
      PROVE  UNCHANGED <<rec, ledger>> \/ Suspends
  <2>1. CASE NoWrite
    BY <2>1 DEF NoWrite
  <2>2. CASE ~ Authorized /\ Unchanged(proc[p].snap) /\ rec' = Stored(Suspended(proc[p].snap))
             /\ UNCHANGED ledger
    <3>1. rec # NoRecord /\ proc[p].snap = rec
      BY <1>5, <2>2, HeldIsCurrent DEF SuspendCommit, Holds
    <3> QED
      BY <1>5, <2>2, <3>1 DEF Suspends, SuspendCommit
  <2> QED
    BY <1>5, <2>1, <2>2 DEF SuspendCommit
<1> QED
  BY <1>1, <1>2, <1>3, <1>4, <1>5
  DEF Next, vars, Handler, Worker, Crash, Issue, SetAccount, PurgeList, AdvanceClock,
      NoWrite, CreateRead, CommandRead, CommandRecheck, ViewRead, TickStart, TickRead,
      SuspendRead, Writes

\* Whoever writes computes the next version from the current record.
Advances(s, now) ==
  /\ rec # NoRecord /\ Base(rec) /\ JobOK(s) /\ Evolves(rec, s, now)
  /\ rec' = Stored(s) /\ rec' # NoRecord /\ rec'.version = rec.version + 1

LEMMA CommitsAdvance ==
  ASSUME Current, RecordBase, NEW p \in Procs, Commits(p)
  PROVE  LET q == proc[p].req IN
         \E m \in Mutated(calls[q], rec, proc[p].now) :
           /\ Advances(m.rec, proc[p].now) /\ Write(m.rec) /\ Answer(q, {m.run})
           /\ StaysCancelled(rec, m.rec)
           /\ calls[q].op = "cancel" => m.rec.status = "cancelled" /\ m.rec.made = rec.made
           /\ m.rec.receipts = Trim(Append(rec.receipts, [call |-> calls[q], run |-> m.run]))
<1> DEFINE q == proc[p].req
<1>1. PICK m \in Mutated(calls[q], rec, proc[p].now) : Write(m.rec) /\ Answer(q, {m.run})
  BY DEF Commits
<1>2. rec # NoRecord /\ Base(rec) /\ calls[q] \in Call /\ proc[p].now \in Nat /\ JobOK(rec)
  BY InstanceAssumption DEF Commits, RecordBase, Current, TypeOK, ProcsOK, Base
<1>3. Successor(rec, m.rec)
  BY <1>2, MutatedType
<1>4. /\ Evolves(rec, m.rec, proc[p].now) /\ StaysCancelled(rec, m.rec)
      /\ calls[q].op = "cancel" => m.rec.status = "cancelled" /\ m.rec.made = rec.made
      /\ m.rec.receipts = Trim(Append(rec.receipts, [call |-> calls[q], run |-> m.run]))
  BY <1>2, MutatedEvolves
<1>5. Advances(m.rec, proc[p].now)
  BY <1>1, <1>2, <1>3, <1>4, StoredType DEF Advances, Successor, Write
<1> QED
  BY <1>1, <1>4, <1>5

LEMMA WorksAdvance ==
  ASSUME RecordBase, NEW p \in Procs, Works(p)
  PROVE  \E s : /\ Advances(s, proc[p].now) /\ Write(s)
                /\ Elapses(rec, s, proc[p].now)
                /\ s.status = rec.status /\ s.receipts = rec.receipts
<1>1. PICK s : /\ Write(s) /\ Successor(rec, s) /\ Evolves(rec, s, proc[p].now)
               /\ Elapses(rec, s, proc[p].now)
               /\ s.status = rec.status /\ s.receipts = rec.receipts
  BY DEF Works
<1>2. Advances(s, proc[p].now)
  BY <1>1, StoredType DEF Advances, Successor, Write, Works, RecordBase
<1> QED
  BY <1>1, <1>2

LEMMA SuspendsAdvance ==
  ASSUME RecordBase, Suspends, NEW now \in Nat
  PROVE  Advances(Suspended(rec), now)
<1>1. rec # NoRecord /\ Base(rec) /\ JobOK(rec)
  BY DEF Suspends, RecordBase, Base
<1> QED
  BY <1>1, SuspendedType, SuspendedEvolves, StoredType
  DEF Advances, Suspends, Successor

\* What is stored of a draft.
LEMMA StoredFields ==
  ASSUME NEW s, JobOK(s)
  PROVE  LET t == Stored(s) IN
         /\ t.runs = s.runs /\ t.made = s.made /\ SameJob(s, t) /\ DOMAIN t.evicted = {}
BY DEF Stored, NoRuns, JobOK, JobRecords, SameJob

LEMMA StoredBase ==
  ASSUME NEW b, NEW s, JobOK(s), Derived(b, s), Orderly(s)
  PROVE  Base(Stored(s))
<1> DEFINE t == Stored(s)
<1>1. t.runs = s.runs /\ SameJob(s, t) /\ DOMAIN t.evicted = {} /\ JobOK(t)
  BY StoredFields, StoredType
<1> HIDE DEF t
<1>2. Names(t) = DOMAIN s.runs /\ \A i \in DOMAIN s.runs : Seen(t, i) = Seen(s, i)
  BY <1>1 DEF Names, Seen
<1>3. Linked(t)
  BY <1>1, <1>2 DEF Linked, Derived, Names
<1>4. Orderly(t)
  BY <1>1 DEF Orderly, SameJob
<1> QED
  BY <1>1, <1>3, <1>4 DEF Base, t

LEMMA RecordBaseInit == Init => RecordBase
BY DEF Init, RecordBase

LEMMA RecordBaseStep ==
  Current /\ WorkHeld /\ RecordBase /\ [Next]_vars => RecordBase'
<1> SUFFICES ASSUME Current, WorkHeld, RecordBase, [Next]_vars PROVE RecordBase'
  OBVIOUS
<1>1. ASSUME NEW s, NEW now, Advances(s, now) PROVE RecordBase'
  <2>1. Base(Stored(s))
    BY <1>1, StoredBase DEF Advances, Evolves
  <2>2. rec' = Stored(s)
    BY <1>1 DEF Advances
  <2>3. Base(rec')
    BY <2>1, <2>2
  <2> QED
    BY <2>3 DEF RecordBase, Base
<1>2. CASE UNCHANGED <<rec, ledger>>
  BY <1>2 DEF RecordBase
<1>3. ASSUME NEW p \in Procs, Creates(p) PROVE RecordBase'
  <2> DEFINE s == Created(birth.kind, birth.sched, proc[p].now)
  <2>1. proc[p].now \in Nat /\ birth \in [kind : Kinds, sched : Schedules]
    BY InstanceAssumption DEF Current, TypeOK, ProcsOK, EnvironmentOK
  <2>2. JobOK(s)
    BY <2>1, CreatedType
  <2>3. DOMAIN s.runs = {} /\ DOMAIN s.evicted = {}
    BY DEF Created, NoRuns
  <2> HIDE DEF s
  <2>4. Base(s)
    BY <2>2, <2>3 DEF Base, Linked, Orderly, Names
  <2>5. rec' = s
    BY <1>3 DEF Creates, s
  <2> QED
    BY <2>4, <2>5 DEF RecordBase
<1>4. ASSUME NEW p \in Procs, Commits(p) \/ Works(p) PROVE RecordBase'
  BY <1>1, <1>4, CommitsAdvance, WorksAdvance
<1>5. CASE Suspends
  BY <1>1, <1>5, SuspendsAdvance, 0 \in Nat
<1>6. CASE PurgeDelete
  BY <1>6 DEF PurgeDelete, RecordBase
<1> QED
  BY <1>2, <1>3, <1>4, <1>5, <1>6, WritingSteps DEF Writes

\* The record is in order in every reachable state.
RecordInv == Current /\ WorkHeld /\ RecordBase

LEMMA RecordInvariant == Spec => []RecordInv
<1>1. Init => RecordInv
  BY CurrentInit, WorkInit, RecordBaseInit DEF RecordInv
<1>2. RecordInv /\ [Next]_vars => RecordInv'
  BY CurrentStep, WorkStep, RecordBaseStep DEF RecordInv, Current
<1> QED
  BY <1>1, <1>2, PTL DEF Spec

\* Whatever commands, workers, readers and account events interleave, no
\* pending run of a former generation, or of a job that is not active, is
\* ever stored.
THEOREM PendingStaysCurrent == Spec => []PendingIsCurrent
<1>1. RecordInv => PendingIsCurrent
  BY DEF RecordInv, RecordBase, Base, Orderly, PendingIsCurrent
<1> QED
  BY <1>1, RecordInvariant, PTL

\* A finished run is never executed, retried in place, expired or cancelled
\* again: its outcome stays for as long as the record retains it.
THEOREM OutcomesStay == Spec => OutcomeFinal
<1> DEFINE A == rec # NoRecord /\ rec' # NoRecord =>
                  \A i \in DOMAIN rec.runs \cap DOMAIN rec'.runs :
                    ~ pendingRun(rec.runs[i]) => rec'.runs[i] = rec.runs[i]
<1>1. RecordInv /\ [Next]_vars => [A]_rec
  <2> SUFFICES ASSUME RecordInv, [Next]_vars, rec # NoRecord, rec' # NoRecord,
                      NEW i \in DOMAIN rec.runs \cap DOMAIN rec'.runs,
                      ~ pendingRun(rec.runs[i])
               PROVE  rec'.runs[i] = rec.runs[i]
    OBVIOUS
  <2>1. ASSUME NEW s, NEW now, Advances(s, now) PROVE rec'.runs[i] = rec.runs[i]
    <3>1. Derived(rec, s) /\ rec'.runs = s.runs
      BY <2>1, StoredFields DEF Advances, Evolves
    <3> QED
      BY <3>1 DEF Derived, Revised, Seen
  <2>2. CASE UNCHANGED rec
    BY <2>2
  <2>3. ASSUME NEW p \in Procs, Commits(p) \/ Works(p) PROVE rec'.runs[i] = rec.runs[i]
    BY <2>1, <2>3, CommitsAdvance, WorksAdvance DEF RecordInv
  <2>4. CASE Suspends
    BY <2>1, <2>4, SuspendsAdvance, 0 \in Nat DEF RecordInv
  <2>5. CASE PurgeDelete
    BY <2>2, <2>5 DEF PurgeDelete
  <2> QED
    BY <2>2, <2>3, <2>4, <2>5, WritingSteps DEF RecordInv, Writes, Creates
<1> QED
  BY <1>1, RecordInvariant, PTL DEF Spec, OutcomeFinal

\* The account fences every write: while it is active no job is suspended,
\* and while it is not, a job can only be suspended or removed.
THEOREM AccountFenced == Spec => AccountFence
<1> DEFINE A == rec # NoRecord /\ rec' # NoRecord =>
                  IF account = "active"
                  THEN rec.status = "active" /\ rec'.status = "paused" => applied' # applied
                  ELSE rec'.status = "paused" /\ rec'.made = rec.made /\ rec'.next = NoTime
<1>1. RecordInv /\ [Next]_vars => [A]_rec
  <2> SUFFICES ASSUME RecordInv, [Next]_vars, rec' # rec, rec # NoRecord, rec' # NoRecord
               PROVE  IF account = "active"
                      THEN rec.status = "active" /\ rec'.status = "paused" => applied' # applied
                      ELSE rec'.status = "paused" /\ rec'.made = rec.made /\ rec'.next = NoTime
    OBVIOUS
  <2>1. ASSUME NEW p \in Procs, Commits(p) PROVE account = "active" /\ applied' # applied
    <3> DEFINE q == proc[p].req
    <3>1. applied \in [Requests -> Nat] /\ q \in Requests
      BY <2>1 DEF RecordInv, Current, TypeOK, HistoryOK, Commits
    <3>2. applied'[q] = applied[q] + 1 /\ applied[q] \in Nat
      BY <2>1, <3>1 DEF Commits
    <3>3. applied' # applied
      BY <3>2
    <3> QED
      BY <2>1, <3>3 DEF Commits, Authorized
  <2>2. ASSUME NEW p \in Procs, Works(p) PROVE account = "active" /\ rec'.status = rec.status
    <3>1. PICK s : Advances(s, proc[p].now) /\ s.status = rec.status
      BY <2>2, WorksAdvance DEF RecordInv
    <3>2. rec'.status = s.status
      BY <3>1, StoredFields DEF Advances, SameJob
    <3> QED
      BY <2>2, <3>1, <3>2 DEF Works, Authorized
  <2>3. ASSUME Suspends
        PROVE  /\ account # "active" /\ rec'.status = "paused" /\ rec'.made = rec.made
               /\ rec'.next = NoTime
    <3> DEFINE s == Suspended(rec)
    <3>1. Base(rec) /\ JobOK(s)
      BY <2>3, SuspendedType DEF Suspends, RecordInv, RecordBase, Base, Successor
    <3>2. s.made = rec.made /\ s.status = "paused" /\ s.next = NoTime
      BY <3>1, SuspendedEvolves, 0 \in Nat DEF Touched
    <3>3. rec'.made = s.made /\ rec'.status = s.status /\ rec'.next = s.next
      BY <2>3, <3>1, StoredFields DEF SameJob, Suspends
    <3> QED
      BY <2>3, <3>2, <3>3 DEF Suspends, Authorized
  <2>4. CASE PurgeDelete
    BY <2>4 DEF PurgeDelete
  <2> QED
    BY <2>1, <2>2, <2>3, <2>4, WritingSteps DEF RecordInv, Writes, Creates
<1> QED
  BY <1>1, RecordInvariant, PTL DEF Spec, AccountFence

-----------------------------------------------------------------------------
(***************************************************************************)
(* The history.  It names every run the job has made, with the content it  *)
(* was made with, so what has left the record can be reasoned about.       *)
(***************************************************************************)
LedgerFollows ==
  /\ rec # NoRecord => /\ DOMAIN ledger = 1..rec.made
                       /\ \A i \in DOMAIN rec.runs : SameWork(ledger[i], rec.runs[i])
  /\ rec = NoRecord /\ account # "deleting" => DOMAIN ledger = {}

\* The history after a write, related to the one before it.
Extends ==
  /\ rec' # NoRecord /\ rec.made <= rec'.made
  /\ DOMAIN ledger' = 1..rec'.made
  /\ \A i \in 1..rec.made : SameWork(ledger[i], ledger'[i])
  /\ \A i \in DOMAIN rec'.runs : SameWork(ledger'[i], rec'.runs[i])

LEMMA SameWorkOrder ==
  ASSUME NEW u, NEW v, NEW w
  PROVE  /\ SameWork(u, u)
         /\ SameWork(u, v) => SameWork(v, u)
         /\ SameWork(u, v) /\ SameWork(v, w) => SameWork(u, w)
BY DEF SameWork

LEMMA WriteExtends ==
  ASSUME TypeOK, LedgerFollows, NEW s, NEW now, Advances(s, now), Write(s)
  PROVE  /\ Extends /\ rec'.made = s.made
         /\ s.made # rec.made => s.made = rec.made + 1 /\ ledger'[s.made] = Seen(s, s.made)
<1>1. /\ rec # NoRecord /\ JobOK(rec) /\ JobOK(s) /\ Derived(rec, s) /\ rec' # NoRecord
      /\ rec'.made = s.made /\ rec'.runs = s.runs /\ DOMAIN rec.evicted = {}
  BY StoredFields DEF Advances, Base, Evolves
<1>2. /\ rec.made \in Nat /\ DOMAIN rec.runs \subseteq 1..rec.made
      /\ s.made \in {rec.made, rec.made + 1}
      /\ Names(s) = DOMAIN rec.runs \cup ((rec.made + 1)..s.made)
  BY <1>1 DEF JobOK, JobRecords, RunTable, Derived
<1>3. DOMAIN ledger = 1..rec.made /\ \A i \in DOMAIN rec.runs : SameWork(ledger[i], rec.runs[i])
  BY <1>1 DEF LedgerFollows
<1> DEFINE changed == {i \in Names(s) : i \in DOMAIN rec.runs => rec.runs[i] # Seen(s, i)}
<1>4. ledger' = [i \in DOMAIN ledger \cup changed |-> IF i \in changed THEN Seen(s, i) ELSE ledger[i]]
  <2>1. Observed(s) = [i \in Names(s) |-> Seen(s, i)]
    BY DEF Observed, Names, Seen
  <2>2. ledger' = Archive(rec, s)
    BY DEF Write
  <2> QED
    BY <2>1, <2>2 DEF Archive
<1>5. \A i \in Names(s) \ DOMAIN rec.runs : i \in changed
  OBVIOUS
<1>6. changed \subseteq 1..s.made /\ ((rec.made + 1)..s.made) \subseteq changed
  BY <1>2
<1>7. DOMAIN ledger' = 1..s.made
  <2>1. (1..rec.made) \cup ((rec.made + 1)..s.made) = 1..s.made
    BY <1>2
  <2> HIDE DEF changed
  <2> QED
    BY <1>3, <1>4, <1>6, <2>1
<1>8. \A i \in DOMAIN rec.runs : SameWork(rec.runs[i], Seen(s, i))
  BY <1>1 DEF Derived, Revised
<1>9. ASSUME NEW i \in 1..rec.made PROVE SameWork(ledger[i], ledger'[i])
  <2>1. CASE i \in changed
    <3>1. i \in DOMAIN rec.runs
      BY <1>2, <2>1
    <3> QED
      BY <1>3, <1>4, <1>8, <2>1, <3>1, SameWorkOrder
  <2>2. CASE i \notin changed
    BY <1>3, <1>4, <2>2, SameWorkOrder
  <2> QED
    BY <2>1, <2>2
<1>10. ASSUME NEW i \in DOMAIN s.runs PROVE SameWork(ledger'[i], s.runs[i])
  <2>1. i \in Names(s) /\ Seen(s, i) = s.runs[i]
    BY DEF Names, Seen
  <2>2. CASE i \in DOMAIN rec.runs
    <3>1. SameWork(ledger[i], ledger'[i]) /\ SameWork(ledger[i], s.runs[i])
      BY <1>2, <1>3, <1>8, <1>9, <2>1, <2>2, SameWorkOrder
    <3> QED
      BY <3>1, SameWorkOrder
  <2>3. CASE i \notin DOMAIN rec.runs
    BY <1>4, <2>1, <2>3, SameWorkOrder
  <2> QED
    BY <2>2, <2>3
<1>11. ASSUME s.made # rec.made
       PROVE  s.made = rec.made + 1 /\ ledger'[s.made] = Seen(s, s.made)
  BY <1>2, <1>4, <1>6, <1>11
<1> QED
  BY <1>1, <1>2, <1>7, <1>9, <1>10, <1>11 DEF Extends

LEMMA SuspendExtends ==
  ASSUME RecordBase, LedgerFollows, Suspends
  PROVE  /\ Extends /\ rec'.made = rec.made /\ Advances(Suspended(rec), 0)
         /\ Touched(rec, Suspended(rec))
<1> DEFINE s == Suspended(rec)
<1>1. Advances(s, 0)
  BY SuspendsAdvance
<1>2. Touched(rec, s)
  BY <1>1, SuspendedEvolves, 0 \in Nat DEF Advances
<1>3. rec'.runs = s.runs /\ rec'.made = s.made /\ rec # NoRecord /\ rec' # NoRecord
  BY <1>1, StoredFields DEF Advances
<1>4. ledger' = ledger
  BY DEF Suspends
<1> HIDE DEF s
<1>5. rec.made \in Nat
  BY <1>1 DEF Advances, Base, JobOK, JobRecords
<1>6. DOMAIN ledger = 1..rec.made /\ \A i \in DOMAIN rec.runs : SameWork(ledger[i], rec.runs[i])
  BY <1>3 DEF LedgerFollows
<1>7. \A i \in DOMAIN rec'.runs : SameWork(ledger'[i], rec'.runs[i])
  <2> SUFFICES ASSUME NEW i \in DOMAIN rec.runs PROVE SameWork(ledger[i], s.runs[i])
    BY <1>2, <1>3, <1>4 DEF Touched
  <2>1. SameWork(rec.runs[i], s.runs[i])
    BY <1>2 DEF Touched, Revised
  <2> QED
    BY <1>6, <2>1, SameWorkOrder
<1>8. Extends /\ rec'.made = rec.made
  BY <1>2, <1>3, <1>4, <1>5, <1>6, <1>7, SameWorkOrder DEF Extends, Touched
<1> QED
  BY <1>1, <1>2, <1>8 DEF s

\* A purge leaves nothing behind.
LEMMA PurgeEmpties ==
  ASSUME Current, Purged, PurgeDelete
  PROVE  rec' = NoRecord /\ DOMAIN ledger' = {} /\ account' = "deleting"
BY DEF PurgeDelete, Purged, Current, PurgeIsFinal

\* How a step moves the history.
LEMMA HistorySteps ==
  ASSUME RecordInv, Purged, LedgerFollows, [Next]_vars
  PROVE  \/ UNCHANGED <<rec, ledger>>
         \/ /\ rec = NoRecord /\ rec' # NoRecord /\ DOMAIN ledger' = {}
            /\ DOMAIN rec'.runs = {} /\ rec'.made = 0
         \/ \E s : \E p \in Procs :
              /\ Commits(p) \/ (Works(p) /\ Elapses(rec, s, proc[p].now))
              /\ Advances(s, proc[p].now) /\ Write(s)
         \/ Suspends
         \/ rec' = NoRecord /\ DOMAIN ledger' = {} /\ account' = "deleting"
<1>1. ASSUME NEW p \in Procs, Creates(p)
      PROVE  /\ rec = NoRecord /\ rec' # NoRecord /\ DOMAIN ledger' = {}
             /\ DOMAIN rec'.runs = {} /\ rec'.made = 0
  <2>1. JobOK(Created(birth.kind, birth.sched, proc[p].now))
    BY CreatedType, InstanceAssumption DEF RecordInv, Current, TypeOK, ProcsOK, EnvironmentOK
  <2>2. JobOK(rec') /\ rec'.made = 0 /\ DOMAIN rec'.runs = {}
    BY <1>1, <2>1 DEF Creates, Created, NoRuns
  <2>3. rec' # NoRecord
    <3>1. JobOK(Created(birth.kind, birth.sched, proc[p].now)) /\ rec' = Created(birth.kind, birth.sched, proc[p].now)
      BY <1>1, <2>1 DEF Creates
    <3> QED
      BY <3>1, StoredType
  <2> QED
    BY <1>1, <2>2, <2>3 DEF Creates, LedgerFollows, Authorized
<1>2. ASSUME NEW p \in Procs, Commits(p)
      PROVE  \E s : Advances(s, proc[p].now) /\ Write(s)
  BY <1>2, CommitsAdvance DEF RecordInv
<1>3. ASSUME NEW p \in Procs, Works(p)
      PROVE  \E s : Advances(s, proc[p].now) /\ Write(s) /\ Elapses(rec, s, proc[p].now)
  BY <1>3, WorksAdvance DEF RecordInv
<1> QED
  BY <1>1, <1>2, <1>3, PurgeEmpties, WritingSteps DEF RecordInv, Writes

LEMMA LedgerFollowsInit == Init => LedgerFollows
BY DEF Init, LedgerFollows, NoRuns

LEMMA LedgerFollowsStep ==
  RecordInv /\ Purged /\ LedgerFollows /\ [Next]_vars => LedgerFollows'
<1> SUFFICES ASSUME RecordInv, Purged, LedgerFollows, [Next]_vars PROVE LedgerFollows'
  OBVIOUS
<1>1. CASE UNCHANGED <<rec, ledger>>
  BY <1>1, DeletingStays DEF LedgerFollows
<1>2. CASE /\ rec' # NoRecord /\ DOMAIN ledger' = {}
           /\ DOMAIN rec'.runs = {} /\ rec'.made = 0
  BY <1>2 DEF LedgerFollows
<1>3. CASE Extends
  BY <1>3 DEF Extends, LedgerFollows
<1>4. CASE rec' = NoRecord /\ account' = "deleting"
  BY <1>4 DEF LedgerFollows
<1> QED
  BY <1>1, <1>2, <1>3, <1>4, HistorySteps, WriteExtends, SuspendExtends
  DEF RecordInv, Current

-----------------------------------------------------------------------------
(***************************************************************************)
(* Retries.                                                                *)
(***************************************************************************)
\* A retry is younger than the run it retries, and as long as that run is
\* retained, and might be retried again, its retry is retained as well.
RetriesLinked ==
  \A j \in DOMAIN ledger : LET i == ledger[j].retryOf IN
    i # NoRun => /\ i \in 1..(j - 1)
                 /\ rec # NoRecord /\ i \in DOMAIN rec.runs =>
                      j \in DOMAIN rec.runs /\ ~ pendingRun(rec.runs[i])

Retries == RetriesLinked /\ RetryOnce

LEMMA RetriesInit == Init => Retries
BY DEF Init, Retries, RetriesLinked, RetryOnce, NoRuns

LEMMA RetriesAdvance ==
  ASSUME LedgerFollows, Retries, NEW s, NEW now, Advances(s, now), Extends, rec'.made = s.made,
         s.made # rec.made => s.made = rec.made + 1 /\ ledger'[s.made] = Seen(s, s.made)
  PROVE  Retries'
<1> DEFINE n == rec.made + 1
           Old == 1..rec.made
<1>1. /\ rec # NoRecord /\ rec' # NoRecord /\ Derived(rec, s) /\ JobOK(rec)
      /\ rec'.runs = s.runs /\ rec.made \in Nat /\ DOMAIN rec.runs \subseteq Old
  BY StoredFields DEF Advances, Evolves, Base, JobOK, JobRecords, RunTable
<1>2. /\ DOMAIN ledger = Old /\ DOMAIN ledger' = 1..s.made /\ s.made \in {rec.made, n}
      /\ Names(s) = DOMAIN rec.runs \cup (n..s.made)
  BY <1>1 DEF LedgerFollows, Extends, Derived
<1>3. 1..s.made = Old \cup (n..s.made) /\ \A j \in n..s.made : j = n /\ s.made = n
  BY <1>1, <1>2
<1>4. \A j \in Old : SameWork(ledger[j], ledger'[j])
  BY DEF Extends
<1>5. \A j \in DOMAIN rec.runs : SameWork(ledger[j], rec.runs[j])
  BY <1>1 DEF LedgerFollows
\* The runs there were already.
<1>6. ASSUME NEW j \in Old, ledger[j].retryOf # NoRun
      PROVE  LET i == ledger[j].retryOf IN
             /\ i \in Old /\ i \in 1..(j - 1)
             /\ \A k \in Old \ {j} : ledger[k].retryOf # i
             /\ ledger[j].attempt = ledger[i].attempt + 1 /\ ledger[j].attempt <= MaxAttempts
             /\ ledger[j].gen = ledger[i].gen /\ ledger[j].kind = ledger[i].kind
             /\ i \in DOMAIN rec.runs => j \in DOMAIN rec.runs
  BY <1>1, <1>2, <1>6 DEF Retries, RetriesLinked, RetryOnce
\* The run that is new, if there is one.
<1>7. ASSUME s.made = n, ledger'[n].retryOf # NoRun
      PROVE  LET i == ledger'[n].retryOf IN
             /\ i \in DOMAIN rec.runs
             /\ \A k \in Old : ledger[k].retryOf # i
             /\ ledger'[n].attempt = ledger[i].attempt + 1 /\ ledger'[n].attempt <= MaxAttempts
             /\ ledger'[n].gen = ledger[i].gen /\ ledger'[n].kind = ledger[i].kind
  <2> DEFINE i == ledger'[n].retryOf
  <2>1. FirstRetry(rec, ledger'[n])
    BY <1>1, <1>7 DEF Derived
  <2>2. /\ i \in DOMAIN rec.runs
        /\ \A j \in DOMAIN rec.runs : rec.runs[j].retryOf # i
        /\ ledger'[n].attempt = rec.runs[i].attempt + 1 /\ ledger'[n].attempt <= MaxAttempts
        /\ ledger'[n].gen = rec.runs[i].gen /\ ledger'[n].kind = rec.runs[i].kind
    BY <1>7, <2>1 DEF FirstRetry
  <2>3. ASSUME NEW k \in Old, ledger[k].retryOf = i PROVE FALSE
    <3>1. k \in DOMAIN rec.runs
      BY <1>6, <1>7, <2>2, <2>3
    <3> QED
      BY <1>5, <2>2, <2>3, <3>1 DEF SameWork
  <2> QED
    BY <1>5, <2>2, <2>3 DEF SameWork
<1>8. ASSUME NEW j \in 1..s.made, ledger'[j].retryOf # NoRun
      PROVE  LET i == ledger'[j].retryOf IN
             /\ i \in 1..(j - 1)
             /\ \A k \in (1..s.made) \ {j} : ledger'[k].retryOf # i
             /\ ledger'[j].attempt = ledger'[i].attempt + 1
             /\ ledger'[j].attempt <= MaxAttempts
             /\ ledger'[j].gen = ledger'[i].gen /\ ledger'[j].kind = ledger'[i].kind
             /\ i \in DOMAIN s.runs => j \in DOMAIN s.runs /\ ~ pendingRun(s.runs[i])
  <2> DEFINE i == ledger'[j].retryOf
  <2>1. CASE j \in Old
    <3>1. ledger[j].retryOf = i
      BY <1>4, <2>1 DEF SameWork
    <3>2. /\ i \in Old /\ i \in 1..(j - 1)
          /\ \A k \in Old \ {j} : ledger[k].retryOf # i
          /\ ledger[j].attempt = ledger[i].attempt + 1 /\ ledger[j].attempt <= MaxAttempts
          /\ ledger[j].gen = ledger[i].gen /\ ledger[j].kind = ledger[i].kind
          /\ i \in DOMAIN rec.runs => j \in DOMAIN rec.runs
      BY <1>6, <1>8, <2>1, <3>1
    <3>3. \A k \in (1..s.made) \ {j} : ledger'[k].retryOf # i
      <4> SUFFICES ASSUME NEW k \in (1..s.made) \ {j}, ledger'[k].retryOf = i PROVE FALSE
        OBVIOUS
      <4>1. CASE k \in Old
        BY <1>4, <3>2, <4>1 DEF SameWork
      <4>2. CASE k \in n..s.made
        BY <1>3, <1>7, <1>8, <2>1, <3>1, <4>2
      <4> QED
        BY <1>3, <4>1, <4>2
    <3>4. ASSUME i \in DOMAIN s.runs PROVE j \in DOMAIN s.runs /\ ~ pendingRun(s.runs[i])
      <4>1. i \in Names(s) /\ i \notin n..s.made
        BY <1>1, <3>2, <3>4 DEF Names
      <4>2. j \in DOMAIN rec.runs /\ j \in Names(s)
        BY <1>2, <3>2, <4>1
      <4>3. Seen(s, j).retryOf = i
        <5>1. SameWork(ledger[j], rec.runs[j]) /\ SameWork(rec.runs[j], Seen(s, j))
          BY <1>1, <1>5, <4>2 DEF Derived, Revised
        <5> QED
          BY <3>1, <5>1 DEF SameWork
      <4> QED
        BY <1>1, <3>4, <4>2, <4>3 DEF Derived, Linked
    <3> QED
      BY <1>4, <2>1, <3>2, <3>3, <3>4 DEF SameWork
  <2>2. CASE j = n /\ s.made = n
    <3>1. /\ i \in DOMAIN rec.runs /\ i \in Old
          /\ \A k \in Old : ledger[k].retryOf # i
          /\ ledger'[j].attempt = ledger[i].attempt + 1 /\ ledger'[j].attempt <= MaxAttempts
          /\ ledger'[j].gen = ledger[i].gen /\ ledger'[j].kind = ledger[i].kind
      BY <1>1, <1>7, <1>8, <2>2
    <3>2. \A k \in (1..s.made) \ {j} : ledger'[k].retryOf # i
      BY <1>3, <1>4, <2>2, <3>1 DEF SameWork
    <3>3. Old = 1..(j - 1)
      BY <1>1, <2>2
    <3>4. i \in DOMAIN s.runs => j \in DOMAIN s.runs /\ ~ pendingRun(s.runs[i])
      <4>1. j \in Names(s) /\ Seen(s, j) = ledger'[j]
        BY <1>1, <1>2, <2>2
      <4> QED
        BY <1>1, <4>1 DEF Derived, Linked
    <3> QED
      BY <1>4, <3>1, <3>2, <3>3, <3>4 DEF SameWork
  <2> QED
    BY <1>3, <2>1, <2>2
<1>9. RetryOnce'
  BY <1>2, <1>8 DEF RetryOnce
<1>10. RetriesLinked'
  BY <1>1, <1>2, <1>8 DEF RetriesLinked
<1> QED
  BY <1>9, <1>10 DEF Retries

LEMMA RetriesStep ==
  RecordInv /\ Purged /\ LedgerFollows /\ Retries /\ [Next]_vars => Retries'
<1> SUFFICES ASSUME RecordInv, Purged, LedgerFollows, Retries, [Next]_vars PROVE Retries'
  OBVIOUS
<1>1. CASE UNCHANGED <<rec, ledger>>
  BY <1>1 DEF Retries, RetriesLinked, RetryOnce
<1>2. CASE DOMAIN ledger' = {}
  BY <1>2 DEF Retries, RetriesLinked, RetryOnce
<1>3. ASSUME NEW s, NEW p \in Procs, Advances(s, proc[p].now), Write(s) PROVE Retries'
  <2>1. TypeOK
    BY DEF RecordInv, Current
  <2> QED
    BY <1>3, <2>1, WriteExtends, RetriesAdvance
<1>4. CASE Suspends
  <2>1. /\ Extends /\ rec'.made = rec.made /\ Advances(Suspended(rec), 0)
        /\ Suspended(rec).made = rec.made
    BY <1>4, SuspendExtends DEF RecordInv, Touched
  <2> QED
    BY <2>1, RetriesAdvance
<1> QED
  BY <1>1, <1>2, <1>3, <1>4, HistorySteps

HistoryInv == RecordInv /\ Purged /\ LedgerFollows

LEMMA HistoryInvariant == Spec => []HistoryInv
<1>1. Init => HistoryInv
  BY CurrentInit, WorkInit, RecordBaseInit, PurgedInit, LedgerFollowsInit
  DEF RecordInv, HistoryInv
<1>2. HistoryInv /\ [Next]_vars => HistoryInv'
  BY CurrentStep, WorkStep, RecordBaseStep, PurgedStep, LedgerFollowsStep
  DEF RecordInv, Current, HistoryInv
<1> QED
  BY <1>1, <1>2, PTL DEF Spec

\* A run is retried at most once, by the next attempt at the same work, also
\* when the run, or its retry, is no longer there to tell.
THEOREM RetriedOnce == Spec => []RetryOnce
<1>1. Init => Retries
  BY RetriesInit
<1>2. HistoryInv /\ Retries /\ [Next]_vars => Retries'
  BY RetriesStep DEF HistoryInv
<1>3. Retries => RetryOnce
  BY DEF Retries
<1> QED
  BY <1>1, <1>2, <1>3, HistoryInvariant, PTL DEF Spec

-----------------------------------------------------------------------------
(***************************************************************************)
(* Occurrences.  Every occurrence that became a run lies before the next   *)
(* one of the schedule, and before the instant at which any handler that   *)
(* can still commit has read the record: no edit and no resumption         *)
(* schedules it a second time.                                             *)
(***************************************************************************)
SlotsPast ==
  /\ \A j \in DOMAIN ledger : ledger[j].slot <= clock
  /\ rec # NoRecord /\ rec.next # NoTime => \A j \in DOMAIN ledger : ledger[j].slot < rec.next
  /\ \A p \in Procs : proc[p].pc = "commit" /\ Unchanged(proc[p].snap) =>
       \A j \in DOMAIN ledger : ledger[j].slot <= proc[p].now

Slots == SlotsPast /\ OccurrenceOnce

LEMMA SlotsInit == Init => Slots
BY DEF Init, Slots, SlotsPast, OccurrenceOnce, NoRuns, Idle

\* A handler about to commit was so before, or has just read the clock.
LEMMA CommitProcs ==
  ASSUME TypeOK, [Next]_vars, NEW x \in Procs, proc'[x].pc = "commit"
  PROVE  \/ proc'[x] = proc[x]
         \/ proc'[x].now = clock /\ UNCHANGED <<rec, ledger, clock>>
<1>0. DOMAIN proc = Procs
  BY DEF TypeOK, ProcsOK
<1> DEFINE Goal == \/ proc'[x] = proc[x]
                   \/ proc'[x].now = clock /\ UNCHANGED <<rec, ledger, clock>>
<1>1. ASSUME NEW p \in Procs, NEW pc, NEW q, NEW t, NEW s, Become(p, pc, q, t, s),
             pc = "commit" => t = clock /\ UNCHANGED <<rec, ledger, clock>>
      PROVE  Goal
  <2>1. proc' = [proc EXCEPT ![p] = [pc |-> pc, req |-> q, now |-> t, snap |-> s]]
    BY <1>1 DEF Become
  <2>2. CASE x = p
    BY <1>0, <1>1, <2>1, <2>2
  <2>3. CASE x # p
    BY <1>0, <2>1, <2>3
  <2> QED
    BY <2>2, <2>3
<1>2. ASSUME NEW p \in Procs, End(p) PROVE Goal
  <2>1. Become(p, "idle", NoCall, NoTime, NoRecord)
    BY <1>2 DEF End, Become, Idle
  <2> QED
    BY <1>1, <2>1
<1>3. CASE UNCHANGED proc
  BY <1>3
<1>4. ASSUME NEW p \in Procs, Handler(p) PROVE Goal
  <2>1. ASSUME NEW q \in Requests, CommandRead(p, q) PROVE Goal
    BY <1>1, <1>3, <2>1 DEF CommandRead, NoWrite, environment
  <2> QED
    BY <1>1, <1>2, <1>4, <2>1
    DEF Handler, CreateRead, CreateCommit, CommandCommit, CommandRecheck, ViewRead, ViewCommit
<1>5. ASSUME NEW p \in Procs, Worker(p) \/ Crash(p) PROVE Goal
  BY <1>1, <1>2, <1>5
  DEF Worker, Crash, TickStart, TickRead, TickCommit, SuspendRead, SuspendCommit
<1> QED
  BY <1>3, <1>4, <1>5
  DEF Next, vars, Issue, SetAccount, PurgeList, PurgeDelete, AdvanceClock

\* Time does not go back.
LEMMA ClockSteps ==
  ASSUME TypeOK, [Next]_vars
  PROVE  clock \in Nat /\ clock' \in Nat /\ clock <= clock'
<1>1. clock \in Nat
  BY InstanceAssumption DEF TypeOK, EnvironmentOK
<1>2. clock' = clock \/ clock' = clock + 1
  BY DEF Next, vars, Issue, Handler, Worker, Crash, SetAccount, PurgeList, PurgeDelete,
         AdvanceClock, environment, CreateRead, CreateCommit, CommandRead, CommandCommit,
         CommandRecheck, ViewRead, ViewCommit, TickStart, TickRead, TickCommit, SuspendRead,
         SuspendCommit
<1> QED
  BY <1>1, <1>2

\* No handler that was about to commit still can after a write.
LEMMA WriteRefuses ==
  ASSUME Current, [Next]_vars, NEW x \in Procs, proc'[x] = proc[x], proc[x].pc = "commit",
         \/ rec # NoRecord /\ rec'.version = rec.version + 1
         \/ rec = NoRecord /\ account # "deleting"
  PROVE  ~ (rec' # NoRecord /\ rec'.version = proc[x].snap.version)
<1>1. Holds(x) /\ JobOK(proc[x].snap)
  BY DEF Holds, Current, TypeOK, ProcsOK
<1>2. /\ rec # NoRecord /\ rec'.version = rec.version + 1
      /\ proc[x].snap.version <= rec.version /\ JobOK(rec)
  BY <1>1 DEF Current, SnapshotsCurrent, TypeOK, StoreOK
<1>3. rec.version \in Nat /\ proc[x].snap.version \in Nat
  BY <1>1, <1>2 DEF JobOK, JobRecords
<1> QED
  BY <1>2, <1>3

LEMMA SlotsAdvance ==
  ASSUME TypeOK, TypeOK', LedgerFollows, Slots, NEW s, NEW now \in Nat,
         Advances(s, now), Extends, rec'.made = s.made,
         now <= clock, clock \in Nat, clock' = clock,
         s.made # rec.made => s.made = rec.made + 1 /\ ledger'[s.made] = Seen(s, s.made),
         \/ s.next = rec.next \/ s.next = NoTime
         \/ \A j \in DOMAIN ledger : ledger[j].slot < s.next
  PROVE  /\ \A j \in DOMAIN ledger' : ledger'[j].slot <= clock'
         /\ rec'.next # NoTime => \A j \in DOMAIN ledger' : ledger'[j].slot < rec'.next
         /\ OccurrenceOnce'
<1> DEFINE n == rec.made + 1
           Old == 1..rec.made
<1>1. /\ rec # NoRecord /\ rec' # NoRecord /\ Derived(rec, s) /\ Evolves(rec, s, now)
      /\ rec'.next = s.next /\ rec.made \in Nat /\ rec.next \in Nat /\ s.next \in Nat
  BY StoredFields DEF Advances, Evolves, Base, JobOK, JobRecords, SameJob
<1>2. /\ DOMAIN ledger = Old /\ DOMAIN ledger' = 1..s.made /\ s.made \in {rec.made, n}
  BY <1>1 DEF LedgerFollows, Extends, Derived
<1>3. \A j \in 1..s.made : j \in Old \/ (j = n /\ s.made = n)
  <2>1. rec.made \in Nat /\ s.made \in {rec.made, n}
    BY <1>1, <1>2
  <2> QED
    BY <2>1
<1>4. \A j \in Old : ledger'[j].slot = ledger[j].slot /\ ledger[j].slot \in Nat
  BY <1>2 DEF Extends, SameWork, TypeOK, StoreOK, Run
<1>5. ASSUME NEW j \in Old
      PROVE  /\ ledger[j].slot <= clock
             /\ rec.next # NoTime => ledger[j].slot < rec.next
             /\ s.next # NoTime => ledger[j].slot < s.next
  BY <1>1, <1>2 DEF Slots, SlotsPast
<1>6. ASSUME s.made = n, ledger'[n].slot # NoTime
      PROVE  /\ ledger'[n].slot = rec.next /\ rec.next <= now
             /\ s.next = NoTime \/ s.next > now
  <2>1. s.made # rec.made
    BY <1>1, <1>6
  <2> QED
    BY <1>1, <1>6, <2>1 DEF Evolves, Consumes
<1>7. ASSUME NEW j \in 1..s.made
      PROVE  /\ ledger'[j].slot <= clock
             /\ s.next # NoTime => ledger'[j].slot < s.next
  <2>1. CASE j \in Old
    BY <1>4, <1>5, <2>1
  <2>2. CASE j = n /\ s.made = n /\ ledger'[n].slot = NoTime
    BY <1>1, <2>2 DEF NoTime
  <2>3. CASE j = n /\ s.made = n /\ ledger'[n].slot # NoTime
    BY <1>1, <1>6, <2>3
  <2> QED
    BY <1>3, <2>1, <2>2, <2>3
<1>8. ASSUME NEW i \in 1..s.made, NEW j \in 1..s.made, i # j, ledger'[i].slot # NoTime,
             ledger'[i].slot = ledger'[j].slot
      PROVE  FALSE
  <2>1. CASE i \in Old /\ j \in Old
    BY <1>2, <1>4, <1>8, <2>1 DEF Slots, OccurrenceOnce
  <2>2. CASE i \in Old /\ j = n /\ s.made = n
    BY <1>1, <1>4, <1>5, <1>6, <1>8, <2>2
  <2>3. CASE i = n /\ s.made = n /\ j \in Old
    BY <1>1, <1>4, <1>5, <1>6, <1>8, <2>3
  <2> QED
    BY <1>3, <1>8, <2>1, <2>2, <2>3
<1> QED
  BY <1>1, <1>2, <1>7, <1>8 DEF OccurrenceOnce

LEMMA SlotsStep ==
  HistoryInv /\ Slots /\ [Next]_vars => Slots'
<1> SUFFICES ASSUME HistoryInv, Slots, [Next]_vars PROVE Slots'
  OBVIOUS
<1>0. /\ RecordInv /\ Purged /\ LedgerFollows /\ Current /\ TypeOK /\ TypeOK'
      /\ RecordBase
  BY TypeStep DEF HistoryInv, RecordInv, Current
<1>1. clock \in Nat /\ clock' \in Nat /\ clock <= clock'
  BY <1>0, ClockSteps
<1>2. \A j \in DOMAIN ledger : ledger[j].slot \in Nat
  BY <1>0 DEF TypeOK, StoreOK, Run
<1>3. ASSUME NEW p \in Procs PROVE proc[p].now \in Nat /\ proc[p].now <= clock
  BY <1>0, InstanceAssumption DEF TypeOK, ProcsOK
<1>4. CASE UNCHANGED <<rec, ledger>>
  <2>1. \A j \in DOMAIN ledger : ledger[j].slot <= clock'
    BY <1>1, <1>2 DEF Slots, SlotsPast
  <2>2. ASSUME NEW x \in Procs, proc'[x].pc = "commit",
               rec' # NoRecord, rec'.version = proc'[x].snap.version
        PROVE  \A j \in DOMAIN ledger : ledger[j].slot <= proc'[x].now
    <3>1. CASE proc'[x] = proc[x]
      <4>1. Unchanged(proc[x].snap)
        BY <1>4, <2>2, <3>1 DEF Unchanged
      <4> QED
        BY <2>2, <3>1, <4>1 DEF Slots, SlotsPast
    <3>2. CASE proc'[x].now = clock
      BY <3>2 DEF Slots, SlotsPast
    <3> QED
      BY <1>0, <2>2, <3>1, <3>2, CommitProcs
  <2> QED
    BY <1>4, <2>1, <2>2 DEF Slots, SlotsPast, OccurrenceOnce, Unchanged
<1>5. CASE DOMAIN ledger' = {}
  BY <1>5 DEF Slots, SlotsPast, OccurrenceOnce
<1>6. ASSUME rec # NoRecord /\ rec'.version = rec.version + 1,
             ~ UNCHANGED <<rec, ledger>> \/ Suspends,
             /\ \A j \in DOMAIN ledger' : ledger'[j].slot <= clock'
             /\ rec'.next # NoTime => \A j \in DOMAIN ledger' : ledger'[j].slot < rec'.next
             /\ OccurrenceOnce'
      PROVE  Slots'
  <2>1. ASSUME NEW x \in Procs, proc'[x].pc = "commit"
        PROVE  ~ (rec' # NoRecord /\ rec'.version = proc'[x].snap.version)
    <3>1. rec' # rec
      <4>1. rec.version \in Nat
        BY <1>0, <1>6 DEF TypeOK, StoreOK, JobOK, JobRecords
      <4> QED
        BY <1>6, <4>1
    <3>2. proc'[x] = proc[x]
      BY <1>0, <2>1, <3>1, CommitProcs
    <3>3. ~ (rec' # NoRecord /\ rec'.version = proc[x].snap.version)
      BY <1>0, <1>6, <2>1, <3>2, WriteRefuses
    <3> QED
      BY <3>2, <3>3
  <2> QED
    BY <1>6, <2>1 DEF Slots, SlotsPast, Unchanged
<1>7. ASSUME NEW s, NEW p \in Procs, Advances(s, proc[p].now), Write(s),
             Commits(p) \/ (Works(p) /\ Elapses(rec, s, proc[p].now))
      PROVE  Slots'
  <2>1. /\ Extends /\ rec'.made = s.made
        /\ s.made # rec.made => s.made = rec.made + 1 /\ ledger'[s.made] = Seen(s, s.made)
    BY <1>0, <1>7, WriteExtends
  <2>2. clock' = clock
    BY <1>7 DEF Commits, Works, environment
  <2>3. rec.next \in Nat /\ s.next \in Nat /\ rec # NoRecord
    BY <1>7 DEF Advances, Base, JobOK, JobRecords
  <2>4. NextMoves(rec, s, proc[p].now)
    BY <1>7 DEF Advances, Evolves
  <2>5. \/ s.next = rec.next \/ s.next = NoTime
        \/ \A j \in DOMAIN ledger : ledger[j].slot < s.next
    <3>1. CASE Commits(p)
      <4>1. \A j \in DOMAIN ledger : ledger[j].slot <= proc[p].now
        BY <3>1 DEF Commits, Unchanged, Slots, SlotsPast
      <4> QED
        BY <1>2, <1>3, <2>3, <2>4, <4>1 DEF NextMoves
    <3>2. CASE Elapses(rec, s, proc[p].now)
      BY <1>2, <1>3, <2>3, <2>4, <3>2 DEF NextMoves, Elapses, Slots, SlotsPast
    <3> QED
      BY <1>7, <3>1, <3>2
  <2>6. /\ \A j \in DOMAIN ledger' : ledger'[j].slot <= clock'
        /\ rec'.next # NoTime => \A j \in DOMAIN ledger' : ledger'[j].slot < rec'.next
        /\ OccurrenceOnce'
    BY <1>0, <1>1, <1>3, <1>7, <2>1, <2>2, <2>5, SlotsAdvance
  <2>7. rec'.version = rec.version + 1 /\ rec' # rec
    <3>1. rec.version \in Nat
      BY <2>3, <1>7 DEF Advances, Base, JobOK, JobRecords
    <3> QED
      BY <1>7, <3>1 DEF Advances
  <2> QED
    BY <1>6, <2>3, <2>6, <2>7
<1>8. CASE Suspends
  <2> DEFINE s == Suspended(rec)
  <2>1. Extends /\ rec'.made = rec.made /\ Advances(s, 0) /\ Touched(rec, s)
    BY <1>0, <1>8, SuspendExtends
  <2>2. s.next = NoTime
    BY <2>1, SuspendedEvolves, 0 \in Nat DEF Advances
  <2>3. clock' = clock /\ s.made = rec.made /\ rec # NoRecord /\ rec'.version = rec.version + 1
    BY <1>8, <2>1 DEF Suspends, environment, Touched, Advances
  <2>4. /\ \A j \in DOMAIN ledger' : ledger'[j].slot <= clock'
        /\ rec'.next # NoTime => \A j \in DOMAIN ledger' : ledger'[j].slot < rec'.next
        /\ OccurrenceOnce'
    BY <1>0, <1>1, <2>1, <2>2, <2>3, SlotsAdvance, 0 \in Nat
  <2> QED
    BY <1>6, <1>8, <2>3, <2>4
<1> QED
  BY <1>0, <1>4, <1>5, <1>7, <1>8, HistorySteps

\* An occurrence of the schedule becomes at most one run, whatever workers,
\* edits and resumptions interleave, and whatever has been evicted since.
THEOREM OccursOnce == Spec => []OccurrenceOnce
<1>1. Init => Slots
  BY SlotsInit
<1>2. HistoryInv /\ Slots /\ [Next]_vars => Slots'
  BY SlotsStep
<1>3. Slots => OccurrenceOnce
  BY DEF Slots
<1> QED
  BY <1>1, <1>2, <1>3, HistoryInvariant, PTL DEF Spec

-----------------------------------------------------------------------------
(***************************************************************************)
(* Answers.  Receipts are dropped when there are too many, but those that  *)
(* are left tell the truth.                                                *)
(***************************************************************************)
\* A command carries the identifier it is issued under.
OwnCalls == \A q \in Requests : calls[q] \in Call => calls[q].id = q

\* Whoever has been answered, or will be from a receipt, is told of one run,
\* and nobody is told anything before the command has been carried out.
Told(q) ==
  /\ applied[q] = 0 => answers[q] = {} /\ (rec # NoRecord => Receipts(rec, q) = {})
  /\ \E n \in Nat : /\ answers[q] \subseteq {n}
                    /\ rec # NoRecord =>
                         \A i \in Receipts(rec, q) : rec.receipts[i].run = n

AnswersTrue == OwnCalls /\ \A q \in Requests : Told(q)

LEMMA AnswersInit == Init => AnswersTrue
<1> SUFFICES ASSUME Init PROVE AnswersTrue
  OBVIOUS
<1>1. NoCall \notin Call /\ 0 \in Nat
  BY InstanceAssumption
<1> QED
  BY <1>1 DEF Init, AnswersTrue, OwnCalls, Told

LEMMA OwnCallsStep == TypeOK /\ OwnCalls /\ [Next]_vars => OwnCalls'
<1> SUFFICES ASSUME TypeOK, OwnCalls, [Next]_vars PROVE OwnCalls'
  OBVIOUS
<1>1. ASSUME NEW q \in Requests, Issue(q) PROVE OwnCalls'
  <2>0. PICK op \in Ops : \E i \in Targets(op), k \in Kinds, s \in Schedules :
          calls' = [calls EXCEPT ![q] = [id |-> q, op |-> op, version |-> rec.version,
                                         target |-> i, kind |-> k, sched |-> s]]
    BY <1>1 DEF Issue
  <2>1. PICK i \in Targets(op), k \in Kinds, s \in Schedules :
          calls' = [calls EXCEPT ![q] = [id |-> q, op |-> op, version |-> rec.version,
                                         target |-> i, kind |-> k, sched |-> s]]
    BY <2>0
  <2>2. /\ \A p \in Requests \ {q} : calls'[p] = calls[p]
        /\ calls'[q] = NoCall \/ calls'[q].id = q
    BY <2>1, Zenon DEF TypeOK, EnvironmentOK
  <2>3. \A p \in Requests : calls'[p] \in Call => calls'[p].id = p
    <3>1. TAKE p \in Requests
    <3>2. CASE p = q
      BY <2>2, <3>2, InstanceAssumption
    <3>3. CASE p # q
      <4>1. calls'[p] = calls[p]
        BY <2>2, <3>3
      <4> QED
        BY <4>1 DEF OwnCalls
    <3> QED
      BY <3>2, <3>3
  <2> QED
    BY <2>3 DEF OwnCalls
<1>2. CASE UNCHANGED calls
  BY <1>2 DEF OwnCalls
<1> QED
  BY <1>1, <1>2
  DEF Next, vars, Handler, Worker, Crash, SetAccount, PurgeList, PurgeDelete,
      AdvanceClock, environment, CreateRead, CreateCommit, CommandRead, CommandCommit,
      CommandRecheck, ViewRead, ViewCommit, TickStart, TickRead, TickCommit, SuspendRead,
      SuspendCommit

\* How a step answers.
LEMMA AnswerSteps ==
  ASSUME Current, [Next]_vars
  PROVE  \/ \E p \in Procs : Commits(p)
         \/ \E q \in Requests : /\ rec # NoRecord /\ AnswerFrom(rec, q)
                                /\ UNCHANGED <<rec, applied>>
         \/ UNCHANGED <<answers, applied>>
<1> DEFINE Goal == \/ \E p \in Procs : Commits(p)
                   \/ \E q \in Requests : /\ rec # NoRecord /\ AnswerFrom(rec, q)
                                          /\ UNCHANGED <<rec, applied>>
                   \/ UNCHANGED <<answers, applied>>
<1>1. ASSUME NEW p \in Procs, CommandCommit(p) PROVE Goal
  BY <1>1, CommandCommits DEF history
<1>2. ASSUME NEW p \in Procs, NEW q \in Requests, CommandRead(p, q) PROVE Goal
  BY <1>2 DEF CommandRead, NoWrite
<1>3. ASSUME NEW p \in Procs, CommandRecheck(p) PROVE Goal
  <2>1. proc[p].req \in Requests
    BY <1>3 DEF CommandRecheck, Current, TypeOK, ProcsOK
  <2> QED
    BY <1>3, <2>1 DEF CommandRecheck, NoWrite
<1> QED
  BY <1>1, <1>2, <1>3
  DEF Next, vars, Issue, Handler, Worker, Crash, SetAccount, PurgeList, PurgeDelete,
      AdvanceClock, history, CreateRead, CreateCommit, ViewRead, ViewCommit, TickStart,
      TickRead, TickCommit, SuspendRead, SuspendCommit

\* What is left after a receipt has been added was there, or is the new one.
LEMMA TrimmedReceipts ==
  ASSUME NEW s \in Seq(Receipt), NEW x \in Receipt, NEW i \in 1..Len(Trim(Append(s, x)))
  PROVE  \/ Trim(Append(s, x))[i] = x
         \/ \E j \in 1..Len(s) : Trim(Append(s, x))[i] = s[j]
<1> DEFINE t == Append(s, x)
<1>1. /\ t \in Seq(Receipt) /\ Len(t) = Len(s) + 1 /\ Len(s) \in Nat
      /\ t[Len(s) + 1] = x /\ \A j \in 1..Len(s) : t[j] = s[j]
  OBVIOUS
<1> HIDE DEF t
<1>2. \A j \in 1..Len(t) : t[j] = x \/ \E k \in 1..Len(s) : t[j] = s[k]
  BY <1>1
<1>3. \E j \in 1..Len(t) : Trim(t)[i] = t[j]
  <2>1. CASE Len(t) > MaxReceipts
    <3>1. Trim(t) = SubSeq(t, 2, Len(t))
      BY <2>1 DEF Trim
    <3>2. i \in 1..(Len(t) - 1) /\ Trim(t)[i] = t[i + 1]
      BY <1>1, <3>1 DEF t
    <3> QED
      BY <1>1, <3>2
  <2>2. CASE ~ (Len(t) > MaxReceipts)
    BY <2>2 DEF Trim, t
  <2> QED
    BY <2>1, <2>2
<1> QED
  BY <1>2, <1>3 DEF t

\* A step that leaves the receipts as they are, or drops them all.
LEMMA ToldKept ==
  ASSUME NEW q \in Requests, Told(q), applied'[q] = applied[q], answers'[q] = answers[q],
         \/ rec' = NoRecord
         \/ rec # NoRecord /\ rec'.receipts = rec.receipts
         \/ rec'.receipts = <<>>
  PROVE  Told(q)'
<1>1. \/ rec' = NoRecord
      \/ rec # NoRecord /\ Receipts(rec', q) = Receipts(rec, q) /\ rec'.receipts = rec.receipts
      \/ Receipts(rec', q) = {}
  BY DEF Receipts
<1> QED
  BY <1>1 DEF Told

LEMMA AnswersStep ==
  RecordInv /\ Once /\ AnswersTrue /\ [Next]_vars => AnswersTrue'
<1> SUFFICES ASSUME RecordInv, Once, AnswersTrue, [Next]_vars PROVE AnswersTrue'
  OBVIOUS
<1>0. /\ Current /\ TypeOK /\ RecordBase /\ WorkHeld
      /\ applied \in [Requests -> Nat] /\ answers \in [Requests -> SUBSET Nat]
      /\ rec # NoRecord => JobOK(rec)
  BY DEF RecordInv, Current, TypeOK, HistoryOK, StoreOK
<1>1. OwnCalls'
  BY <1>0, OwnCallsStep DEF AnswersTrue
<1>2. ASSUME NEW q \in Requests, rec # NoRecord, AnswerFrom(rec, q), UNCHANGED <<rec, applied>>,
             NEW x \in Requests
      PROVE  Told(x)'
  <2> DEFINE R == {rec.receipts[i].run :
                     i \in {j \in Receipts(rec, q) : rec.receipts[j].call = calls[q]}}
  <2>1. answers' = [answers EXCEPT ![q] = @ \cup R]
    BY <1>2 DEF AnswerFrom, Answer
  <2>2. CASE x # q
    BY <1>0, <1>2, <2>1, <2>2 DEF AnswersTrue, Told
  <2>3. CASE x = q
    <3>1. answers'[q] = answers[q] \cup R
      BY <1>0, <2>1
    <3>2. PICK n \in Nat : /\ answers[q] \subseteq {n}
                           /\ \A i \in Receipts(rec, q) : rec.receipts[i].run = n
      BY <1>2 DEF AnswersTrue, Told
    <3>3. R \subseteq {n}
      BY <3>2
    <3>4. applied[q] = 0 => answers[q] = {} /\ Receipts(rec, q) = {} /\ R = {}
      BY <1>2 DEF AnswersTrue, Told
    <3> HIDE DEF R
    <3> QED
      BY <1>2, <2>3, <3>1, <3>2, <3>3, <3>4 DEF Told
  <2> QED
    BY <2>2, <2>3
<1>3. ASSUME NEW p \in Procs, Commits(p), NEW x \in Requests PROVE Told(x)'
  <2> DEFINE q == proc[p].req
  <2>1. PICK m \in Mutated(calls[q], rec, proc[p].now) :
          /\ Advances(m.rec, proc[p].now) /\ Answer(q, {m.run})
          /\ m.rec.receipts = Trim(Append(rec.receipts, [call |-> calls[q], run |-> m.run]))
    BY <1>0, <1>3, CommitsAdvance
  <2> DEFINE new == [call |-> calls[q], run |-> m.run]
  <2>2. /\ q \in Requests /\ calls[q] \in Call /\ calls[q].id = q /\ rec # NoRecord
        /\ proc[p].snap = rec /\ proc[p].pc = "commit" /\ proc[p].now \in Nat
    BY <1>0, <1>3, InstanceAssumption DEF Commits, AnswersTrue, OwnCalls, TypeOK, ProcsOK
  <2>3. applied[q] = 0
    <3>1. calls[q].version = rec.version /\ rec.version \in Nat
      BY <1>0, <2>2 DEF Once, CommandsHold, JobOK, JobRecords
    <3> QED
      BY <1>0, <2>2, <3>1 DEF Once, AppliedBehind
  <2>4. answers[q] = {} /\ Receipts(rec, q) = {}
    BY <2>2, <2>3 DEF AnswersTrue, Told
  <2>5. /\ applied' = [applied EXCEPT ![q] = @ + 1]
        /\ answers' = [answers EXCEPT ![q] = @ \cup {m.run}]
    BY <1>3, <2>1 DEF Commits, Answer
  <2>6. m.run \in Nat /\ new \in Receipt /\ rec.receipts \in Seq(Receipt)
    BY <1>0, <2>2, MutatedType DEF Receipt, JobOK, JobRecords
  <2>7. rec' # NoRecord /\ rec'.receipts = Trim(Append(rec.receipts, new))
    BY <2>1, StoredFields DEF Advances, SameJob
  <2>8. new.call.id = q /\ new.run = m.run
    BY <2>2
  <2> HIDE DEF new
  <2>9. ASSUME NEW i \in Receipts(rec', x)
        PROVE  \/ x = q /\ rec'.receipts[i].run = m.run
               \/ \E j \in Receipts(rec, x) : rec'.receipts[i] = rec.receipts[j]
    <3>1. i \in 1..Len(rec'.receipts) /\ rec'.receipts[i].call.id = x
      BY DEF Receipts
    <3>2. rec'.receipts[i] = new \/ \E j \in 1..Len(rec.receipts) : rec'.receipts[i] = rec.receipts[j]
      BY <2>6, <2>7, <3>1, TrimmedReceipts
    <3> QED
      BY <2>8, <3>1, <3>2 DEF Receipts
  <2>10. CASE x = q
    <3>1. applied'[q] = 1 /\ answers'[q] = {m.run}
      BY <1>0, <2>2, <2>3, <2>4, <2>5
    <3>2. \A i \in Receipts(rec', q) : rec'.receipts[i].run = m.run
      BY <2>4, <2>9, <2>10
    <3> QED
      BY <2>6, <2>10, <3>1, <3>2 DEF Told
  <2>11. CASE x # q
    <3>1. applied'[x] = applied[x] /\ answers'[x] = answers[x]
      BY <1>0, <2>2, <2>5, <2>11
    <3>2. \A i \in Receipts(rec', x) : \E j \in Receipts(rec, x) : rec'.receipts[i] = rec.receipts[j]
      BY <2>9, <2>11
    <3>3. PICK n \in Nat : /\ answers[x] \subseteq {n}
                           /\ \A j \in Receipts(rec, x) : rec.receipts[j].run = n
      BY <2>2 DEF AnswersTrue, Told
    <3>4. applied[x] = 0 => answers[x] = {} /\ Receipts(rec, x) = {}
      BY <2>2 DEF AnswersTrue, Told
    <3>5. \A i \in Receipts(rec', x) : rec'.receipts[i].run = n
      BY <3>2, <3>3
    <3> QED
      BY <3>1, <3>2, <3>3, <3>4, <3>5 DEF Told
  <2> QED
    BY <2>10, <2>11
<1>4. ASSUME UNCHANGED <<answers, applied>>, ~ \E p \in Procs : Commits(p), NEW x \in Requests
      PROVE  Told(x)'
  <2>0. Told(x) /\ applied'[x] = applied[x] /\ answers'[x] = answers[x]
    BY <1>4 DEF AnswersTrue
  <2>1. CASE UNCHANGED rec
    BY <2>0, <2>1 DEF Told
  <2>2. ASSUME NEW p \in Procs, Creates(p) PROVE Told(x)'
    <3>1. rec'.receipts = <<>>
      BY <2>2 DEF Creates, Created
    <3> QED
      BY <2>0, <3>1, ToldKept
  <2>3. ASSUME NEW s, NEW now, Advances(s, now), s.receipts = rec.receipts PROVE Told(x)'
    <3>1. rec # NoRecord /\ rec'.receipts = rec.receipts
      BY <2>3, StoredFields DEF Advances, SameJob
    <3> QED
      BY <2>0, <3>1, ToldKept
  <2>4. ASSUME NEW p \in Procs, Works(p) PROVE Told(x)'
    BY <1>0, <2>3, <2>4, WorksAdvance
  <2>5. CASE Suspends
    <3>1. Advances(Suspended(rec), 0)
      BY <1>0, <2>5, SuspendsAdvance, 0 \in Nat
    <3>2. Suspended(rec).receipts = rec.receipts
      BY <3>1, SuspendedEvolves, 0 \in Nat DEF Advances
    <3> QED
      BY <2>3, <3>1, <3>2
  <2>6. CASE PurgeDelete
    BY <2>0, <2>1, <2>6, ToldKept DEF PurgeDelete
  <2> QED
    BY <1>0, <1>4, <2>1, <2>2, <2>4, <2>5, <2>6, WritingSteps DEF Writes
<1> QED
  BY <1>0, <1>1, <1>2, <1>3, <1>4, AnswerSteps DEF AnswersTrue

\* Whoever is told that a command succeeded is told of the run it really
\* made, also when the answer comes from a receipt, or from the receipt of a
\* concurrent copy of the same request.
THEOREM AnswersAgreeAlways == Spec => []AnswersAgree
<1>1. Init => Once /\ AnswersTrue
  BY OnceInit, AnswersInit
<1>2. RecordInv /\ (Once /\ AnswersTrue) /\ [Next]_vars => (Once /\ AnswersTrue)'
  BY OnceStep, AnswersStep DEF RecordInv
<1>3. RecordInv /\ Once /\ AnswersTrue => AnswersAgree
  <2> SUFFICES ASSUME RecordInv, Once, AnswersTrue, NEW q \in Requests
               PROVE  Cardinality(answers[q]) <= 1 /\ (answers[q] # {} => applied[q] = 1)
    BY DEF AnswersAgree
  <2>1. applied[q] \in Nat /\ applied[q] <= 1
    BY DEF RecordInv, Current, TypeOK, HistoryOK, Once, AtMostOnce
  <2>2. Told(q)
    BY DEF AnswersTrue
  <2>3. PICK n \in Nat : answers[q] \subseteq {n}
    BY <2>2 DEF Told
  <2>4. Cardinality({}) = 0 /\ Cardinality({n}) = 1
    BY FS_EmptySet, FS_Singleton, Zenon
  <2>5. answers[q] = {} \/ answers[q] = {n}
    BY <2>3
  <2>6. Cardinality(answers[q]) <= 1
    BY <2>4, <2>5
  <2> QED
    BY <2>1, <2>2, <2>6 DEF Told
<1> QED
  BY <1>1, <1>2, <1>3, RecordInvariant, PTL DEF Spec

-----------------------------------------------------------------------------
(***************************************************************************)
(* Without suspensions, the one write that archives nothing, the history   *)
(* is exact and not only about the right work: what a write changes or     *)
(* evicts it also archives, and everything else was exact before it.       *)
(***************************************************************************)
\* Nothing takes the grant from the account of a job.
GrantKept == "revoke" \notin Events /\ "purge" \notin Events

Granted == rec # NoRecord => Authorized

\* The history after a write.
LEMMA WriteArchives ==
  ASSUME NEW s, Write(s)
  PROVE  LET changed == {i \in Names(s) : i \in DOMAIN rec.runs => rec.runs[i] # Seen(s, i)} IN
         ledger' = [i \in DOMAIN ledger \cup changed |->
                      IF i \in changed THEN Seen(s, i) ELSE ledger[i]]
<1>1. Observed(s) = [i \in Names(s) |-> Seen(s, i)]
  BY DEF Observed, Names, Seen
<1>2. ledger' = Archive(rec, s)
  BY DEF Write
<1> QED
  BY <1>1, <1>2 DEF Archive

LEMMA CompleteAdvance ==
  ASSUME RecordInv, LedgerFollows, LedgerComplete, NEW s, NEW now, Advances(s, now), Write(s)
  PROVE  LedgerComplete'
<1> DEFINE changed == {i \in Names(s) : i \in DOMAIN rec.runs => rec.runs[i] # Seen(s, i)}
<1>1. ledger' = [i \in DOMAIN ledger \cup changed |->
                   IF i \in changed THEN Seen(s, i) ELSE ledger[i]]
  BY WriteArchives
<1>2. /\ rec # NoRecord /\ JobOK(rec) /\ Derived(rec, s) /\ rec' # NoRecord
      /\ rec'.made = s.made /\ rec'.runs = s.runs
  BY StoredFields DEF Advances, Base, Evolves
<1>3. /\ rec.made \in Nat /\ DOMAIN rec.runs \subseteq 1..rec.made
      /\ DOMAIN rec.runs \subseteq Names(s)
      /\ \A i \in 1..s.made : i \in 1..rec.made \/ i \in Names(s)
      /\ \A i \in Names(s) \ DOMAIN s.runs : ~ pendingRun(Seen(s, i))
      /\ \A i \in DOMAIN s.runs : i \in Names(s) /\ Seen(s, i) = s.runs[i]
  BY <1>2 DEF JobOK, JobRecords, RunTable, Derived, Names, Seen
<1>4. DOMAIN ledger = 1..rec.made
  BY <1>2 DEF LedgerFollows
<1>5. SUFFICES ASSUME NEW i \in 1..s.made
               PROVE  /\ i \in DOMAIN ledger'
                      /\ IF i \in DOMAIN s.runs THEN ledger'[i] = s.runs[i]
                         ELSE ~ pendingRun(ledger'[i])
  BY <1>2 DEF LedgerComplete
<1>6. CASE i \in changed
  BY <1>1, <1>3, <1>6
<1>7. CASE i \notin changed /\ i \in Names(s)
  <2>1. i \in DOMAIN rec.runs /\ rec.runs[i] = Seen(s, i)
    BY <1>7
  <2>2. i \in DOMAIN ledger /\ ledger[i] = Seen(s, i)
    BY <1>2, <1>3, <2>1 DEF LedgerComplete
  <2> QED
    BY <1>1, <1>3, <1>7, <2>2
<1>8. CASE i \notin Names(s)
  <2>1. i \in 1..rec.made /\ i \notin DOMAIN rec.runs /\ i \notin DOMAIN s.runs
    BY <1>3, <1>8
  <2>2. i \in DOMAIN ledger /\ ~ pendingRun(ledger[i])
    BY <1>2, <2>1 DEF LedgerComplete
  <2> QED
    BY <1>1, <1>8, <2>1, <2>2
<1> QED
  BY <1>6, <1>7, <1>8

LEMMA GrantedStep ==
  ASSUME GrantKept, HistoryInv, Granted, [Next]_vars
  PROVE  Granted'
<1>1. Authorized => Authorized'
  BY DEF GrantKept, Next, vars, Handler, Worker, Crash, SetAccount, PurgeList, PurgeDelete,
         AdvanceClock, Issue, environment, CreateRead, CreateCommit, CommandRead,
         CommandCommit, CommandRecheck, ViewRead, ViewCommit, TickStart, TickRead,
         TickCommit, SuspendRead, SuspendCommit, Authorized
<1>2. rec' # NoRecord => rec # NoRecord \/ Authorized
  BY WritingSteps DEF HistoryInv, RecordInv, Writes, Creates, Commits, Works, Suspends,
     PurgeDelete
<1> QED
  BY <1>1, <1>2 DEF Granted

\* Where no grant is lost, the history tells of every run the job ever made,
\* and of what became of each: compaction loses no receipt.
THEOREM LedgerTellsAll ==
  ASSUME GrantKept
  PROVE  Spec => []LedgerComplete
<1>1. Init => Granted /\ LedgerComplete
  BY DEF Init, Granted, LedgerComplete
<1>2. HistoryInv /\ Granted /\ LedgerComplete /\ [Next]_vars => Granted' /\ LedgerComplete'
  <2> SUFFICES ASSUME HistoryInv, Granted, LedgerComplete, [Next]_vars
               PROVE  LedgerComplete'
    BY GrantedStep
  <2>1. CASE UNCHANGED <<rec, ledger>>
    BY <2>1 DEF LedgerComplete
  <2>2. CASE rec' # NoRecord /\ rec'.made = 0
    BY <2>2 DEF LedgerComplete
  <2>3. CASE rec' = NoRecord
    BY <2>3 DEF LedgerComplete
  <2>4. ASSUME NEW s, NEW p \in Procs, Advances(s, proc[p].now), Write(s)
        PROVE  LedgerComplete'
    BY <2>4, CompleteAdvance DEF HistoryInv
  <2>5. ~ Suspends
    BY DEF Granted, Suspends
  <2> QED
    BY <2>1, <2>2, <2>3, <2>4, <2>5, HistorySteps DEF HistoryInv
<1> QED
  BY <1>1, <1>2, HistoryInvariant, PTL DEF Spec

-----------------------------------------------------------------------------
(***************************************************************************)
(* Cancellation.  A cancelled job leaves that status only by being         *)
(* suspended, and then its account has lost its grant.                     *)
(***************************************************************************)
CancelHeld ==
  \A q \in Requests :
    applied[q] > 0 /\ calls[q].op = "cancel" /\ Authorized /\ rec # NoRecord
      => rec.status = "cancelled"

CancelInv == RecordInv /\ Once /\ CancelHeld

\* Only a commit applies a command.
LEMMA CommitsApply ==
  ASSUME Current, [Next]_vars
  PROVE  applied' = applied \/ \E p \in Procs : Commits(p)
BY CommandCommits
DEF Next, vars, Handler, Worker, Crash, SetAccount, PurgeList, PurgeDelete, AdvanceClock,
    Issue, history, CreateRead, CreateCommit, CommandRead, CommandRecheck, ViewRead,
    ViewCommit, TickStart, TickRead, TickCommit, SuspendRead, SuspendCommit

\* While the account stays active no step takes a job out of cancellation.
LEMMA CancelledStays ==
  ASSUME RecordInv, [Next]_vars, Authorized, rec # NoRecord, rec.status = "cancelled",
         rec' # NoRecord
  PROVE  rec'.status = "cancelled" /\ rec'.made = rec.made
<1>1. ASSUME NEW s, NEW now, Advances(s, now), StaysCancelled(rec, s)
      PROVE  rec'.status = "cancelled" /\ rec'.made = rec.made
  <2>1. rec'.status = s.status /\ rec'.made = s.made
    BY <1>1, StoredFields DEF Advances, SameJob
  <2> QED
    BY <1>1, <2>1 DEF Advances, Evolves, StaysCancelled
<1>2. ASSUME NEW p \in Procs, Commits(p)
      PROVE  rec'.status = "cancelled" /\ rec'.made = rec.made
  BY <1>1, <1>2, CommitsAdvance DEF RecordInv
<1>3. ASSUME NEW p \in Procs, Works(p)
      PROVE  rec'.status = "cancelled" /\ rec'.made = rec.made
  BY <1>1, <1>3, WorksAdvance DEF RecordInv, StaysCancelled
<1> QED
  BY <1>2, <1>3, WritingSteps DEF RecordInv, Writes, Creates, Suspends, PurgeDelete

LEMMA CancelStep ==
  ASSUME "reinstate" \notin Events, CancelInv, [Next]_vars
  PROVE  CancelHeld'
<1>1. Authorized' => Authorized
  BY DEF Next, vars, Handler, Worker, Crash, SetAccount, PurgeList, PurgeDelete,
         AdvanceClock, Issue, environment, CreateRead, CreateCommit, CommandRead,
         CommandCommit, CommandRecheck, ViewRead, ViewCommit, TickStart, TickRead,
         TickCommit, SuspendRead, SuspendCommit, Authorized
<1> SUFFICES ASSUME NEW q \in Requests, applied'[q] > 0, calls'[q].op = "cancel",
                    Authorized', rec' # NoRecord
             PROVE  rec'.status = "cancelled"
  BY DEF CancelHeld
<1>2. CASE applied'[q] = applied[q]
  <2>1. calls[q] \in Call /\ rec # NoRecord
    BY <1>1, <1>2 DEF CancelInv, Once, AppliedBehind, Authorized
  <2>2. calls'[q] = calls[q]
    BY <2>1, CallsStay DEF CancelInv, RecordInv, Current
  <2>3. rec.status = "cancelled"
    BY <1>1, <1>2, <2>1, <2>2 DEF CancelInv, CancelHeld
  <2> QED
    BY <1>1, <2>1, <2>3, CancelledStays DEF CancelInv
<1>3. ASSUME NEW p \in Procs, Commits(p), q = proc[p].req
      PROVE  rec'.status = "cancelled"
  <2>1. calls'[q] = calls[q]
    BY <1>3 DEF Commits, environment
  <2>2. PICK m \in Mutated(calls[q], rec, proc[p].now) :
          Advances(m.rec, proc[p].now) /\ m.rec.status = "cancelled"
    BY <1>3, <2>1, CommitsAdvance DEF CancelInv, RecordInv
  <2> QED
    BY <2>2, StoredFields DEF Advances, SameJob
<1>4. applied \in [Requests -> Nat]
  BY DEF CancelInv, RecordInv, Current, TypeOK, HistoryOK
<1>5. ASSUME NEW p \in Procs, Commits(p), q # proc[p].req
      PROVE  applied'[q] = applied[q]
  BY <1>4, <1>5 DEF Commits
<1> QED
  BY <1>2, <1>3, <1>5, CommitsApply DEF CancelInv, RecordInv

\* Once a cancellation has been carried out the job makes no further run, for
\* as long as an account that has lost its grant does not get it back; when
\* it does, the suspension has made the cancelled job one that can be resumed.
THEOREM CancelledForGood ==
  ASSUME "reinstate" \notin Events
  PROVE  Spec => CancelStopsRuns
<1> DEFINE A == (\E q \in Requests : calls[q] # NoCall /\ calls[q].op = "cancel" /\ applied[q] > 0)
                  => (rec # NoRecord /\ rec' # NoRecord => rec'.made = rec.made)
<1>1. Init => CancelHeld
  BY DEF Init, CancelHeld
<1>2. CancelInv /\ [Next]_vars => CancelHeld'
  BY CancelStep
<1>3. CancelInv /\ [Next]_vars => [A]_rec
  <2> SUFFICES ASSUME CancelInv, [Next]_vars, NEW q \in Requests, calls[q].op = "cancel",
                      applied[q] > 0, rec # NoRecord, rec' # NoRecord
               PROVE  rec'.made = rec.made
    OBVIOUS
  <2>1. CASE Authorized
    BY <2>1, CancelledStays DEF CancelInv, CancelHeld
  <2>2. CASE ~ Authorized
    <3>1. CASE Suspends
      <4> DEFINE s == Suspended(rec)
      <4>1. Base(rec) /\ JobOK(s)
        BY <3>1, SuspendedType DEF CancelInv, RecordInv, RecordBase, Base, Successor
      <4>2. s.made = rec.made
        BY <4>1, SuspendedEvolves, 0 \in Nat DEF Touched
      <4> QED
        BY <3>1, <4>1, <4>2, StoredFields DEF Suspends
    <3> QED
      BY <2>2, <3>1, WritingSteps
      DEF CancelInv, RecordInv, Writes, Creates, Commits, Works, PurgeDelete
  <2> QED
    BY <2>1, <2>2
<1>4. Spec => []Once
  <2>1. Init => Once
    BY OnceInit
  <2>2. RecordInv /\ Once /\ [Next]_vars => Once'
    BY OnceStep DEF RecordInv
  <2> QED
    BY <2>1, <2>2, RecordInvariant, PTL DEF Spec
<1> QED
  BY <1>1, <1>2, <1>3, <1>4, RecordInvariant, PTL DEF Spec, CancelInv, CancelStopsRuns
=============================================================================
