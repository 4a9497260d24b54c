------------------------------ MODULE RootCause ------------------------------
(***************************************************************************)
(* The analyses of failed tool calls.  Each failure is a message of a     *)
(* queue; an analyzer claims the cooldown of its signature and a unit of   *)
(* the day's budget, asks a model, which is paid for, keeps a record and   *)
(* mails a report.  A failure that cannot be analysed is recorded, and the *)
(* owner is told once in a while (a notice of one kind).                   *)
(*                                                                         *)
(* The queue delivers at least once: a message that is not done with       *)
(* becomes visible again after Visibility and is delivered then or later,  *)
(* MaxDeliveries times at most.  No report has a marker of its own: what   *)
(* keeps a message from being analysed and reported twice is the cooldown, *)
(* and it does so no longer than it lasts.  An analysis is therefore known *)
(* by its failure and the instant at which its delivery read the clock.    *)
(***************************************************************************)
EXTENDS Integers, FiniteSets

CONSTANTS
  Analyzers,     \* invocations of the analyzer at the same time
  Failures,      \* failures that occur, each a message
  Signatures,    \* signatures of failures
  Cooldown,      \* least distance of two analyses of a signature
  DayLength,     \* days of the budget
  DailyCap,      \* analyses of a day
  NoticeWindow,  \* least distance of two notices
  Visibility,    \* time for which a message that is delivered stays invisible
  MaxDeliveries, \* maxReceiveCount of the queue
  MaxClock,      \* bound on the clock
  RcaFaults,     \* "die": an analyzer ends early; "lost": a call fails or its answer is lost;
                 \* "twice": a message is delivered while it is invisible
  NoSignature, NoFailure

ASSUME RootCauseAssumption ==
  /\ {Cooldown, DayLength, NoticeWindow, Visibility, MaxDeliveries} \subseteq Nat \ {0}
  /\ DailyCap \in Nat \ {0} /\ MaxClock \in Nat
  /\ NoSignature \notin Signatures /\ NoFailure \notin Failures

VARIABLES
  moment,
  failure,   \* the messages: signature, whether it is queued, when and how often delivered
  cooldown,  \* the instant at which the claim of a signature expires
  budget,    \* the analyses claimed of each day
  notice,    \* the instant at which the claim of the notice expires
  analyzer,  \* what each analyzer is doing
  asks,      \* history: calls of the model for each analysis
  reports,   \* history: reports mailed of each analysis
  notices    \* history: instants of the notices mailed

rcaStore == <<cooldown, budget, notice>>
rcaVars == <<moment, failure, analyzer, rcaStore, asks, reports, notices>>

Day(t) == t \div DayLength
Days == 0 .. Day(MaxClock)
Times == 0 .. MaxClock

\* An analysis: a failure, and the instant that its analyzer took for the present.
Analyses == Failures \X Times

Unheard == [state |-> "unborn", signature |-> NoSignature, visible |-> 0, deliveries |-> 0]
NoAnalysis == [pc |-> "idle", failure |-> NoFailure, now |-> 0]

RcaTypeOK ==
  /\ moment \in Times
  /\ failure \in [Failures -> [state : {"unborn", "queued", "done"},
                               signature : Signatures \cup {NoSignature},
                               visible : Nat, deliveries : 0 .. MaxDeliveries]]
  /\ cooldown \in [Signatures -> Int] /\ budget \in [Days -> 0 .. DailyCap] /\ notice \in Int
  /\ analyzer \in [Analyzers -> [pc : {"idle", "cooldown", "budget", "model", "record", "report",
                                       "unrecorded", "degraded", "notice"},
                                 failure : Failures \cup {NoFailure}, now : Times]]
  /\ asks \in [Analyses -> Nat] /\ reports \in [Analyses -> Nat]
  /\ notices \in [Times -> Nat]

RcaInit ==
  /\ moment = 0
  /\ failure = [f \in Failures |-> Unheard]
  /\ cooldown = [s \in Signatures |-> -1] /\ budget = [d \in Days |-> 0] /\ notice = -1
  /\ analyzer = [a \in Analyzers |-> NoAnalysis]
  /\ asks = [e \in Analyses |-> 0] /\ reports = [e \in Analyses |-> 0]
  /\ notices = [t \in Times |-> 0]

-----------------------------------------------------------------------------
(***************************************************************************)
(* The queue.                                                              *)
(***************************************************************************)
\* A tool call fails, and the router puts its failure on the queue.
Enqueue(f) ==
  /\ failure[f].state = "unborn"
  /\ \E s \in Signatures :
       failure' = [failure EXCEPT ![f] = [Unheard EXCEPT !.state = "queued", !.signature = s,
                                                         !.visible = moment]]
  /\ UNCHANGED <<moment, analyzer, rcaStore, asks, reports, notices>>

Waiting(f) == failure[f].state = "queued" /\ failure[f].deliveries < MaxDeliveries

\* Time passes, however long a message has been visible and an analyzer has run.
TimePasses ==
  /\ moment < MaxClock /\ moment' = moment + 1
  /\ UNCHANGED <<failure, analyzer, rcaStore, asks, reports, notices>>

\* An analyzer takes a message and reads the clock.  The queue may deliver one that
\* is with another analyzer.
Deliver(a, f) ==
  /\ analyzer[a].pc = "idle" /\ Waiting(f)
  /\ failure[f].visible <= moment \/ "twice" \in RcaFaults
  /\ failure' = [failure EXCEPT ![f].visible = moment + Visibility, ![f].deliveries = @ + 1]
  /\ analyzer' = [analyzer EXCEPT ![a] = [pc |-> "cooldown", failure |-> f, now |-> moment]]
  /\ UNCHANGED <<moment, rcaStore, asks, reports, notices>>

\* The message goes back to the queue, or leaves it, unless its deletion fails.
GoesBack(a) == analyzer' = [analyzer EXCEPT ![a] = NoAnalysis] /\ UNCHANGED failure
Done(a) ==
  \/ /\ analyzer' = [analyzer EXCEPT ![a] = NoAnalysis]
     /\ failure' = [failure EXCEPT ![analyzer[a].failure].state = "done"]
  \/ "lost" \in RcaFaults /\ GoesBack(a)

Proceeds(a, pc) == analyzer' = [analyzer EXCEPT ![a].pc = pc] /\ UNCHANGED failure

-----------------------------------------------------------------------------
(***************************************************************************)
(* The analyzer.                                                           *)
(***************************************************************************)
Signature(a) == failure[analyzer[a].failure].signature

\* A window is free at an instant if its claim has expired by then.
Free(expires, now) == expires < now

ClaimCooldown(a) ==
  LET s == Signature(a) IN
  /\ analyzer[a].pc = "cooldown"
  /\ \/ ~Free(cooldown[s], analyzer[a].now) /\ Done(a) /\ UNCHANGED cooldown
     \/ /\ Free(cooldown[s], analyzer[a].now)
        /\ cooldown' = [cooldown EXCEPT ![s] = analyzer[a].now + Cooldown]
        /\ Proceeds(a, "budget") \/ ("lost" \in RcaFaults /\ GoesBack(a))
     \/ "lost" \in RcaFaults /\ GoesBack(a) /\ UNCHANGED cooldown
  /\ UNCHANGED <<moment, budget, notice, asks, reports, notices>>

\* The unit is taken and checked in one write, from the day of the analyzer's clock.
ClaimDailyBudget(a) ==
  LET d == Day(analyzer[a].now) IN
  /\ analyzer[a].pc = "budget"
  /\ \/ budget[d] >= DailyCap /\ Done(a) /\ UNCHANGED budget
     \/ /\ budget[d] < DailyCap
        /\ budget' = [budget EXCEPT ![d] = @ + 1]
        /\ Proceeds(a, "model") \/ ("lost" \in RcaFaults /\ GoesBack(a))
     \/ "lost" \in RcaFaults /\ GoesBack(a) /\ UNCHANGED budget
  /\ UNCHANGED <<moment, cooldown, notice, asks, reports, notices>>

\* The context cannot be read.
GatherFails(a) ==
  /\ analyzer[a].pc = "model" /\ "lost" \in RcaFaults /\ GoesBack(a)
  /\ UNCHANGED <<moment, rcaStore, asks, reports, notices>>

TheAnalysis(a) == <<analyzer[a].failure, analyzer[a].now>>

AskModel(a) == asks' = [asks EXCEPT ![TheAnalysis(a)] = @ + 1]

\* Mutant: a message that goes back gives up the claim of its signature.
ConverseAndGiveUp(a) ==
  /\ analyzer[a].pc = "model" /\ AskModel(a)
  /\ \/ \E pc \in {"record", "degraded"} : Proceeds(a, pc) /\ UNCHANGED cooldown
     \/ "lost" \in RcaFaults /\ GoesBack(a) /\ cooldown' = [cooldown EXCEPT ![Signature(a)] = -1]
  /\ UNCHANGED <<moment, budget, notice, reports, notices>>

\* The model is asked: it answers with a report, or with none, or is unavailable; or
\* the call fails in a way that may pass.
Converse(a) ==
  /\ analyzer[a].pc = "model" /\ AskModel(a)
  /\ \/ \E pc \in {"record", "degraded"} : Proceeds(a, pc)
     \/ "lost" \in RcaFaults /\ GoesBack(a)
  /\ UNCHANGED <<moment, rcaStore, reports, notices>>

\* A record without an analysis; a write that fails sends the message back.
RecordDegraded(a) ==
  /\ analyzer[a].pc = "degraded"
  /\ \/ Proceeds(a, "notice") \/ Done(a)
     \/ "lost" \in RcaFaults /\ GoesBack(a)
  /\ UNCHANGED <<moment, rcaStore, asks, reports, notices>>

\* The owner is told, if nobody has claimed that lately, by the clock of this moment.
SendNotice(a) ==
  /\ analyzer[a].pc = "notice" /\ Done(a)
  /\ \/ Free(notice, moment)
        /\ notice' = moment + NoticeWindow
        /\ \/ notices' = [notices EXCEPT ![moment] = @ + 1]
           \/ "lost" \in RcaFaults /\ UNCHANGED notices
     \/ /\ ~Free(notice, moment) \/ "lost" \in RcaFaults
        /\ UNCHANGED <<notice, notices>>
  /\ UNCHANGED <<moment, cooldown, budget, asks, reports>>

\* The record of an analysis is written before the report is mailed; if that fails,
\* the report is mailed all the same and the message goes back.
PutRecord(a) ==
  /\ analyzer[a].pc = "record"
  /\ \/ Proceeds(a, "report")
     \/ "lost" \in RcaFaults /\ Proceeds(a, "unrecorded")
  /\ UNCHANGED <<moment, rcaStore, asks, reports, notices>>

SendReport(a) ==
  /\ analyzer[a].pc \in {"report", "unrecorded"}
  /\ \/ reports' = [reports EXCEPT ![TheAnalysis(a)] = @ + 1]
     \/ "lost" \in RcaFaults /\ UNCHANGED reports
  /\ IF analyzer[a].pc = "report" THEN Done(a) ELSE GoesBack(a)
  /\ UNCHANGED <<moment, rcaStore, asks, notices>>

AnalyzerDies(a) ==
  /\ "die" \in RcaFaults /\ analyzer[a].pc # "idle" /\ GoesBack(a)
  /\ UNCHANGED <<moment, rcaStore, asks, reports, notices>>

AnalyzerStep(a) ==
  \/ \E f \in Failures : Deliver(a, f)
  \/ ClaimCooldown(a) \/ ClaimDailyBudget(a) \/ GatherFails(a) \/ Converse(a)
  \/ RecordDegraded(a) \/ SendNotice(a) \/ PutRecord(a) \/ SendReport(a) \/ AnalyzerDies(a)

RcaNext ==
  \/ \E a \in Analyzers : AnalyzerStep(a)
  \/ \E f \in Failures : Enqueue(f)
  \/ TimePasses

RcaSpec == RcaInit /\ [][RcaNext]_rcaVars

-----------------------------------------------------------------------------
(***************************************************************************)
(* Properties.                                                             *)
(***************************************************************************)
Analyzed == {e \in Analyses : asks[e] > 0}

SignatureOf(e) == failure[e[1]].signature

\* The model is paid once for an analysis, whatever becomes of the analyzer; for one
\* signature, and so for one failure that is delivered again, at instants more than a
\* cooldown apart; and so often a day.
PaidWithinCaps ==
  /\ \A e \in Analyzed : asks[e] = 1
  /\ \A d, e \in Analyzed :
       d # e /\ SignatureOf(d) = SignatureOf(e) => d[2] > e[2] + Cooldown \/ e[2] > d[2] + Cooldown
  /\ \A d \in Days : Cardinality({e \in Analyzed : Day(e[2]) = d}) <= DailyCap

\* A report is mailed once of an analysis that was paid for, and the owner is told
\* that analyses fail once in a window.
MailedSparingly ==
  /\ \A e \in Analyses : reports[e] <= asks[e]
  /\ \A t, u \in Times :
       notices[t] > 0 /\ notices[u] > 0 =>
         notices[t] = 1 /\ (t = u \/ t > u + NoticeWindow \/ u > t + NoticeWindow)

\* What analyses cost, in money and in mails, is bounded.  A failure that is delivered
\* again within the cooldown of its analysis is not analysed again; later it is.
AnalysesBounded == PaidWithinCaps /\ MailedSparingly
===============================================================================
