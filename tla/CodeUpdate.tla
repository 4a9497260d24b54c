------------------------------ MODULE CodeUpdate ------------------------------
(***************************************************************************)
(* Dispatch of code updates.  A queued request is delivered at least once  *)
(* to a worker that writes a create-only row for the run token, launches a *)
(* coding session with it and tells the owner by mail; the session reports *)
(* its progress with the token.  Workers and progress handlers are Lambda  *)
(* invocations that may die anywhere.  The queue, the launch service and   *)
(* the mail queue are outside the program.                                 *)
(***************************************************************************)
EXTENDS Naturals, FiniteSets

CONSTANTS
  Procs,       \* concurrent invocations
  Requests,    \* code-update requests
  Repos,       \* repositories
  Repo,        \* the repository of each request
  MaxReceive,  \* deliveries before a message goes to the dead-letter queue (3)
  MaxPosts,    \* progress reports of a run (8)
  Faults,      \* faults that occur: "crash", "lostAnswer", "lostMail", "lostStatus"
  NoRequest

ASSUME InstanceAssumption ==
  /\ Repo \in [Requests -> Repos]
  /\ IsFiniteSet(Procs)
  /\ MaxReceive \in Nat /\ MaxPosts \in Nat
  /\ NoRequest \notin Requests

VARIABLES
  message,   \* "none", "queued", "gone" or "dead"
  received,  \* deliveries so far
  status,    \* status of the request's record
  token,     \* the run-token row: the name of the token and the posts claimed
  proc,      \* what each invocation is doing
  sessions,  \* sessions the launch service has started: request and token
  busy,      \* repositories whose run the launch service takes for running
  mails,     \* what the owner was told about each request
  progress,  \* progress mails of each request
  attempts   \* history: launches asked of the service

vars == <<message, received, status, token, proc, sessions, busy, mails, progress, attempts>>

\* The table holds no token row.  A token is named by the delivery that made it.
NoToken == [name |-> 0, posts |-> 0]

Idle == [pc |-> "idle", req |-> NoRequest, name |-> 0, posts |-> 0]

Session == [req : Requests, name : Nat \ {0}]

Phases == {"idle", "mint", "prepare", "launch", "started", "tellStarted",
           "refused", "upstream", "tellRefused", "tellUpstream", "claim", "report"}

TypeOK ==
  /\ message \in [Requests -> {"none", "queued", "gone", "dead"}]
  /\ received \in [Requests -> 0..MaxReceive]
  /\ status \in [Requests -> {"queued", "preprocessing", "launching", "launched", "failed"}]
  /\ token \in [Requests -> [name : Nat, posts : 0..MaxPosts]]
  /\ proc \in [Procs -> [pc : Phases, req : Requests \cup {NoRequest},
                        name : Nat, posts : 0..MaxPosts]]
  /\ \A p \in Procs : proc[p].pc # "idle" => proc[p].req \in Requests /\ proc[p].name # 0
  /\ sessions \subseteq Session
  /\ busy \subseteq Repos
  /\ mails \in [Requests -> SUBSET {"started", "failed"}]
  /\ progress \in [Requests -> Nat]
  /\ attempts \in [Requests -> Nat]

Init ==
  /\ message = [r \in Requests |-> "none"]
  /\ received = [r \in Requests |-> 0]
  /\ status = [r \in Requests |-> "queued"]
  /\ token = [r \in Requests |-> NoToken]
  /\ proc = [p \in Procs |-> Idle]
  /\ sessions = {}
  /\ busy = {}
  /\ mails = [r \in Requests |-> {}]
  /\ progress = [r \in Requests |-> 0]
  /\ attempts = [r \in Requests |-> 0]

-----------------------------------------------------------------------------
(***************************************************************************)
(* The queue.  A message stays until a worker has handled it; it may be    *)
(* delivered again while an earlier delivery is still being worked on.     *)
(***************************************************************************)
owner == <<mails, progress>>
service == <<sessions, busy, attempts>>
queue == <<message, received>>

Request(r) ==
  /\ message[r] = "none"
  /\ message' = [message EXCEPT ![r] = "queued"]
  /\ UNCHANGED <<received, status, token, proc, service, owner>>

Deliver(p, r) ==
  /\ proc[p].pc = "idle" /\ message[r] = "queued" /\ received[r] < MaxReceive
  /\ received' = [received EXCEPT ![r] = @ + 1]
  /\ proc' = [proc EXCEPT ![p] = [pc |-> "mint", req |-> r, name |-> received[r] + 1,
                                  posts |-> 0]]
  /\ UNCHANGED <<message, status, token, service, owner>>

Workers(r) == {p \in Procs : proc[p].req = r /\ proc[p].pc \notin {"claim", "report"}}

DeadLetter(r) ==
  /\ message[r] = "queued" /\ received[r] = MaxReceive /\ Workers(r) = {}
  /\ message' = [message EXCEPT ![r] = "dead"]
  /\ UNCHANGED <<received, status, token, proc, service, owner>>

\* The handler returns: without a failure the message is deleted, with one it
\* stays and becomes visible again.
Return(p) == proc' = [proc EXCEPT ![p] = Idle]
Done(p) == Return(p) /\ message' = [message EXCEPT ![proc[p].req] = "gone"]
GoTo(p, pc) == proc' = [proc EXCEPT ![p].pc = pc]

\* A status that cannot be written is ignored.
SetStatus(p, value) ==
  \/ status' = [status EXCEPT ![proc[p].req] = value]
  \/ "lostStatus" \in Faults /\ UNCHANGED status

-----------------------------------------------------------------------------
(***************************************************************************)
(* The worker.                                                             *)
(***************************************************************************)
\* Mutant: every delivery mints a token of its own.
MintOver(p) ==
  /\ proc[p].pc = "mint"
  /\ token' = [token EXCEPT ![proc[p].req] = [name |-> proc[p].name, posts |-> 0]]
  /\ GoTo(p, "prepare")
  /\ UNCHANGED <<queue, status, service, owner>>

\* The create-only write of the token row comes first; a delivery that finds
\* the row takes itself for a duplicate.
Mint(p) ==
  LET r == proc[p].req IN
  /\ proc[p].pc = "mint"
  /\ \/ /\ token[r] = NoToken
        /\ token' = [token EXCEPT ![r] = [name |-> proc[p].name, posts |-> 0]]
        /\ GoTo(p, "prepare") /\ UNCHANGED message
     \/ /\ token[r] # NoToken
        /\ Done(p) /\ UNCHANGED token
  /\ UNCHANGED <<received, status, service, owner>>

\* The rewrite of the instructions may be asked for; its outcome changes the
\* prompt and nothing else.
Preprocess(p) ==
  /\ proc[p].pc = "prepare" /\ status[proc[p].req] # "preprocessing"
  /\ SetStatus(p, "preprocessing")
  /\ UNCHANGED <<queue, token, proc, service, owner>>

Assemble(p) ==
  /\ proc[p].pc = "prepare"
  /\ SetStatus(p, "launching")
  /\ GoTo(p, "launch")
  /\ UNCHANGED <<queue, token, service, owner>>

\* The service refuses a repository whose run it takes for running, and may
\* refuse for reasons of its own.  An upstream error says nothing about what
\* happened: nothing did, or the answer was lost.
Launch(p) ==
  LET r == proc[p].req
      start == /\ Repo[r] \notin busy
               /\ sessions' = sessions \cup {[req |-> r, name |-> proc[p].name]}
               /\ busy' = busy \cup {Repo[r]}
  IN
  /\ proc[p].pc = "launch"
  /\ \/ start /\ GoTo(p, "started")
     \/ "lostAnswer" \in Faults /\ start /\ GoTo(p, "upstream")
     \/ UNCHANGED <<sessions, busy>> /\ GoTo(p, "upstream")
     \/ UNCHANGED <<sessions, busy>> /\ GoTo(p, "refused")
  /\ attempts' = [attempts EXCEPT ![r] = @ + 1]
  /\ UNCHANGED <<queue, status, token, owner>>

Record(p, from, to, value) ==
  /\ proc[p].pc = from
  /\ SetStatus(p, value)
  /\ GoTo(p, to)
  /\ UNCHANGED <<queue, token, service, owner>>

RecordStarted(p) == Record(p, "started", "tellStarted", "launched")
RecordRefused(p) == Record(p, "refused", "tellRefused", "failed")
RecordUpstream(p) == Record(p, "upstream", "tellUpstream", "failed")

\* A mail that cannot be queued is logged and forgotten.
Mail(p, what) ==
  /\ \/ mails' = [mails EXCEPT ![proc[p].req] = @ \cup {what}]
     \/ "lostMail" \in Faults /\ UNCHANGED mails
  /\ UNCHANGED progress

TellStarted(p) ==
  /\ proc[p].pc = "tellStarted" /\ Mail(p, "started") /\ Done(p)
  /\ UNCHANGED <<received, status, token, service>>

\* Mutant: a permanent failure is dropped without a word.
TellRefusedSilently(p) ==
  /\ proc[p].pc = "tellRefused" /\ Done(p)
  /\ UNCHANGED <<received, status, token, service, owner>>

TellRefused(p) ==
  /\ proc[p].pc = "tellRefused" /\ Mail(p, "failed") /\ Done(p)
  /\ UNCHANGED <<received, status, token, service>>

\* An upstream error is told and then returned to the queue.
TellUpstream(p) ==
  /\ proc[p].pc = "tellUpstream" /\ Mail(p, "failed") /\ Return(p)
  /\ UNCHANGED <<queue, status, token, service>>

-----------------------------------------------------------------------------
(***************************************************************************)
(* The session reports.  The handler verifies the token against the row    *)
(* and then claims one of the posts before it sends the mail.              *)
(***************************************************************************)
PostRead(p, s) ==
  /\ proc[p].pc = "idle" /\ s \in sessions
  /\ token[s.req] # NoToken /\ token[s.req].name = s.name
  /\ proc' = [proc EXCEPT ![p] = [pc |-> "claim", req |-> s.req, name |-> s.name,
                                  posts |-> token[s.req].posts]]
  /\ UNCHANGED <<queue, status, token, service, owner>>

\* Mutant: the bound is checked on the row that was read.
PostClaimStale(p) ==
  LET r == proc[p].req IN
  /\ proc[p].pc = "claim"
  /\ IF proc[p].posts < MaxPosts
     THEN token' = [token EXCEPT ![r].posts = proc[p].posts + 1] /\ GoTo(p, "report")
     ELSE Return(p) /\ UNCHANGED token
  /\ UNCHANGED <<queue, status, service, owner>>

PostClaim(p) ==
  LET r == proc[p].req IN
  /\ proc[p].pc = "claim"
  /\ IF token[r].posts < MaxPosts
     THEN token' = [token EXCEPT ![r].posts = @ + 1] /\ GoTo(p, "report")
     ELSE Return(p) /\ UNCHANGED token
  /\ UNCHANGED <<queue, status, service, owner>>

PostMail(p) ==
  /\ proc[p].pc = "report"
  /\ \/ progress' = [progress EXCEPT ![proc[p].req] = @ + 1]
     \/ "lostMail" \in Faults /\ UNCHANGED progress
  /\ Return(p)
  /\ UNCHANGED <<queue, status, token, service, mails>>

-----------------------------------------------------------------------------
\* A store call that fails returns the message; an invocation that dies leaves
\* it there: both end the process and change nothing.
Crash(p) ==
  /\ "crash" \in Faults /\ proc[p].pc # "idle"
  /\ Return(p)
  /\ UNCHANGED <<queue, status, token, service, owner>>

\* The run ends, or its grace period does.
RunEnds(repo) ==
  /\ repo \in busy
  /\ busy' = busy \ {repo}
  /\ UNCHANGED <<queue, status, token, proc, sessions, attempts, owner>>

Dispatch(p) ==
  Mint(p) \/ Preprocess(p) \/ Assemble(p) \/ Launch(p) \/ RecordStarted(p)
    \/ RecordRefused(p) \/ RecordUpstream(p) \/ TellStarted(p) \/ TellRefused(p)
    \/ TellUpstream(p)

Post(p) == (\E s \in sessions : PostRead(p, s)) \/ PostClaim(p) \/ PostMail(p)

Next ==
  \/ \E r \in Requests : Request(r) \/ DeadLetter(r) \/ \E p \in Procs : Deliver(p, r)
  \/ \E p \in Procs : Dispatch(p) \/ Post(p) \/ Crash(p)
  \/ \E repo \in Repos : RunEnds(repo)

Spec == Init /\ [][Next]_vars

\* The event source polls the queue and a handler that runs comes to an end.
Fairness ==
  /\ \A r \in Requests : WF_vars(DeadLetter(r)) /\ SF_vars(\E p \in Procs : Deliver(p, r))
  /\ \A p \in Procs : WF_vars(Dispatch(p)) /\ WF_vars(PostClaim(p) \/ PostMail(p))

FairSpec == Spec /\ Fairness

-----------------------------------------------------------------------------
(***************************************************************************)
(* Properties.                                                             *)
(***************************************************************************)
SessionsOf(r) == {s \in sessions : s.req = r}

\* However often a request is delivered, and however the deliveries overlap,
\* at most one session is started for it.
OneSession == \A s, t \in sessions : s.req = t.req => s = t

\* The token in a session's prompt is the one in the table: no later delivery
\* takes it from the session.
TokensLive == \A s \in sessions : token[s.req].name = s.name

\* A run sends at most MaxPosts progress mails, however its posts overlap.
ProgressBounded == \A r \in Requests : progress[r] <= MaxPosts

\* The owner is told about a request at most once, and neither the mail nor the
\* record says started of a session that was not started.
ToldOnce ==
  \A r \in Requests :
    /\ Cardinality(mails[r]) <= 1
    /\ "started" \in mails[r] \/ status[r] = "launched" => SessionsOf(r) # {}

\* A request whose worker is gone before a session was started, because it was
\* killed or because the service failed, is attempted again or kept for an
\* operator.
Stranded(r) ==
  message[r] = "queued" /\ token[r] # NoToken /\ Workers(r) = {} /\ SessionsOf(r) = {}

Retried ==
  \A r \in Requests : \A n \in 0..MaxReceive :
    (Stranded(r) /\ attempts[r] = n) ~> (attempts[r] > n \/ message[r] = "dead")
===============================================================================
