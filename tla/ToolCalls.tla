------------------------------ MODULE ToolCalls ------------------------------
(***************************************************************************)
(* Calls of tools with side effects: send_email, which puts a message on   *)
(* the queue of mails, and ghost_session_command, which needs a proposal   *)
(* that was read back to the owner.  A client that gets no answer posts    *)
(* the same call again, under the same idempotency key; the tool router    *)
(* claims the key before the handler runs and gives it back only if the    *)
(* handler failed before its effect.  The mails are sent by dispatchers    *)
(* that take batches from a queue that delivers at least once.             *)
(*                                                                         *)
(* Every call to a store or a service may fail, or take effect although    *)
(* its answer is lost; a handler may end between any two of them.          *)
(***************************************************************************)
EXTENDS Naturals, FiniteSets

CONSTANTS
  Routers,     \* invocations of the tool router at the same time
  Dispatchers, \* invocations of email-dispatch at the same time
  ToolUses,    \* calls, each known by its idempotency key
  Proposals,   \* identifiers of proposals
  Arguments,   \* arguments of a command
  Mails,       \* identifiers of queued messages
  Tools,       \* tools that are called: "send_email", "command"
  MaxPosts,    \* posts of one call
  MaxReceives, \* deliveries of one message (maxReceiveCount)
  CallFaults,  \* "die": a handler ends early; "lost": a call fails or its answer is lost
  NoAsk, NoCall, NoProposal

ASSUME ToolCallsAssumption ==
  /\ Tools \subseteq {"send_email", "command"}
  /\ NoCall \notin ToolUses /\ NoProposal \notin Proposals
  /\ {"idle", "claim"} \cap Mails = {} \* a dispatcher's pc is one of them, or a message
  /\ MaxPosts \in Nat /\ MaxReceives \in Nat

VARIABLES
  asked,      \* what each call asks for; the same in every post of it
  posts,      \* how often each call was posted
  router,     \* what each invocation of the router is doing
  claimed,    \* idempotency keys that are claimed
  proposal,   \* the rows of proposals: their arguments and whether they are there
  commanded,  \* commands that were sent to the fleet for each call
  mail,       \* the queue: the call of each message and whether it is there
  sent,       \* mails that were sent for each message
  dispatched, \* messages that a dispatcher has claimed
  dispatcher  \* what each dispatcher is doing

requestVars == <<asked, posts, router, claimed, proposal, commanded>>
queueVars == <<mail, sent, dispatched, dispatcher>>
toolVars == <<requestVars, queueVars>>

Mailing == [tool |-> "send_email"]
Proposing == [tool : {"propose"}, args : Arguments]
Confirming == [tool : {"confirm"}, args : Arguments, proposal : Proposals]
Asks == {Mailing} \cup Proposing \cup Confirming

NoInvocation == [pc |-> "idle", call |-> NoCall]
NoBatch == [pc |-> "idle", batch |-> {}, left |-> {}, failed |-> FALSE]
Unborn == [state |-> "unborn", args |-> NoAsk]
NoMail == [state |-> "unborn", call |-> NoCall, receives |-> 0]

ToolsTypeOK ==
  /\ asked \in [ToolUses -> Asks \cup {NoAsk}]
  /\ posts \in [ToolUses -> 0 .. MaxPosts] /\ claimed \subseteq ToolUses
  /\ router \in [Routers -> [pc : {"idle", "handle", "consume", "command", "release"},
                             call : ToolUses \cup {NoCall}]]
  /\ proposal \in [Proposals -> [state : {"unborn", "open", "expired", "gone"},
                                 args : Arguments \cup {NoAsk}]]
  /\ commanded \in [ToolUses -> Nat]
  /\ mail \in [Mails -> [state : {"unborn", "queued", "done"}, call : ToolUses \cup {NoCall},
                         receives : 0 .. MaxReceives]]
  /\ sent \in [Mails -> Nat] /\ dispatched \subseteq Mails
  /\ dispatcher \in [Dispatchers -> [pc : {"idle", "claim"} \cup Mails, batch : SUBSET Mails,
                                     left : SUBSET Mails, failed : BOOLEAN]]

ToolsInit ==
  /\ asked = [c \in ToolUses |-> NoAsk] /\ posts = [c \in ToolUses |-> 0]
  /\ router = [r \in Routers |-> NoInvocation] /\ claimed = {}
  /\ proposal = [p \in Proposals |-> Unborn]
  /\ commanded = [c \in ToolUses |-> 0]
  /\ mail = [m \in Mails |-> NoMail] /\ sent = [m \in Mails |-> 0] /\ dispatched = {}
  /\ dispatcher = [d \in Dispatchers |-> NoBatch]

-----------------------------------------------------------------------------
(***************************************************************************)
(* The tool router.                                                        *)
(***************************************************************************)
Wanted(r) == asked[router[r].call]
In(r, pc) == router[r].pc = pc
Route(r, pc) == router' = [router EXCEPT ![r].pc = pc]
Replies(r) == router' = [router EXCEPT ![r] = NoInvocation]

\* Mutant: the key is given back after a call whose outcome is unknown, too.
ReleasableAlways(code) == code # "ok"

\* Codes that a handler returns only before its effect.
Releasable(code) ==
  code \in {"invalid_args", "forbidden", "not_found", "already_exists", "not_configured",
            "confirmation_required"}

\* The handler returns, and the router gives its key back or answers.
Ends(r, code) == IF Releasable(code) THEN Route(r, "release") ELSE Replies(r)

\* What can be asked for: a confirmation names a proposal that was issued.
Askable(a) ==
  \/ a = Mailing /\ "send_email" \in Tools
  \/ a \in Proposing /\ "command" \in Tools
  \/ a \in Confirming /\ "command" \in Tools /\ proposal[a.proposal].state # "unborn"

\* A post: the key is claimed, or it was and the post is a duplicate, or the claim
\* fails, whether or not it was written.
Invoke(r, c) ==
  /\ In(r, "idle") /\ posts[c] < MaxPosts
  /\ posts' = [posts EXCEPT ![c] = @ + 1]
  /\ \E a \in Asks :
       /\ IF posts[c] = 0 THEN Askable(a) ELSE asked[c] = a
       /\ asked' = [asked EXCEPT ![c] = a]
  /\ \/ c \in claimed /\ UNCHANGED <<router, claimed>>
     \/ /\ c \notin claimed /\ claimed' = claimed \cup {c}
        /\ \/ router' = [router EXCEPT ![r] = [pc |-> "handle", call |-> c]]
           \/ "lost" \in CallFaults /\ UNCHANGED router
  /\ UNCHANGED <<proposal, commanded, queueVars>>

\* The handler refuses, or cannot check what it has to, before it has any effect.
Refuse(r) ==
  /\ In(r, "handle")
  /\ \E code \in {"invalid_args", "not_found", "confirmation_required", "upstream_error"} :
       Ends(r, code)
  /\ UNCHANGED <<asked, posts, claimed, proposal, commanded, queueVars>>

\* The message is queued, or not, and the answer says so, or not.
SendEmail(r) ==
  /\ In(r, "handle") /\ Wanted(r) = Mailing
  /\ \/ \E m \in Mails, code \in {"ok", "upstream_error"} :
          /\ mail[m].state = "unborn"
          /\ code = "ok" \/ "lost" \in CallFaults
          /\ mail' = [mail EXCEPT ![m] = [NoMail EXCEPT !.state = "queued", !.call = router[r].call]]
          /\ Ends(r, code)
     \/ "lost" \in CallFaults /\ Ends(r, "upstream_error") /\ UNCHANGED mail
  /\ UNCHANGED <<asked, posts, claimed, proposal, commanded, sent, dispatched, dispatcher>>

\* A command without a confirmation is recorded as a proposal and read back.
IssueProposal(r) ==
  /\ In(r, "handle") /\ Wanted(r).tool = "propose"
  /\ \E p \in Proposals, code \in {"confirmation_required", "upstream_error"} :
       /\ proposal[p].state = "unborn"
       /\ code = "confirmation_required" \/ "lost" \in CallFaults
       /\ proposal' = [proposal EXCEPT ![p] = [state |-> "open", args |-> Wanted(r).args]]
       /\ Ends(r, code)
  /\ UNCHANGED <<asked, posts, claimed, commanded, queueVars>>

ExpireProposal(p) ==
  /\ \/ /\ proposal[p].state = "open"
        /\ proposal' = [proposal EXCEPT ![p].state = "expired"]
     \/ /\ proposal[p].state = "expired"
        /\ proposal' = [proposal EXCEPT ![p].state = "gone"]
  /\ UNCHANGED <<asked, posts, router, claimed, commanded, queueVars>>

\* A confirmed command: the proposal is there, has not expired and has its arguments.
ReadProposal(r) ==
  LET p == proposal[Wanted(r).proposal] IN
  /\ In(r, "handle") /\ Wanted(r).tool = "confirm"
  /\ \/ p.state \in {"expired", "gone"} /\ Ends(r, "not_found")
     \/ p.state = "open" /\ p.args # Wanted(r).args /\ Ends(r, "invalid_args")
     \/ p.state = "open" /\ p.args = Wanted(r).args /\ Route(r, "consume")
     \/ "lost" \in CallFaults /\ Ends(r, "upstream_error")
  /\ UNCHANGED <<asked, posts, claimed, proposal, commanded, queueVars>>

\* It is deleted before the command, and only if it still is what was read.  An
\* answer that is lost may be taken for another's use, when the deletion is repeated.
ConsumeProposal(r) ==
  LET p == Wanted(r).proposal
      held == proposal[p].state \in {"open", "expired"} /\ proposal[p].args = Wanted(r).args
  IN
  /\ In(r, "consume")
  /\ \/ /\ held /\ proposal' = [proposal EXCEPT ![p].state = "gone"]
        /\ \/ Route(r, "command")
           \/ /\ "lost" \in CallFaults
              /\ \E code \in {"already_exists", "upstream_error"} : Ends(r, code)
     \/ ~held /\ Ends(r, "already_exists") /\ UNCHANGED proposal
     \/ "lost" \in CallFaults /\ Ends(r, "upstream_error") /\ UNCHANGED proposal
  /\ UNCHANGED <<asked, posts, claimed, commanded, queueVars>>

\* The fleet takes the command, or refuses it, or nobody knows.
Command(r) ==
  /\ In(r, "command")
  /\ \/ /\ commanded' = [commanded EXCEPT ![router[r].call] = @ + 1]
        /\ \E code \in {"ok", "upstream_error"} : Ends(r, code)
     \/ /\ UNCHANGED commanded
        /\ \E code \in {"invalid_args", "not_configured", "upstream_error"} : Ends(r, code)
  /\ UNCHANGED <<asked, posts, claimed, proposal, queueVars>>

\* Giving the key back is best effort.
ReleaseIdempotency(r) ==
  /\ In(r, "release")
  /\ \/ claimed' = claimed \ {router[r].call}
     \/ "lost" \in CallFaults /\ UNCHANGED claimed
  /\ Replies(r)
  /\ UNCHANGED <<asked, posts, proposal, commanded, queueVars>>

RouterDies(r) ==
  /\ "die" \in CallFaults /\ ~In(r, "idle") /\ Replies(r)
  /\ UNCHANGED <<asked, posts, claimed, proposal, commanded, queueVars>>

RouterStep(r) ==
  \/ \E c \in ToolUses : Invoke(r, c)
  \/ Refuse(r) \/ SendEmail(r) \/ IssueProposal(r)
  \/ ReadProposal(r) \/ ConsumeProposal(r) \/ Command(r)
  \/ ReleaseIdempotency(r) \/ RouterDies(r)

-----------------------------------------------------------------------------
(***************************************************************************)
(* The dispatchers of mail.                                                *)
(***************************************************************************)
Queued == {m \in Mails : mail[m].state = "queued"}

\* A batch, of which some messages may be with another dispatcher.
Receive(d, batch) ==
  /\ dispatcher[d].pc = "idle" /\ batch # {} /\ batch \subseteq Queued
  /\ \A m \in batch : mail[m].receives < MaxReceives
  /\ mail' = [m \in Mails |-> IF m \in batch THEN [mail[m] EXCEPT !.receives = @ + 1] ELSE mail[m]]
  /\ dispatcher' = [dispatcher EXCEPT ![d] =
                      [pc |-> "claim", batch |-> batch, left |-> batch, failed |-> FALSE]]
  /\ UNCHANGED <<requestVars, sent, dispatched>>

Dispatching(d, pc, left, failed) ==
  dispatcher' = [dispatcher EXCEPT ![d].pc = pc, ![d].left = left, ![d].failed = @ \/ failed]

\* A message is claimed before it is sent; one that was claimed is passed over.
ProcessRecord(d, m) ==
  LET left == dispatcher[d].left \ {m} IN
  /\ dispatcher[d].pc = "claim" /\ m \in dispatcher[d].left
  /\ \/ m \in dispatched /\ Dispatching(d, "claim", left, FALSE) /\ UNCHANGED dispatched
     \/ /\ m \notin dispatched /\ dispatched' = dispatched \cup {m}
        /\ \/ Dispatching(d, m, left, FALSE)
           \/ "lost" \in CallFaults /\ Dispatching(d, "claim", left, TRUE)
  /\ UNCHANGED <<requestVars, mail, sent>>

SendMail(d) ==
  LET m == dispatcher[d].pc IN
  /\ m \in Mails
  /\ \E done, failed \in BOOLEAN :
       /\ "lost" \in CallFaults \/ (done /\ ~failed)
       /\ done \/ failed
       /\ sent' = IF done THEN [sent EXCEPT ![m] = @ + 1] ELSE sent
       /\ Dispatching(d, "claim", dispatcher[d].left, failed)
  /\ UNCHANGED <<requestVars, mail, dispatched>>

\* The batch leaves the queue if no message of it failed.
EndBatch(d) ==
  /\ dispatcher[d].pc = "claim" /\ dispatcher[d].left = {}
  /\ mail' = [m \in Mails |-> IF m \in dispatcher[d].batch /\ ~dispatcher[d].failed
                              THEN [mail[m] EXCEPT !.state = "done"] ELSE mail[m]]
  /\ dispatcher' = [dispatcher EXCEPT ![d] = NoBatch]
  /\ UNCHANGED <<requestVars, sent, dispatched>>

DispatcherDies(d) ==
  /\ "die" \in CallFaults /\ dispatcher[d].pc # "idle"
  /\ dispatcher' = [dispatcher EXCEPT ![d] = NoBatch]
  /\ UNCHANGED <<requestVars, mail, sent, dispatched>>

DispatcherStep(d) ==
  \/ \E batch \in SUBSET Mails : Receive(d, batch)
  \/ \E m \in Mails : ProcessRecord(d, m)
  \/ SendMail(d) \/ EndBatch(d) \/ DispatcherDies(d)

ToolsNext ==
  \/ \E r \in Routers : RouterStep(r)
  \/ \E d \in Dispatchers : DispatcherStep(d)
  \/ \E p \in Proposals : ExpireProposal(p)

ToolsSpec == ToolsInit /\ [][ToolsNext]_toolVars

-----------------------------------------------------------------------------
(***************************************************************************)
(* Properties.                                                             *)
(***************************************************************************)
\* The effects of a call: messages it queued, commands it sent.
Effects(c) == Cardinality({m \in Mails : mail[m].call = c}) + commanded[c]

\* However often a call is posted, alone or at the same time, it has one effect.
CalledOnce == \A c \in ToolUses : Effects(c) <= 1

\* A command is one that was read back, and a proposal yields one command, also if
\* several calls confirm it.
CommandReadBack ==
  \A c \in ToolUses : commanded[c] > 0 =>
    /\ proposal[asked[c].proposal].args = asked[c].args
    /\ \A b \in ToolUses \ {c} :
         commanded[b] > 0 => asked[b].proposal # asked[c].proposal

\* A message is mailed once, however often and to whomever the queue delivers it.
MailedOnce == \A m \in Mails : sent[m] <= 1

\* What cannot be taken back is done once: a command of the owner's, a mail.
EffectsOnce == CalledOnce /\ CommandReadBack /\ MailedOnce
===============================================================================
