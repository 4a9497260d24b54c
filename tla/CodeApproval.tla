---------------------------- MODULE CodeApproval ----------------------------
(***************************************************************************)
(* One reviewed coding intention of the owner (internal/codeapproval).     *)
(* Prepare creates the row under an identifier that the client chose, and  *)
(* finds it again when it is repeated; Approve records one receipt in it.  *)
(* The row expires, is kept for its retention and then removed, after      *)
(* which the same identifier prepares a new generation.  The hash a client *)
(* approves covers the content, which a generation never changes, so a     *)
(* hash is modelled by the generation.                                     *)
(***************************************************************************)
EXTENDS Naturals

CONSTANTS
  Approvers,       \* handlers that run at the same time
  ApprovalIds,     \* request identifiers of approvals
  MaxGenerations,  \* bound on the intents prepared under one identifier
  NoIntent, NoReceipt

ASSUME ApprovalAssumption ==
  MaxGenerations \in Nat /\ NoReceipt \notin [req : ApprovalIds, version : {1, 2}]

VARIABLES
  intent,     \* the row CODEAPPROVAL#<id>
  made,       \* generations drawn so far
  owner,      \* whether the profile is an active owner
  approver,   \* what each handler is doing, and for which request
  receipts,   \* history: approvals that were recorded
  confirmed   \* history: approvals that were answered with success

approvalVars == <<intent, made, owner, approver, receipts, confirmed>>

\* What a client approves: the hash and version it was shown, under an identifier.
Approval == [gen : 1..MaxGenerations, version : {1, 2}, req : ApprovalIds]

Ready == [pc |-> "ready", gen |-> 0, version |-> 0, req |-> NoReceipt]

Enter(p, pc, k) ==
  approver' = [approver EXCEPT ![p] = [pc |-> pc, gen |-> k.gen, version |-> k.version, req |-> k.req]]
Depart(p) == approver' = [approver EXCEPT ![p] = Ready]
Asked(p) == [gen |-> approver[p].gen, version |-> approver[p].version, req |-> approver[p].req]

\* A row whose retention is over counts as gone, also before it is removed.
Readable == intent # NoIntent /\ intent.age # "retired"

ApprovalInit ==
  /\ intent = NoIntent /\ made = 0 /\ owner = TRUE
  /\ approver = [p \in Approvers |-> Ready]
  /\ receipts = {} /\ confirmed = {}

-----------------------------------------------------------------------------
\* A repeated request for the same content is shown the row, one for other content
\* is refused: neither changes anything.
Prepare(p) ==
  /\ approver[p].pc = "ready" /\ ~ Readable /\ made < MaxGenerations
  /\ made' = made + 1
  /\ Enter(p, "create", [gen |-> made + 1, version |-> 0, req |-> NoReceipt])
  /\ UNCHANGED <<intent, owner, receipts, confirmed>>

\* The owner is checked in the same transaction.
CreateIntent(p) ==
  /\ approver[p].pc = "create"
  /\ intent' = IF owner /\ intent = NoIntent
               THEN [gen |-> approver[p].gen, version |-> 1, receipt |-> NoReceipt, age |-> "fresh"]
               ELSE intent
  /\ Depart(p)
  /\ UNCHANGED <<made, owner, receipts, confirmed>>

\* Mutant: the hash is not compared.
MatchesAny(k) == TRUE

Matches(k) == intent.gen = k.gen

\* The receipt of an exact repetition, which is given out also after the expiry.
Repeats(k) == Readable /\ Matches(k) /\ intent.receipt = [req |-> k.req, version |-> k.version]

Recall(p, k) ==
  /\ approver[p].pc = "ready" /\ Repeats(k)
  /\ confirmed' = confirmed \cup {k}
  /\ UNCHANGED <<intent, made, owner, approver, receipts>>

Approve(p, k) ==
  /\ approver[p].pc = "ready" /\ Readable /\ Matches(k)
  /\ intent.receipt = NoReceipt /\ intent.version = k.version /\ intent.age = "fresh"
  /\ Enter(p, "swap", k)
  /\ UNCHANGED <<intent, made, owner, receipts, confirmed>>

\* Mutant: the write compares the hash alone.
SwapsHash(k) == intent # NoIntent /\ intent.gen = k.gen

Swaps(k) == intent # NoIntent /\ intent.version = k.version /\ intent.gen = k.gen

Swap(p) ==
  LET k == Asked(p) IN
  /\ approver[p].pc = "swap"
  /\ \/ /\ owner /\ Swaps(k)
        /\ intent' = [gen |-> intent.gen, version |-> k.version + 1,
                      receipt |-> [req |-> k.req, version |-> k.version], age |-> intent.age]
        /\ receipts' = receipts \cup {k}
        /\ Enter(p, "answer", k)
     \/ owner /\ ~ Swaps(k) /\ Enter(p, "reload", k) /\ UNCHANGED <<intent, receipts>>
     \/ ~ owner /\ Depart(p) /\ UNCHANGED <<intent, receipts>>
  /\ UNCHANGED <<made, owner, confirmed>>

\* The loser of the race looks whether the winner was a copy of its own request.
Confirm(p) ==
  /\ approver[p].pc \in {"answer", "reload"}
  /\ confirmed' = IF approver[p].pc = "answer" \/ Repeats(Asked(p))
                  THEN confirmed \cup {Asked(p)} ELSE confirmed
  /\ Depart(p)
  /\ UNCHANGED <<intent, made, owner, receipts>>

\* The handler dies or its answer is lost.
Abort(p) ==
  /\ approver[p].pc # "ready" /\ Depart(p)
  /\ UNCHANGED <<intent, made, owner, receipts, confirmed>>

\* The review expires, its retention ends, and the row is removed some time later.
Age ==
  /\ intent # NoIntent
  /\ \/ intent.age = "fresh" /\ intent' = [intent EXCEPT !.age = "expired"]
     \/ intent.age = "expired" /\ intent' = [intent EXCEPT !.age = "retired"]
     \/ intent.age = "retired" /\ intent' = NoIntent
  /\ UNCHANGED <<made, owner, approver, receipts, confirmed>>

SetOwner == owner' = ~ owner /\ UNCHANGED <<intent, made, approver, receipts, confirmed>>

ApprovalNext ==
  \/ \E p \in Approvers :
       \/ Prepare(p) \/ CreateIntent(p) \/ Swap(p) \/ Confirm(p) \/ Abort(p)
       \/ \E k \in Approval : Approve(p, k) \/ Recall(p, k)
  \/ Age \/ SetOwner

ApprovalSpec == ApprovalInit /\ [][ApprovalNext]_approvalVars

-----------------------------------------------------------------------------
IntentRow ==
  [gen : 1..MaxGenerations, version : {1, 2},
   receipt : {NoReceipt} \cup [req : ApprovalIds, version : {1, 2}],
   age : {"fresh", "expired", "retired"}]

\* The types.
ApprovalTypeOK ==
  /\ intent \in IntentRow \cup {NoIntent}
  /\ made \in 0..MaxGenerations /\ owner \in BOOLEAN
  /\ approver \in [Approvers -> [pc : {"ready", "create", "swap", "answer", "reload"},
                                gen : 0..MaxGenerations, version : 0..2,
                                req : ApprovalIds \cup {NoReceipt}]]
  /\ receipts \subseteq Approval /\ confirmed \subseteq Approval

\* One approval is recorded of a generation, and whoever is told that an approval
\* was recorded approved that generation under that identifier: copies of a request
\* find its receipt, the loser of a race and the holder of an older review do not
\* (service.go, Approve).
ApprovedAsReviewed ==
  /\ \A j, k \in receipts : j.gen = k.gen => j = k
  /\ confirmed \subseteq receipts
===============================================================================
