---------------------------- MODULE ServicesProofs ----------------------------
(***************************************************************************)
(* Proofs about four services that share no state: the approval of coding  *)
(* intentions, the settings of an account, the analyses of failures, and   *)
(* the history of an account.                                              *)
(*                                                                         *)
(* Approval.  A generation lives once: it is drawn by one invocation, and  *)
(* before its row is written, and as long as the row has version 1, no     *)
(* receipt names it.  The write of a receipt takes the row from version 1  *)
(* to version 2, so there is one receipt of a generation.                  *)
(*                                                                         *)
(* Settings.  A version of the document is written once: whoever has       *)
(* prepared the same one has lost.  What a handler that can still win is   *)
(* about to write respects the purges so far, because they had to move the *)
(* version on.                                                             *)
(*                                                                         *)
(* Analyses.  An analysis is a failure with the instant at which its       *)
(* delivery was taken.  Whoever finds the cooldown of a signature free is  *)
(* later than every claim of it by more than a cooldown, so claims of a    *)
(* signature lie that far apart and an analysis is claimed once.  Only who *)
(* claimed it asks and reports, once, and the units reserved in a day are  *)
(* as many as the analyses of that day that asked.                         *)
(*                                                                         *)
(* History.  The key of a conversation is the session with the time of its *)
(* claim, and no claim is renewed.  A conversation is filed under a topic  *)
(* before it is written with it.  It leaves a topic by a request whose     *)
(* destination is recorded before anything moves, and only after it was    *)
(* filed there.  The count of a topic trails its references by those that  *)
(* a running handler has yet to count, and by those whose handler ended    *)
(* before it could.                                                        *)
(***************************************************************************)
EXTENDS SettingsSync, CodeApproval, RootCause, Topics, FiniteSetTheorems, TLAPS

-----------------------------------------------------------------------------
(***************************************************************************)
(* The approval of coding intentions.                                      *)
(***************************************************************************)
\* No receipt names the generation g.
Unapproved(g) == \A k \in receipts : k.gen # g

\* A row of version 2 carries the receipt that was recorded, one of version 1 none.
RowHolds ==
  intent # NoIntent =>
    /\ intent.gen <= made
    /\ intent.version = 1 => Unapproved(intent.gen) /\ intent.receipt = NoReceipt
    /\ intent.version = 2 =>
         \E k \in receipts :
           k.gen = intent.gen /\ intent.receipt = [req |-> k.req, version |-> k.version]

\* A generation that was drawn and has no row yet is in nobody else's hands.
Drawn(p) ==
  approver[p].pc = "create" =>
    /\ approver[p].gen \in 1..made /\ Unapproved(approver[p].gen)
    /\ \A q \in Approvers :
         q # p /\ approver[q].pc = "create" => approver[q].gen # approver[p].gen
    /\ intent # NoIntent => intent.gen # approver[p].gen

\* An approval that passed its checks is of version 1.
Passed(p) ==
  /\ approver[p].pc \in {"swap", "answer", "reload"} => Asked(p) \in Approval
  /\ approver[p].pc = "swap" => approver[p].version = 1
  /\ approver[p].pc = "answer" => Asked(p) \in receipts

ApprovalIInv ==
  /\ ApprovalTypeOK
  /\ RowHolds
  /\ \A p \in Approvers : Drawn(p) /\ Passed(p)
  /\ \A k \in receipts : k.gen <= made
  /\ ApprovedAsReviewed

USE ApprovalAssumption

-----------------------------------------------------------------------------
(***************************************************************************)
(* Handlers.                                                               *)
(***************************************************************************)
\* What a handler becomes when it enters a step.
LEMMA EnterHolds ==
  ASSUME ApprovalTypeOK, NEW p \in Approvers, NEW pc, NEW k, Enter(p, pc, k)
  PROVE  /\ approver'[p] = [pc |-> pc, gen |-> k.gen, version |-> k.version, req |-> k.req]
         /\ \A q \in Approvers : q # p => approver'[q] = approver[q]
  BY DEF ApprovalTypeOK, Enter

LEMMA DepartHolds ==
  ASSUME ApprovalTypeOK, NEW p \in Approvers, Depart(p)
  PROVE  /\ approver'[p] = Ready
         /\ \A q \in Approvers : q # p => approver'[q] = approver[q]
  BY DEF ApprovalTypeOK, Depart

\* A receipt that a row carries was recorded under that very approval.
LEMMA RepeatsRecorded ==
  ASSUME ApprovalIInv, NEW k \in Approval, Repeats(k)
  PROVE  k \in receipts
  <1>1. intent # NoIntent /\ intent \in IntentRow /\ intent.gen = k.gen
        /\ intent.receipt = [req |-> k.req, version |-> k.version]
    BY DEF ApprovalIInv, ApprovalTypeOK, Repeats, Readable, Matches
  <1>2. intent.version = 2
    <2>1. intent.receipt # NoReceipt
      BY <1>1 DEF Approval
    <2> QED
      BY <1>1, <2>1 DEF ApprovalIInv, RowHolds, IntentRow
  <1>3. PICK j \in receipts :
          j.gen = intent.gen /\ intent.receipt = [req |-> j.req, version |-> j.version]
    BY <1>1, <1>2 DEF ApprovalIInv, RowHolds
  <1>4. j \in Approval
    BY DEF ApprovalIInv, ApprovalTypeOK
  <1>5. j = k
    BY <1>1, <1>3, <1>4 DEF Approval
  <1> QED
    BY <1>5

-----------------------------------------------------------------------------
(***************************************************************************)
(* The steps.                                                              *)
(***************************************************************************)
LEMMA InitHolds == ApprovalInit => ApprovalIInv
  BY DEF ApprovalInit, ApprovalIInv, ApprovalTypeOK, Ready, RowHolds, Drawn, Passed, ApprovedAsReviewed

LEMMA PrepareHolds ==
  ASSUME ApprovalIInv, NEW p \in Approvers, Prepare(p)
  PROVE  ApprovalIInv'
  <1> DEFINE k == [gen |-> made + 1, version |-> 0, req |-> NoReceipt]
  <1>1. /\ approver'[p] = [pc |-> "create", gen |-> made + 1, version |-> 0, req |-> NoReceipt]
        /\ \A q \in Approvers : q # p => approver'[q] = approver[q]
    <2>1. Enter(p, "create", k)
      BY DEF Prepare
    <2> QED
      BY <2>1, EnterHolds DEF ApprovalIInv
  <1>2. made' = made + 1 /\ made + 1 \in 0..MaxGenerations /\ made \in Nat
    BY DEF ApprovalIInv, ApprovalTypeOK, Prepare
  <1>3. UNCHANGED <<intent, owner, receipts, confirmed>>
    BY DEF Prepare
  <1>4. ApprovalTypeOK'
    BY <1>2, <1>3 DEF ApprovalIInv, ApprovalTypeOK, Prepare, Enter, Approval
  <1>5. RowHolds'
    BY <1>2, <1>3 DEF ApprovalIInv, ApprovalTypeOK, RowHolds, Unapproved, IntentRow
  <1>6. \A k1 \in receipts' : k1.gen <= made'
    BY <1>2, <1>3 DEF ApprovalIInv, ApprovalTypeOK, Approval
  <1>7. ASSUME NEW q \in Approvers
        PROVE  Drawn(q)' /\ Passed(q)'
    <2>1. Unapproved(made + 1) /\ (intent # NoIntent => intent.gen # made + 1)
      BY <1>2 DEF ApprovalIInv, ApprovalTypeOK, RowHolds, Unapproved, IntentRow, Approval
    <2>2. \A r \in Approvers : approver[r].pc = "create" => approver[r].gen # made + 1
      BY <1>2 DEF ApprovalIInv, Drawn
    <2>3. CASE q = p
      BY <1>1, <1>2, <1>3, <2>1, <2>2, <2>3 DEF ApprovalIInv, Drawn, Passed, Unapproved
    <2>4. CASE q # p
      BY <1>1, <1>2, <1>3, <2>2, <2>4 DEF ApprovalIInv, Drawn, Passed, Unapproved, Asked
    <2> QED
      BY <2>3, <2>4
  <1>8. ApprovedAsReviewed'
    BY <1>3 DEF ApprovalIInv, ApprovedAsReviewed
  <1> QED
    BY <1>4, <1>5, <1>6, <1>7, <1>8 DEF ApprovalIInv

\* A handler ends; what was recorded may be answered.
LEMMA LeaveHolds ==
  ASSUME ApprovalIInv, NEW p \in Approvers, Depart(p),
         UNCHANGED <<intent, made, owner, receipts>>, confirmed' \subseteq confirmed \cup receipts
  PROVE  ApprovalIInv'
  <1>1. /\ approver'[p] = Ready
        /\ \A q \in Approvers : q # p => approver'[q] = approver[q]
    BY DepartHolds DEF ApprovalIInv
  <1>2. ApprovalTypeOK'
    BY DEF ApprovalIInv, ApprovalTypeOK, Depart, Ready
  <1>3. ASSUME NEW q \in Approvers
        PROVE  Drawn(q)' /\ Passed(q)'
    <2>1. CASE q = p
      BY <1>1, <2>1 DEF Drawn, Passed, Ready
    <2>2. CASE q # p
      BY <1>1, <2>2 DEF ApprovalIInv, Drawn, Passed, Unapproved, Asked, Ready
    <2> QED
      BY <2>1, <2>2
  <1>4. RowHolds' /\ ApprovedAsReviewed' /\ \A j \in receipts' : j.gen <= made'
    BY DEF ApprovalIInv, RowHolds, Unapproved, ApprovedAsReviewed
  <1> QED
    BY <1>2, <1>3, <1>4 DEF ApprovalIInv

LEMMA CreateIntentHolds ==
  ASSUME ApprovalIInv, NEW p \in Approvers, CreateIntent(p)
  PROVE  ApprovalIInv'
  <1> DEFINE row == [gen |-> approver[p].gen, version |-> 1, receipt |-> NoReceipt, age |-> "fresh"]
  <1>1. /\ approver'[p] = Ready
        /\ \A q \in Approvers : q # p => approver'[q] = approver[q]
    BY DepartHolds DEF ApprovalIInv, CreateIntent
  <1>2. UNCHANGED <<made, owner, receipts, confirmed>> /\ approver[p].pc = "create"
    BY DEF CreateIntent
  <1>3. intent' = intent \/ (intent = NoIntent /\ intent' = row)
    BY DEF CreateIntent
  <1>4. approver[p].gen \in 1..MaxGenerations /\ approver[p].gen <= made /\ Unapproved(approver[p].gen)
    BY <1>2 DEF ApprovalIInv, ApprovalTypeOK, Drawn
  <1>5. ApprovalTypeOK'
    <2>1. row \in IntentRow
      BY <1>4 DEF IntentRow
    <2>2. approver' \in [Approvers -> [pc : {"ready", "create", "swap", "answer", "reload"},
                                gen : 0..MaxGenerations, version : 0..2,
                                req : ApprovalIds \cup {NoReceipt}]]
      BY DEF ApprovalIInv, ApprovalTypeOK, CreateIntent, Depart, Ready
    <2> QED
      BY <1>2, <1>3, <2>1, <2>2 DEF ApprovalIInv, ApprovalTypeOK
  <1>6. RowHolds'
    BY <1>2, <1>3, <1>4 DEF ApprovalIInv, RowHolds, Unapproved
  <1>7. ASSUME NEW q \in Approvers
        PROVE  Drawn(q)' /\ Passed(q)'
    <2>1. CASE q = p
      BY <1>1, <2>1 DEF Drawn, Passed, Ready
    <2>2. CASE q # p
      BY <1>1, <1>2, <1>3, <2>2 DEF ApprovalIInv, Drawn, Passed, Unapproved, Asked, Ready
    <2> QED
      BY <2>1, <2>2
  <1>8. ApprovedAsReviewed' /\ \A k \in receipts' : k.gen <= made'
    BY <1>2 DEF ApprovalIInv, ApprovedAsReviewed
  <1> QED
    BY <1>5, <1>6, <1>7, <1>8 DEF ApprovalIInv

LEMMA RecallHolds ==
  ASSUME ApprovalIInv, NEW p \in Approvers, NEW k \in Approval, Recall(p, k)
  PROVE  ApprovalIInv'
  <1>1. k \in receipts /\ confirmed' = confirmed \cup {k}
        /\ UNCHANGED <<intent, made, owner, approver, receipts>>
    BY RepeatsRecorded DEF Recall
  <1> QED
    BY <1>1 DEF ApprovalIInv, ApprovalTypeOK, RowHolds, Drawn, Passed, Unapproved, Asked,
      ApprovedAsReviewed

LEMMA ApproveHolds ==
  ASSUME ApprovalIInv, NEW p \in Approvers, NEW k \in Approval, Approve(p, k)
  PROVE  ApprovalIInv'
  <1>1. /\ approver'[p] = [pc |-> "swap", gen |-> k.gen, version |-> k.version, req |-> k.req]
        /\ \A q \in Approvers : q # p => approver'[q] = approver[q]
    <2>1. Enter(p, "swap", k)
      BY DEF Approve
    <2> QED
      BY <2>1, EnterHolds DEF ApprovalIInv
  <1>2. UNCHANGED <<intent, made, owner, receipts, confirmed>>
    BY DEF Approve
  <1>3. k.version = 1
    <2>1. intent # NoIntent /\ intent \in IntentRow /\ intent.receipt = NoReceipt
          /\ intent.version = k.version
      BY DEF ApprovalIInv, ApprovalTypeOK, Approve, Readable
    <2>2. intent.version # 2
      <3>1. SUFFICES ASSUME intent.version = 2 PROVE FALSE
        OBVIOUS
      <3>2. PICK j \in receipts : intent.receipt = [req |-> j.req, version |-> j.version]
        BY <2>1, <3>1 DEF ApprovalIInv, RowHolds
      <3>3. j \in Approval
        BY DEF ApprovalIInv, ApprovalTypeOK
      <3> QED
        BY <2>1, <3>2, <3>3 DEF Approval
    <2> QED
      BY <2>1, <2>2 DEF IntentRow
  <1>4. ApprovalTypeOK'
    BY <1>2 DEF ApprovalIInv, ApprovalTypeOK, Approve, Enter, Approval
  <1>5. ASSUME NEW q \in Approvers
        PROVE  Drawn(q)' /\ Passed(q)'
    <2>1. CASE q = p
      <3>1. [gen |-> k.gen, version |-> k.version, req |-> k.req] = k
        BY DEF Approval
      <3> QED
        BY <1>1, <1>3, <2>1, <3>1 DEF Drawn, Passed, Asked
    <2>2. CASE q # p
      BY <1>1, <1>2, <2>2 DEF ApprovalIInv, Drawn, Passed, Unapproved, Asked
    <2> QED
      BY <2>1, <2>2
  <1>6. RowHolds' /\ ApprovedAsReviewed' /\ \A j \in receipts' : j.gen <= made'
    BY <1>2 DEF ApprovalIInv, RowHolds, Unapproved, ApprovedAsReviewed
  <1> QED
    BY <1>4, <1>5, <1>6 DEF ApprovalIInv

LEMMA SwapHolds ==
  ASSUME ApprovalIInv, NEW p \in Approvers, Swap(p)
  PROVE  ApprovalIInv'
  <1> DEFINE k == Asked(p)
  <1>1. k \in Approval /\ k.version = 1 /\ k.gen = approver[p].gen
    BY DEF ApprovalIInv, Passed, Swap, Asked
  <1>2. UNCHANGED <<made, owner, confirmed>> /\ owner \in BOOLEAN
    BY DEF ApprovalIInv, ApprovalTypeOK, Swap
  <1>3. CASE /\ owner /\ Swaps(k)
             /\ intent' = [gen |-> intent.gen, version |-> k.version + 1,
                           receipt |-> [req |-> k.req, version |-> k.version], age |-> intent.age]
             /\ receipts' = receipts \cup {k}
             /\ Enter(p, "answer", k)
    <2>1. /\ approver'[p] = [pc |-> "answer", gen |-> k.gen, version |-> k.version, req |-> k.req]
          /\ \A q \in Approvers : q # p => approver'[q] = approver[q]
      BY <1>3, EnterHolds DEF ApprovalIInv
    <2>2. intent \in IntentRow /\ intent # NoIntent /\ intent.version = 1 /\ intent.gen = k.gen
      BY <1>1, <1>3 DEF ApprovalIInv, ApprovalTypeOK, Swaps
    <2>3. Unapproved(k.gen) /\ k.gen <= made
      BY <2>2 DEF ApprovalIInv, RowHolds
    <2>4. intent' = [gen |-> k.gen, version |-> 2,
                     receipt |-> [req |-> k.req, version |-> k.version], age |-> intent.age]
      BY <1>1, <1>3, <2>2
    <2>5. ApprovalTypeOK'
      <3>1. intent' \in IntentRow
        BY <1>1, <2>2, <2>4 DEF IntentRow, Approval
      <3>2. approver' \in [Approvers -> [pc : {"ready", "create", "swap", "answer", "reload"},
                                gen : 0..MaxGenerations, version : 0..2,
                                req : ApprovalIds \cup {NoReceipt}]]
        BY <1>1, <1>3 DEF ApprovalIInv, ApprovalTypeOK, Enter, Approval
      <3> QED
        BY <1>1, <1>2, <1>3, <3>1, <3>2 DEF ApprovalIInv, ApprovalTypeOK
    <2>6. RowHolds'
      BY <1>2, <1>3, <2>3, <2>4 DEF RowHolds
    <2>7. ASSUME NEW q \in Approvers
          PROVE  Drawn(q)' /\ Passed(q)'
      <3>1. CASE q = p
        <4>1. [gen |-> k.gen, version |-> k.version, req |-> k.req] = k
          BY <1>1 DEF Approval
        <4> QED
          BY <1>1, <1>3, <2>1, <3>1, <4>1 DEF Drawn, Passed, Asked
      <3>2. CASE q # p
        <4>1. approver[q].pc = "create" => approver[q].gen # k.gen
          BY <2>2 DEF ApprovalIInv, Drawn
        <4>2. Passed(q)'
          BY <1>3, <2>1, <3>2 DEF ApprovalIInv, Passed, Asked
        <4>3. Drawn(q)'
          BY <1>2, <1>3, <2>1, <2>2, <2>4, <3>2, <4>1 DEF ApprovalIInv, Drawn, Unapproved
        <4> QED
          BY <4>2, <4>3
      <3> QED
        BY <3>1, <3>2
    <2>8. ApprovedAsReviewed'
      BY <1>2, <1>3, <2>3 DEF ApprovalIInv, ApprovedAsReviewed, Unapproved
    <2>9. \A j \in receipts' : j.gen <= made'
      BY <1>2, <1>3, <2>3 DEF ApprovalIInv
    <2> QED
      BY <2>5, <2>6, <2>7, <2>8, <2>9 DEF ApprovalIInv
  <1>4. CASE Enter(p, "reload", k) /\ UNCHANGED <<intent, receipts>>
    <2>1. /\ approver'[p] = [pc |-> "reload", gen |-> k.gen, version |-> k.version, req |-> k.req]
          /\ \A q \in Approvers : q # p => approver'[q] = approver[q]
      BY <1>4, EnterHolds DEF ApprovalIInv
    <2>2. ApprovalTypeOK'
      BY <1>1, <1>2, <1>4 DEF ApprovalIInv, ApprovalTypeOK, Enter, Approval
    <2>3. ASSUME NEW q \in Approvers
          PROVE  Drawn(q)' /\ Passed(q)'
      <3>1. CASE q = p
        <4>1. [gen |-> k.gen, version |-> k.version, req |-> k.req] = k
          BY <1>1 DEF Approval
        <4> QED
          BY <1>1, <2>1, <3>1, <4>1 DEF Drawn, Passed, Asked
      <3>2. CASE q # p
        BY <1>2, <1>4, <2>1, <3>2 DEF ApprovalIInv, Drawn, Passed, Unapproved, Asked
      <3> QED
        BY <3>1, <3>2
    <2>4. RowHolds' /\ ApprovedAsReviewed' /\ \A j \in receipts' : j.gen <= made'
      BY <1>2, <1>4 DEF ApprovalIInv, RowHolds, Unapproved, ApprovedAsReviewed
    <2> QED
      BY <2>2, <2>3, <2>4 DEF ApprovalIInv
  <1>5. CASE Depart(p) /\ UNCHANGED <<intent, receipts>>
    BY <1>2, <1>5, LeaveHolds DEF approvalVars
  <1> QED
    BY <1>3, <1>4, <1>5 DEF Swap

LEMMA ConfirmHolds ==
  ASSUME ApprovalIInv, NEW p \in Approvers, Confirm(p)
  PROVE  ApprovalIInv'
  <1> DEFINE told == approver[p].pc = "answer" \/ Repeats(Asked(p))
  <1>1. Asked(p) \in Approval
    BY DEF ApprovalIInv, Passed, Confirm
  <1>2. told => Asked(p) \in receipts
    BY <1>1, RepeatsRecorded DEF ApprovalIInv, Passed
  <1>3. confirmed' \subseteq confirmed \cup receipts
    BY <1>2 DEF Confirm
  <1> QED
    BY <1>3, LeaveHolds DEF Confirm

LEMMA AgeHolds ==
  ASSUME ApprovalIInv, Age
  PROVE  ApprovalIInv'
  <1>1. UNCHANGED <<made, owner, approver, receipts, confirmed>>
    BY DEF Age
  <1>2. intent \in IntentRow /\ intent # NoIntent
    BY DEF ApprovalIInv, ApprovalTypeOK, Age
  <1>3. \/ intent' = NoIntent
        \/ /\ intent' \in IntentRow
           /\ intent'.gen = intent.gen /\ intent'.version = intent.version
           /\ intent'.receipt = intent.receipt
    BY <1>2 DEF Age, IntentRow
  <1>4. ApprovalTypeOK'
    BY <1>1, <1>3 DEF ApprovalIInv, ApprovalTypeOK
  <1>5. RowHolds'
    BY <1>1, <1>2, <1>3 DEF ApprovalIInv, RowHolds, Unapproved
  <1>6. \A q \in Approvers : Drawn(q)' /\ Passed(q)'
    BY <1>1, <1>2, <1>3 DEF ApprovalIInv, Drawn, Passed, Unapproved, Asked
  <1>7. ApprovedAsReviewed' /\ \A j \in receipts' : j.gen <= made'
    BY <1>1 DEF ApprovalIInv, ApprovedAsReviewed
  <1> QED
    BY <1>4, <1>5, <1>6, <1>7 DEF ApprovalIInv

LEMMA SetOwnerHolds ==
  ASSUME ApprovalIInv, SetOwner
  PROVE  ApprovalIInv'
  <1>1. UNCHANGED <<intent, made, approver, receipts, confirmed>>
    BY DEF SetOwner
  <1>2. owner' \in BOOLEAN
    BY Zenon DEF ApprovalIInv, ApprovalTypeOK, SetOwner
  <1> QED
    BY <1>1, <1>2 DEF ApprovalIInv, ApprovalTypeOK, RowHolds, Drawn, Passed, Unapproved, Asked,
      ApprovedAsReviewed

-----------------------------------------------------------------------------
(***************************************************************************)
(* The theorems.                                                           *)
(***************************************************************************)
LEMMA StepHolds == ApprovalIInv /\ [ApprovalNext]_approvalVars => ApprovalIInv'
  <1> SUFFICES ASSUME ApprovalIInv, [ApprovalNext]_approvalVars
               PROVE  ApprovalIInv'
    OBVIOUS
  <1>1. ASSUME NEW p \in Approvers, Prepare(p)
        PROVE  ApprovalIInv'
    BY <1>1, PrepareHolds
  <1>2. ASSUME NEW p \in Approvers, CreateIntent(p)
        PROVE  ApprovalIInv'
    BY <1>2, CreateIntentHolds
  <1>3. ASSUME NEW p \in Approvers, Swap(p)
        PROVE  ApprovalIInv'
    BY <1>3, SwapHolds
  <1>4. ASSUME NEW p \in Approvers, Confirm(p)
        PROVE  ApprovalIInv'
    BY <1>4, ConfirmHolds
  <1>5. ASSUME NEW p \in Approvers, Abort(p)
        PROVE  ApprovalIInv'
    BY <1>5, LeaveHolds DEF Abort
  <1>6. ASSUME NEW p \in Approvers, NEW k \in Approval, Approve(p, k)
        PROVE  ApprovalIInv'
    BY <1>6, ApproveHolds
  <1>7. ASSUME NEW p \in Approvers, NEW k \in Approval, Recall(p, k)
        PROVE  ApprovalIInv'
    BY <1>7, RecallHolds
  <1>8. CASE Age
    BY <1>8, AgeHolds
  <1>9. CASE SetOwner
    BY <1>9, SetOwnerHolds
  <1>10. CASE UNCHANGED approvalVars
    BY <1>10 DEF approvalVars, ApprovalIInv, ApprovalTypeOK, RowHolds, Drawn, Passed, Unapproved,
      Asked, ApprovedAsReviewed
  <1> QED
    BY <1>1, <1>2, <1>3, <1>4, <1>5, <1>6, <1>7, <1>8, <1>9, <1>10 DEF ApprovalNext

LEMMA AlwaysHolds == ApprovalSpec => []ApprovalIInv
  BY InitHolds, StepHolds, PTL DEF ApprovalSpec

\* Every variable of CodeApproval keeps its type.
THEOREM ApprovalTypeCorrect == ApprovalSpec => []ApprovalTypeOK
  BY AlwaysHolds, PTL DEF ApprovalIInv

\* One approval is recorded of a generation, and only those who approved that
\* generation are told so (service.go, Approve; dynamo.go, CompareAndSwap).
THEOREM ApprovedAsWasReviewed == ApprovalSpec => []ApprovedAsReviewed
  BY AlwaysHolds, PTL DEF ApprovalIInv

-----------------------------------------------------------------------------
(***************************************************************************)
(* The settings of an account.                                             *)
(***************************************************************************)
\* What a handler is about to write gives no override to a device whose override
\* was purged, unless it is a device that was found active too late.
Pending(p) ==
  editor[p].pc \in {"check", "write", "purgeWrite"} /\ Unchanged(p) =>
    \A d \in forgotten :
      editor[p].next.over[d] # Inherit =>
        \/ d \in late \cup editor[p].late
        \/ editor[p].pc = "check" /\ d = editor[p].dev

\* What a handler has read or written is the present document or an older one.
EditorHolds(p) ==
  /\ editor[p].pc \in {"check", "write", "purgeWrite", "fanout"} => editor[p].next.base \in Values
  /\ editor[p].pc \in {"check", "purge", "purgeWrite"} => editor[p].dev \in Devices
  /\ editor[p].pc \in {"purge", "purgeWrite"} => editor[p].dev \notin enrolled
  /\ editor[p].pc = "purgeWrite" => editor[p].next.over[editor[p].dev] = Inherit
  /\ editor[p].pc \in {"check", "purgeWrite"} => editor[p].late = {}
  /\ editor[p].next.ver <= settings.ver + 1
  /\ editor[p].pc = "fanout" =>
       editor[p].next.ver <= settings.ver
       /\ (editor[p].next.ver = settings.ver => editor[p].next = settings)
  /\ Pending(p)

\* No later version is desired than the present one.
DesiredBehind ==
  /\ \A x \in pushes : x.want.ver <= settings.ver
  /\ \A d \in Devices : shadow[d].desired.ver <= settings.ver

SettingsIInv ==
  /\ SettingsTypeOK
  /\ forgotten \cap enrolled = {}
  /\ \A p \in Editors : EditorHolds(p)
  /\ OverridesForgotten
  /\ DesiredBehind /\ DesiredTruthful

USE SettingsAssumption

-----------------------------------------------------------------------------
\* The record of a handler has its type.
LEMMA EditingType ==
  ASSUME NEW pc \in {"idle", "check", "write", "purge", "purgeWrite", "fanout"},
         NEW d \in Devices \cup {Inherit}, NEW s \in Documents(Values \cup {Same}), NEW n \in Nat,
         NEW l \in SUBSET Devices
  PROVE  Editing(pc, d, s, n, l) \in EditorRow
  BY DEF Editing, EditorRow

LEMMA NoEditType ==
  NoEdit \in EditorRow
  BY DEF NoEdit, Editing, Document, Documents, NoOverrides, EditorRow

\* What is desired of a device by a document is a setting.
LEMMA DesiredType ==
  ASSUME NEW s \in Documents(Values), NEW d \in Devices
  PROVE  Desired(s, d) \in Setting /\ Desired(s, d).ver = s.ver
  BY DEF Desired, Effective, Documents, Setting

LEMMA AlteredType ==
  ASSUME SettingsTypeOK, NEW d \in Devices, NEW v \in Values \cup {Inherit}
  PROVE  /\ Altered(d, v) \in Documents(Values)
         /\ Altered(d, v).ver = settings.ver + 1
         /\ \A e \in Devices : Altered(d, v).over[e] = IF e = d THEN v ELSE settings.over[e]
  BY DEF Altered, Document, Documents, SettingsTypeOK

\* A document of the account fits where a handler keeps one.
LEMMA Fits ==
  ASSUME NEW s \in Documents(Values)
  PROVE  s \in Documents(Values \cup {Same})
  BY DEF Documents

\* The row of a handler.
LEMMA RowOf ==
  ASSUME SettingsTypeOK, NEW p \in Editors
  PROVE  /\ editor[p].dev \in Devices \cup {Inherit}
         /\ editor[p].next \in Documents(Values \cup {Same}) /\ editor[p].next.ver \in Nat
         /\ editor[p].tries \in Nat /\ editor[p].late \subseteq Devices
  BY DEF SettingsTypeOK, EditorRow, Documents

\* The row of a handler that has moved.
LEMMA RowAfter ==
  ASSUME SettingsTypeOK, NEW p \in Editors, NEW e, editor' = [editor EXCEPT ![p] = e]
  PROVE  editor'[p] = e /\ \A q \in Editors \ {p} : editor'[q] = editor[q]
  BY DEF SettingsTypeOK

-----------------------------------------------------------------------------
\* A handler p has moved and the document has not.
LEMMA HandlerMoves ==
  ASSUME SettingsIInv, NEW p \in Editors, NEW e,
         e \in EditorRow,
         editor' = [editor EXCEPT ![p] = e],
         enrolled' \subseteq enrolled,
         UNCHANGED <<settings, listed, forgotten, late, accepted, shadow, links>>,
         pushes' \subseteq [dev : Devices, want : Setting],
         \A x \in pushes' : /\ x.want.ver <= settings.ver
                            /\ x.want.ver = settings.ver => x.want = Desired(settings, x.dev),
         EditorHolds(p)'
  PROVE  SettingsIInv'
  <1>1. SettingsTypeOK'
    BY DEF SettingsIInv, SettingsTypeOK, links
  <1>2. ASSUME NEW q \in Editors
        PROVE  EditorHolds(q)'
    <2>1. CASE q = p
      BY <2>1
    <2>2. CASE q # p
      <3>1. editor'[q] = editor[q]
        BY <2>2 DEF SettingsIInv, SettingsTypeOK
      <3> QED
        BY <3>1 DEF SettingsIInv, EditorHolds, Pending, Unchanged
    <2> QED
      BY <2>1, <2>2
  <1>3. (forgotten \cap enrolled = {})' /\ OverridesForgotten' /\ DesiredBehind' /\ DesiredTruthful'
    BY DEF SettingsIInv, OverridesForgotten, DesiredBehind, DesiredTruthful, Desired, Effective
  <1> QED
    BY <1>1, <1>2, <1>3 DEF SettingsIInv

\* A handler p has written the document it had prepared, and the document was
\* still the same: whatever others have prepared or desired is outdated.
LEMMA HandlerWrites ==
  ASSUME SettingsIInv, NEW p \in Editors,
         editor[p].pc \in {"write", "purgeWrite"}, Unchanged(p), settings' = editor[p].next,
         editor' = [editor EXCEPT ![p] = Editing("fanout", editor[p].dev, editor[p].next, 0, {})],
         forgotten' \subseteq Devices, forgotten' \cap enrolled = {}, late' \subseteq Devices,
         OverridesForgotten',
         UNCHANGED <<enrolled, listed, pushes, accepted, shadow, links>>
  PROVE  SettingsIInv'
  <1> DEFINE n == Editing("fanout", editor[p].dev, editor[p].next, 0, {})
  <1>1. /\ settings \in Documents(Values) /\ settings' \in Documents(Values)
        /\ settings.ver \in Nat /\ settings'.ver = settings.ver + 1
        /\ editor[p].next \in Documents(Values \cup {Same}) /\ editor[p].dev \in Devices \cup {Inherit}
    BY RowOf DEF SettingsIInv, SettingsTypeOK, EditorHolds, Documents, Unchanged
  <1>2. SettingsTypeOK'
    <2>1. n \in EditorRow
      BY <1>1, EditingType
    <2> QED
      BY <1>1, <2>1 DEF SettingsIInv, SettingsTypeOK, links
  <1>3. ASSUME NEW q \in Editors
        PROVE  EditorHolds(q)'
    <2>1. CASE q = p
      <3>1. editor'[p] = n
        <4>1. SettingsTypeOK
          BY DEF SettingsIInv
        <4> HIDE DEF n
        <4>2. editor' = [editor EXCEPT ![p] = n]
          BY DEF n
        <4> QED
          BY <4>1, <4>2, RowAfter
      <3> QED
        BY <1>1, <2>1, <3>1 DEF EditorHolds, Pending, Editing, Documents
    <2>2. CASE q # p
      <3>1. editor'[q] = editor[q] /\ editor[q].next.ver \in Nat
        BY <2>2, RowOf, RowAfter DEF SettingsIInv
      <3>2. editor[q].next.ver <= settings.ver + 1 /\ EditorHolds(q)
        BY DEF SettingsIInv, EditorHolds
      <3>3. ~ Unchanged(q)'
        BY <1>1, <3>1, <3>2 DEF Unchanged
      <3>4. Pending(q)'
        BY <3>3 DEF Pending
      <3> QED
        BY <1>1, <3>1, <3>2, <3>4 DEF EditorHolds
    <2> QED
      BY <2>1, <2>2
  <1>4. DesiredBehind' /\ DesiredTruthful'
    <2>1. \A x \in pushes : x.want.ver \in Nat /\ x.want.ver <= settings.ver
      BY DEF SettingsIInv, SettingsTypeOK, Setting, DesiredBehind
    <2>2. \A d \in Devices : shadow[d].desired.ver \in Nat /\ shadow[d].desired.ver <= settings.ver
      BY DEF SettingsIInv, SettingsTypeOK, Setting, DesiredBehind
    <2> QED
      BY <1>1, <2>1, <2>2 DEF DesiredBehind, DesiredTruthful
  <1> QED
    BY <1>2, <1>3, <1>4 DEF SettingsIInv

-----------------------------------------------------------------------------
LEMMA PutHolds ==
  ASSUME SettingsIInv, NEW p \in Editors, NEW v \in Values, Put(p, v)
  PROVE  SettingsIInv'
  <1> DEFINE s == Document(settings.ver + 1, v, settings.over)
             e == Editing("write", Inherit, s, 0, {})
  <1>1. s \in Documents(Values) /\ s.ver = settings.ver + 1 /\ s.over = settings.over
    BY DEF SettingsIInv, SettingsTypeOK, Document, Documents
  <1>2. /\ editor' = [editor EXCEPT ![p] = e]
        /\ UNCHANGED <<settings, enrolled, listed, forgotten, late, pushes, accepted, shadow, links>>
    BY DEF Put, Edit
  <1>3. e \in EditorRow
    BY <1>1, EditingType, Fits
  <1>4. editor'[p] = e
    BY <1>2 DEF SettingsIInv, SettingsTypeOK
  <1>5. EditorHolds(p)'
    BY <1>1, <1>2, <1>4 DEF EditorHolds, Pending, Editing, Documents, SettingsIInv, SettingsTypeOK,
      OverridesForgotten
  <1> QED
    BY <1>2, <1>3, <1>5, HandlerMoves DEF SettingsIInv, SettingsTypeOK, DesiredBehind, DesiredTruthful

LEMMA PatchAllHolds ==
  ASSUME SettingsIInv, NEW p \in Editors, NEW v \in Values, PatchAll(p, v)
  PROVE  SettingsIInv'
  <1> DEFINE s == Document(settings.ver + 1, v, NoOverrides)
             e == Editing("write", Inherit, s, 0, {})
  <1>1. s \in Documents(Values) /\ s.ver = settings.ver + 1 /\ s.over = NoOverrides
    BY DEF SettingsIInv, SettingsTypeOK, Document, Documents, NoOverrides
  <1>2. /\ editor' = [editor EXCEPT ![p] = e]
        /\ UNCHANGED <<settings, enrolled, listed, forgotten, late, pushes, accepted, shadow, links>>
    BY DEF PatchAll, Edit
  <1>3. e \in EditorRow
    BY <1>1, EditingType, Fits
  <1>4. editor'[p] = e
    BY <1>2 DEF SettingsIInv, SettingsTypeOK
  <1>5. EditorHolds(p)'
    <2>1. /\ editor'[p].pc = "write" /\ editor'[p].next = s
      BY <1>4 DEF Editing
    <2>2. \A x \in Devices : s.over[x] = Inherit
      BY <1>1 DEF NoOverrides
    <2>3. Pending(p)'
      BY <1>2, <2>1, <2>2 DEF Pending, SettingsIInv, SettingsTypeOK
    <2> QED
      BY <1>1, <1>2, <2>1, <2>3 DEF EditorHolds, Documents
  <1> QED
    BY <1>2, <1>3, <1>5, HandlerMoves DEF SettingsIInv, SettingsTypeOK, DesiredBehind, DesiredTruthful

LEMMA PatchHolds ==
  ASSUME SettingsIInv, NEW p \in Editors, NEW d \in Devices, NEW v \in Values \cup {Inherit}, Patch(p, d, v)
  PROVE  SettingsIInv'
  <1> DEFINE s == Altered(d, v)
             e == Editing("check", d, s, 0, {})
  <1>1. /\ s \in Documents(Values) /\ s.ver = settings.ver + 1
        /\ \A x \in Devices : s.over[x] = IF x = d THEN v ELSE settings.over[x]
    BY AlteredType DEF SettingsIInv
  <1>2. /\ editor' = [editor EXCEPT ![p] = e]
        /\ UNCHANGED <<settings, enrolled, listed, forgotten, late, pushes, accepted, shadow, links>>
    BY DEF Patch, Edit
  <1> HIDE DEF s
  <1>3. e \in EditorRow
    BY <1>1, EditingType, Fits
  <1>4. editor'[p] = e
    BY <1>2 DEF SettingsIInv, SettingsTypeOK
  <1>5. EditorHolds(p)'
    <2>1. /\ editor'[p].pc = "check" /\ editor'[p].dev = d /\ editor'[p].next = s
          /\ editor'[p].late = {}
      BY <1>4 DEF Editing
    <2>2. \A x \in forgotten : s.over[x] # Inherit => x \in late \/ x = d
      BY <1>1 DEF SettingsIInv, SettingsTypeOK, OverridesForgotten
    <2>3. Pending(p)'
      BY <1>2, <2>1, <2>2 DEF Pending
    <2> QED
      BY <1>1, <1>2, <2>1, <2>3 DEF EditorHolds, Documents
  <1> QED
    BY <1>2, <1>3, <1>5, HandlerMoves DEF SettingsIInv, SettingsTypeOK, DesiredBehind, DesiredTruthful

LEMMA RestHolds ==
  ASSUME SettingsIInv, NEW p \in Editors, Rest(p),
         UNCHANGED <<settings, enrolled, listed, forgotten, late, accepted, shadow, links>>,
         pushes' \subseteq [dev : Devices, want : Setting],
         \A x \in pushes' : /\ x.want.ver <= settings.ver
                            /\ x.want.ver = settings.ver => x.want = Desired(settings, x.dev)
  PROVE  SettingsIInv'
  <1>1. editor' = [editor EXCEPT ![p] = NoEdit]
    BY DEF Rest
  <1>2. editor'[p] = NoEdit
    BY <1>1 DEF SettingsIInv, SettingsTypeOK
  <1>3. EditorHolds(p)'
    BY <1>2 DEF EditorHolds, Pending, NoEdit, Editing, Document, SettingsIInv, SettingsTypeOK, Documents
  <1> QED
    BY <1>1, <1>3, NoEditType, HandlerMoves

\* What was on its way to the shadows and stays there.
LEMMA PushesStay ==
  ASSUME SettingsIInv, UNCHANGED <<settings, pushes>>
  PROVE  /\ pushes' \subseteq [dev : Devices, want : Setting]
         /\ \A x \in pushes' : /\ x.want.ver <= settings.ver
                               /\ x.want.ver = settings.ver => x.want = Desired(settings, x.dev)
  BY DEF SettingsIInv, SettingsTypeOK, DesiredBehind, DesiredTruthful

LEMMA CheckTargetHolds ==
  ASSUME SettingsIInv, NEW p \in Editors, CheckTarget(p)
  PROVE  SettingsIInv'
  <1>1. UNCHANGED <<settings, enrolled, listed, forgotten, late, pushes, accepted, shadow, links>>
        /\ editor[p].pc = "check"
    BY DEF CheckTarget
  <1>2. CASE Rest(p)
    BY <1>1, <1>2, RestHolds, PushesStay
  <1>3. CASE editor' = [editor EXCEPT ![p] = Editing("write", @.dev, @.next, 0, {@.dev} \ enrolled)]
    <2> DEFINE l == {editor[p].dev} \ enrolled
               e == Editing("write", editor[p].dev, editor[p].next, 0, l)
    <2>1. editor' = [editor EXCEPT ![p] = e]
      BY <1>3
    <2>2. /\ editor[p].dev \in Devices /\ editor[p].next \in Documents(Values \cup {Same})
          /\ editor[p].next.base \in Values /\ editor[p].next.ver <= settings.ver + 1 /\ Pending(p)
      BY <1>1, RowOf DEF SettingsIInv, EditorHolds
    <2>3. e \in EditorRow
      <3>1. l \in SUBSET Devices /\ 0 \in Nat
        BY <2>2
      <3> QED
        BY <2>2, <3>1, EditingType
    <2>4. editor'[p] = e
      BY <2>1, RowAfter DEF SettingsIInv
    <2>5. /\ editor'[p].pc = "write" /\ editor'[p].next = editor[p].next /\ editor'[p].late = l
      BY <2>4 DEF Editing
    <2>6. editor[p].dev \in forgotten => editor[p].dev \in l
      BY DEF SettingsIInv
    <2>7. Pending(p)'
      <3>1. SUFFICES ASSUME Unchanged(p), NEW d \in forgotten, editor[p].next.over[d] # Inherit
                     PROVE  d \in late \cup l
        BY <1>1, <2>5 DEF Pending, Unchanged
      <3>2. editor[p].late \subseteq {}
        BY <1>1 DEF SettingsIInv, EditorHolds
      <3> QED
        BY <1>1, <2>2, <2>6, <3>1, <3>2 DEF Pending
    <2>8. EditorHolds(p)'
      BY <1>1, <2>2, <2>5, <2>7 DEF EditorHolds
    <2> QED
      BY <1>1, <2>1, <2>3, <2>8, HandlerMoves, PushesStay
  <1> QED
    BY <1>2, <1>3 DEF CheckTarget

LEMMA WriteSettingsHolds ==
  ASSUME SettingsIInv, NEW p \in Editors, WriteSettings(p)
  PROVE  SettingsIInv'
  <1>1. UNCHANGED <<enrolled, listed, forgotten, pushes, accepted, shadow, links>>
        /\ editor[p].pc = "write"
    BY DEF WriteSettings
  <1>2. CASE Unchanged(p)
    <2>1. /\ settings' = editor[p].next /\ late' = late \cup editor[p].late
          /\ editor' = [editor EXCEPT ![p] = Editing("fanout", editor[p].dev, editor[p].next, 0, {})]
      BY <1>2 DEF WriteSettings
    <2>2. /\ forgotten' \subseteq Devices /\ late' \subseteq Devices
          /\ forgotten' \cap enrolled = {}
      BY <1>1, <2>1, RowOf DEF SettingsIInv, SettingsTypeOK
    <2>3. OverridesForgotten'
      BY <1>1, <1>2, <2>1 DEF SettingsIInv, EditorHolds, Pending, OverridesForgotten
    <2> QED
      BY <1>1, <1>2, <2>1, <2>2, <2>3, HandlerWrites
  <1>3. CASE ~ Unchanged(p)
    <2>1. UNCHANGED <<settings, late>> /\ Rest(p)
      BY <1>3 DEF WriteSettings
    <2> QED
      BY <1>1, <2>1, RestHolds, PushesStay
  <1> QED
    BY <1>2, <1>3

LEMMA RevokeDeviceHolds ==
  ASSUME SettingsIInv, NEW p \in Editors, NEW d \in Devices, RevokeDevice(p, d)
  PROVE  SettingsIInv'
  <1> DEFINE s == NoEdit.next
             e == Editing("purge", d, s, 0, {})
  <1>1. /\ editor' = [editor EXCEPT ![p] = e] /\ enrolled' = enrolled \ {d}
        /\ UNCHANGED <<settings, listed, forgotten, late, pushes, accepted, shadow, links>>
    BY DEF RevokeDevice, Edit
  <1>2. s \in Documents(Values \cup {Same}) /\ s.ver = 0
    BY NoEditType DEF NoEdit, Editing, Document, EditorRow
  <1> HIDE DEF s
  <1>3. e \in EditorRow
    <2>1. 0 \in Nat /\ {} \in SUBSET Devices
      OBVIOUS
    <2> QED
      BY <1>2, <2>1, EditingType
  <1>4. editor'[p] = e
    BY <1>1, RowAfter DEF SettingsIInv
  <1>5. /\ editor'[p].pc = "purge" /\ editor'[p].dev = d /\ editor'[p].next = s
    BY <1>4 DEF Editing
  <1>6. EditorHolds(p)'
    <2>1. settings.ver \in Nat
      BY DEF SettingsIInv, SettingsTypeOK, Documents
    <2> QED
      BY <1>1, <1>2, <1>5, <2>1 DEF EditorHolds, Pending
  <1> QED
    BY <1>1, <1>3, <1>6, HandlerMoves, PushesStay

LEMMA PurgeReadHolds ==
  ASSUME SettingsIInv, NEW p \in Editors, PurgeRead(p)
  PROVE  SettingsIInv'
  <1> DEFINE d == editor[p].dev
             s == Altered(d, Inherit)
             e == Editing("purgeWrite", d, s, editor[p].tries, {})
  <1>1. /\ editor' = [editor EXCEPT ![p] = e] /\ editor[p].pc = "purge"
        /\ UNCHANGED <<settings, enrolled, listed, forgotten, late, pushes, accepted, shadow, links>>
    BY DEF PurgeRead
  <1>2. d \in Devices /\ d \notin enrolled /\ editor[p].tries \in Nat
    BY <1>1, RowOf DEF SettingsIInv, EditorHolds
  <1>3. /\ s \in Documents(Values) /\ s.ver = settings.ver + 1
        /\ \A x \in Devices : s.over[x] = IF x = d THEN Inherit ELSE settings.over[x]
    BY <1>2, AlteredType DEF SettingsIInv
  <1> HIDE DEF s
  <1>4. e \in EditorRow
    BY <1>2, <1>3, EditingType, Fits
  <1>5. editor'[p] = e
    BY <1>1, RowAfter DEF SettingsIInv
  <1>6. /\ editor'[p].pc = "purgeWrite" /\ editor'[p].dev = d /\ editor'[p].next = s
    BY <1>5 DEF Editing
  <1>10. editor'[p].late = {}
    BY <1>5 DEF Editing
  <1>7. \A x \in forgotten : s.over[x] # Inherit => x \in late
    BY <1>3 DEF SettingsIInv, SettingsTypeOK, OverridesForgotten
  <1>8. Pending(p)'
    BY <1>1, <1>6, <1>7 DEF Pending
  <1>9. EditorHolds(p)'
    BY <1>1, <1>2, <1>3, <1>6, <1>8, <1>10 DEF EditorHolds, Documents
  <1> QED
    BY <1>1, <1>4, <1>9, HandlerMoves, PushesStay

LEMMA PurgeWriteHolds ==
  ASSUME SettingsIInv, NEW p \in Editors, PurgeWrite(p)
  PROVE  SettingsIInv'
  <1> DEFINE d == editor[p].dev
  <1>1. UNCHANGED <<enrolled, listed, pushes, accepted, shadow, links>> /\ editor[p].pc = "purgeWrite"
    BY DEF PurgeWrite
  <1>2. /\ d \in Devices /\ d \notin enrolled /\ editor[p].tries \in Nat
        /\ editor[p].next \in Documents(Values \cup {Same}) /\ editor[p].next.ver <= settings.ver + 1
        /\ editor[p].late = {} /\ editor[p].next.over[d] = Inherit /\ Pending(p)
    BY <1>1, RowOf DEF SettingsIInv, EditorHolds
  <1>3. CASE Unchanged(p)
    <2>1. /\ settings' = editor[p].next /\ forgotten' = forgotten \cup {d} /\ late' = late \ {d}
          /\ editor' = [editor EXCEPT ![p] = Editing("fanout", editor[p].dev, editor[p].next, 0, {})]
      BY <1>3 DEF PurgeWrite
    <2>2. /\ forgotten' \subseteq Devices /\ late' \subseteq Devices
          /\ forgotten' \cap enrolled = {}
      BY <1>2, <2>1 DEF SettingsIInv, SettingsTypeOK
    <2>3. OverridesForgotten'
      BY <1>1, <1>2, <1>3, <2>1 DEF Pending, OverridesForgotten
    <2> QED
      BY <1>1, <1>3, <2>1, <2>2, <2>3, HandlerWrites
  <1>4. CASE ~ Unchanged(p)
    <2>1. UNCHANGED <<settings, forgotten, late>>
      BY <1>4 DEF PurgeWrite
    <2>2. CASE Rest(p)
      BY <1>1, <2>1, <2>2, RestHolds, PushesStay
    <2>3. CASE editor' = [editor EXCEPT ![p] = Editing("purge", @.dev, @.next, @.tries + 1, {})]
      <3> DEFINE e == Editing("purge", d, editor[p].next, editor[p].tries + 1, {})
      <3>1. editor' = [editor EXCEPT ![p] = e]
        BY <2>3
      <3>2. e \in EditorRow
        <4>1. editor[p].tries + 1 \in Nat /\ {} \in SUBSET Devices
          BY <1>2
        <4> QED
          BY <1>2, <4>1, EditingType
      <3>3. editor'[p] = e
        BY <3>1, RowAfter DEF SettingsIInv
      <3>4. /\ editor'[p].pc = "purge" /\ editor'[p].dev = d /\ editor'[p].next = editor[p].next
        BY <3>3 DEF Editing
      <3>5. EditorHolds(p)'
        BY <1>1, <1>2, <2>1, <3>4 DEF EditorHolds, Pending
      <3> QED
        BY <1>1, <2>1, <3>1, <3>2, <3>5, HandlerMoves, PushesStay
    <2> QED
      BY <1>4, <2>2, <2>3 DEF PurgeWrite
  <1> QED
    BY <1>3, <1>4

LEMMA FanoutHolds ==
  ASSUME SettingsIInv, NEW p \in Editors, Fanout(p)
  PROVE  SettingsIInv'
  <1> DEFINE n == editor[p].next
  <1>1. /\ UNCHANGED <<settings, enrolled, listed, forgotten, late, accepted, shadow, links>>
        /\ Rest(p) /\ editor[p].pc = "fanout"
    BY DEF Fanout
  <1>2. PICK sent \in SUBSET listed :
          pushes' = pushes \cup {[dev |-> d, want |-> Desired(n, d)] : d \in sent}
    BY DEF Fanout
  <1>3. /\ n \in Documents(Values) /\ n.ver <= settings.ver
        /\ n.ver = settings.ver => n = settings
    <2>1. n \in Documents(Values \cup {Same}) /\ n.base \in Values
      BY <1>1, RowOf DEF SettingsIInv, EditorHolds
    <2> QED
      BY <1>1, <2>1 DEF SettingsIInv, EditorHolds, Documents
  <1>4. ASSUME NEW d \in sent
        PROVE  /\ [dev |-> d, want |-> Desired(n, d)] \in [dev : Devices, want : Setting]
               /\ Desired(n, d).ver <= settings.ver
               /\ Desired(n, d).ver = settings.ver => Desired(n, d) = Desired(settings, d)
    <2>1. d \in Devices
      BY DEF SettingsIInv, SettingsTypeOK
    <2> QED
      BY <1>3, <2>1, DesiredType
  <1>5. /\ pushes \subseteq [dev : Devices, want : Setting]
        /\ \A x \in pushes : /\ x.want.ver <= settings.ver
                             /\ x.want.ver = settings.ver => x.want = Desired(settings, x.dev)
    BY DEF SettingsIInv, SettingsTypeOK, DesiredBehind, DesiredTruthful
  <1>6. pushes' \subseteq [dev : Devices, want : Setting]
    BY <1>2, <1>4, <1>5
  <1>7. \A x \in pushes' : /\ x.want.ver <= settings.ver
                           /\ x.want.ver = settings.ver => x.want = Desired(settings, x.dev)
    BY <1>2, <1>4, <1>5
  <1> QED
    BY <1>1, <1>6, <1>7, RestHolds

LEMMA ReplicateHolds ==
  ASSUME SettingsIInv, Replicate
  PROVE  SettingsIInv'
  <1>1. SettingsTypeOK'
    BY DEF SettingsIInv, SettingsTypeOK, Replicate, links
  <1> QED
    BY <1>1 DEF SettingsIInv, Replicate, EditorHolds, Pending, Unchanged, OverridesForgotten,
      DesiredBehind, DesiredTruthful, Desired, Effective

-----------------------------------------------------------------------------
\* Steps that leave the document and the handlers alone.
LEMMA DocumentStays ==
  ASSUME SettingsIInv, UNCHANGED document, SettingsTypeOK', DesiredBehind', DesiredTruthful'
  PROVE  SettingsIInv'
  BY DEF SettingsIInv, document, EditorHolds, Pending, Unchanged, OverridesForgotten

\* The queues of the devices.
LEMMA Sent ==
  ASSUME NEW S, NEW q \in [Devices -> Seq(S)], NEW d \in Devices, NEW m \in S
  PROVE  [q EXCEPT ![d] = Append(q[d], m)] \in [Devices -> Seq(S)]
  <1>1. Append(q[d], m) \in Seq(S)
    OBVIOUS
  <1> QED
    BY <1>1

LEMMA Taken ==
  ASSUME NEW S, NEW q \in [Devices -> Seq(S)], NEW d \in Devices, q[d] # <<>>
  PROVE  Head(q[d]) \in S /\ [q EXCEPT ![d] = Tail(q[d])] \in [Devices -> Seq(S)]
  <1>1. q[d] \in Seq(S)
    OBVIOUS
  <1>2. Head(q[d]) \in S /\ Tail(q[d]) \in Seq(S)
    BY <1>1
  <1> QED
    BY <1>2

LEMMA Cleared ==
  ASSUME NEW S, NEW q \in [Devices -> Seq(S)], NEW d \in Devices
  PROVE  [q EXCEPT ![d] = <<>>] \in [Devices -> Seq(S)]
  <1>1. <<>> \in Seq(S)
    OBVIOUS
  <1> QED
    BY <1>1

\* What an update sends to the device has its type.
LEMMA SendDeltaType ==
  ASSUME SettingsTypeOK, NEW d \in Devices, NEW s \in [desired : Setting, reported : Setting],
         SendDelta(d, s)
  PROVE  toDevice' \in [Devices -> Seq([ver : Nat, val : Values \cup {Same}])]
  <1>1. Delta(s) \in [ver : Nat, val : Values \cup {Same}]
    BY DEF Delta, Setting
  <1>2. CASE toDevice' = [toDevice EXCEPT ![d] = Append(toDevice[d], Delta(s))]
    BY <1>1, <1>2, Sent DEF SettingsTypeOK
  <1> QED
    BY <1>2 DEF SettingsTypeOK, SendDelta

LEMMA PushHolds ==
  ASSUME SettingsIInv, NEW x \in pushes, Push(x)
  PROVE  SettingsIInv'
  <1> DEFINE s == [desired |-> x.want, reported |-> shadow[x.dev].reported]
  <1>1. /\ UNCHANGED <<document, accepted, device, toCloud, online>> /\ pushes' = pushes \ {x}
        /\ shadow' = [shadow EXCEPT ![x.dev] = s] /\ SendDelta(x.dev, s)
    BY DEF Push
  <1>2. x.dev \in Devices /\ x.want \in Setting /\ s \in [desired : Setting, reported : Setting]
    BY DEF SettingsIInv, SettingsTypeOK
  <1>3. SettingsTypeOK'
    BY <1>1, <1>2, SendDeltaType DEF SettingsIInv, SettingsTypeOK, document
  <1>4. /\ x.want.ver <= settings.ver
        /\ x.want.ver = settings.ver => x.want = Desired(settings, x.dev)
    BY DEF SettingsIInv, DesiredBehind, DesiredTruthful
  <1>5. \A d \in Devices : shadow'[d].desired = IF d = x.dev THEN x.want ELSE shadow[d].desired
    BY <1>1, <1>2 DEF SettingsIInv, SettingsTypeOK
  <1>6. settings' = settings
    BY <1>1 DEF document
  <1>7. DesiredBehind' /\ DesiredTruthful'
    BY <1>1, <1>4, <1>5, <1>6 DEF SettingsIInv, DesiredBehind, DesiredTruthful, Desired, Effective
  <1> QED
    BY <1>1, <1>3, <1>7, DocumentStays

LEMMA TakeReportHolds ==
  ASSUME SettingsIInv, NEW d \in Devices, TakeReport(d)
  PROVE  SettingsIInv'
  <1> DEFINE m == Head(toCloud[d])
             s == [desired |-> shadow[d].desired, reported |-> m]
  <1>1. /\ UNCHANGED <<document, pushes, device, online>> /\ toCloud[d] # <<>> /\ m # GetShadow
        /\ toCloud' = [toCloud EXCEPT ![d] = Tail(toCloud[d])]
        /\ shadow' = [shadow EXCEPT ![d] = s] /\ SendDelta(d, s)
        /\ accepted' = accepted \cup {[dev |-> d, ver |-> m.ver]}
    BY DEF TakeReport
  <1>2. m \in Setting /\ toCloud' \in [Devices -> Seq(Setting \cup {GetShadow})]
    BY <1>1, Taken DEF SettingsIInv, SettingsTypeOK
  <1>3. s \in [desired : Setting, reported : Setting] /\ m.ver \in Nat
    BY <1>2 DEF SettingsIInv, SettingsTypeOK, Setting
  <1>4. SettingsTypeOK'
    <2>1. /\ shadow' \in [Devices -> [desired : Setting, reported : Setting]]
          /\ accepted' \subseteq [dev : Devices, ver : Nat]
      BY <1>1, <1>3 DEF SettingsIInv, SettingsTypeOK
    <2>2. toDevice' \in [Devices -> Seq([ver : Nat, val : Values \cup {Same}])]
      BY <1>1, <1>3, SendDeltaType DEF SettingsIInv
    <2> QED
      BY <1>1, <1>2, <2>1, <2>2 DEF SettingsIInv, SettingsTypeOK, document
  <1>5. \A e \in Devices : shadow'[e].desired = shadow[e].desired
    BY <1>1 DEF SettingsIInv, SettingsTypeOK
  <1>6. settings' = settings
    BY <1>1 DEF document
  <1>7. DesiredBehind' /\ DesiredTruthful'
    BY <1>1, <1>5, <1>6 DEF SettingsIInv, DesiredBehind, DesiredTruthful, Desired, Effective
  <1> QED
    BY <1>1, <1>4, <1>7, DocumentStays

\* Steps that only move messages, devices and connections.
LEMMA LinksMove ==
  ASSUME SettingsIInv, UNCHANGED <<document, pushes, accepted, shadow>>,
         device' \in [Devices -> Setting], online' \subseteq Devices,
         toDevice' \in [Devices -> Seq([ver : Nat, val : Values \cup {Same}])],
         toCloud' \in [Devices -> Seq(Setting \cup {GetShadow})]
  PROVE  SettingsIInv'
  BY DocumentStays DEF SettingsIInv, SettingsTypeOK, document, DesiredBehind, DesiredTruthful,
    Desired, Effective

LEMMA TakeGetHolds ==
  ASSUME SettingsIInv, NEW d \in Devices, TakeGet(d)
  PROVE  SettingsIInv'
  <1>1. shadow[d].desired \in [ver : Nat, val : Values \cup {Same}]
    BY DEF SettingsIInv, SettingsTypeOK, Setting
  <1>2. toCloud' \in [Devices -> Seq(Setting \cup {GetShadow})]
    BY Taken DEF TakeGet, SettingsIInv, SettingsTypeOK
  <1>3. toDevice' \in [Devices -> Seq([ver : Nat, val : Values \cup {Same}])]
    BY <1>1, Sent DEF TakeGet, SettingsIInv, SettingsTypeOK
  <1> QED
    BY <1>2, <1>3, LinksMove DEF TakeGet, SettingsIInv, SettingsTypeOK

LEMMA IngestHolds ==
  ASSUME SettingsIInv, NEW e \in accepted, Ingest(e)
  PROVE  SettingsIInv'
  <1> DEFINE x == [dev |-> e.dev, want |-> Desired(settings, e.dev)]
  <1>1. /\ UNCHANGED <<document, shadow, links>> /\ accepted' = accepted \ {e}
        /\ pushes' \subseteq pushes \cup {x}
    BY DEF Ingest
  <1>2. e.dev \in Devices /\ settings \in Documents(Values) /\ settings.ver \in Nat
    BY DEF SettingsIInv, SettingsTypeOK, Documents
  <1>3. /\ x \in [dev : Devices, want : Setting] /\ x.want.ver = settings.ver
        /\ x.want = Desired(settings, x.dev)
    BY <1>2, DesiredType
  <1> HIDE DEF x
  <1>4. SettingsTypeOK'
    BY <1>1, <1>3 DEF SettingsIInv, SettingsTypeOK, document, links
  <1>5. settings' = settings /\ shadow' = shadow
    BY <1>1 DEF document
  <1>6. \A y \in pushes' : /\ y.want.ver <= settings.ver
                           /\ y.want.ver = settings.ver => y.want = Desired(settings, y.dev)
    BY <1>1, <1>2, <1>3 DEF SettingsIInv, DesiredBehind, DesiredTruthful
  <1>7. DesiredBehind' /\ DesiredTruthful'
    BY <1>5, <1>6 DEF SettingsIInv, DesiredBehind, DesiredTruthful, Desired, Effective
  <1> QED
    BY <1>1, <1>4, <1>7, DocumentStays

\* What a device has after a report.
LEMMA ReportType ==
  ASSUME SettingsTypeOK, NEW d \in Devices, NEW c \in Setting, Report(d, c)
  PROVE  /\ device' \in [Devices -> Setting]
         /\ toCloud' \in [Devices -> Seq(Setting \cup {GetShadow})]
  BY DEF SettingsTypeOK, Report

LEMMA TakeDeltaHolds ==
  ASSUME SettingsIInv, NEW d \in Devices, TakeDelta(d)
  PROVE  SettingsIInv'
  <1> DEFINE m == Head(toDevice[d])
             c == device[d]
             n == [ver |-> m.ver, val |-> IF m.val = Same THEN c.val ELSE m.val]
  <1>1. /\ UNCHANGED <<document, pushes, accepted, shadow, online>> /\ toDevice[d] # <<>>
        /\ toDevice' = [toDevice EXCEPT ![d] = Tail(toDevice[d])]
    BY DEF TakeDelta
  <1>2. /\ m \in [ver : Nat, val : Values \cup {Same}] /\ c \in Setting
        /\ toDevice' \in [Devices -> Seq([ver : Nat, val : Values \cup {Same}])]
    BY <1>1, Taken DEF SettingsIInv, SettingsTypeOK
  <1>3. n \in Setting
    BY <1>2 DEF Setting
  <1>4. online' \subseteq Devices
    BY <1>1 DEF SettingsIInv, SettingsTypeOK
  <1>5. \/ UNCHANGED <<device, toCloud>>
        \/ Report(d, c)
        \/ Report(d, n)
    BY DEF TakeDelta
  <1> HIDE DEF n
  <1>6. device' \in [Devices -> Setting] /\ toCloud' \in [Devices -> Seq(Setting \cup {GetShadow})]
    BY <1>2, <1>3, <1>5, ReportType DEF SettingsIInv, SettingsTypeOK
  <1> QED
    BY <1>1, <1>2, <1>4, <1>6, LinksMove

LEMMA ChooseLocallyHolds ==
  ASSUME SettingsIInv, NEW d \in Devices, NEW v \in Values, ChooseLocally(d, v)
  PROVE  SettingsIInv'
  <1>1. [device[d] EXCEPT !.val = v] \in Setting
    BY DEF SettingsIInv, SettingsTypeOK, Setting
  <1>2. Report(d, [device[d] EXCEPT !.val = v])
        /\ UNCHANGED <<document, pushes, accepted, shadow, toDevice, online>>
    BY DEF ChooseLocally
  <1>3. device' \in [Devices -> Setting] /\ toCloud' \in [Devices -> Seq(Setting \cup {GetShadow})]
    BY <1>1, <1>2, ReportType DEF SettingsIInv
  <1> QED
    BY <1>2, <1>3, LinksMove DEF SettingsIInv, SettingsTypeOK

LEMMA DisconnectHolds ==
  ASSUME SettingsIInv, NEW d \in Devices, Disconnect(d)
  PROVE  SettingsIInv'
  <1>1. /\ toDevice' \in [Devices -> Seq([ver : Nat, val : Values \cup {Same}])]
        /\ toCloud' \in [Devices -> Seq(Setting \cup {GetShadow})]
    BY Cleared DEF Disconnect, SettingsIInv, SettingsTypeOK
  <1> QED
    BY <1>1, LinksMove DEF Disconnect, SettingsIInv, SettingsTypeOK

LEMMA ConnectDeviceHolds ==
  ASSUME SettingsIInv, NEW d \in Devices, ConnectDevice(d)
  PROVE  SettingsIInv'
  <1>1. <<GetShadow, device[d]>> \in Seq(Setting \cup {GetShadow})
    BY DEF SettingsIInv, SettingsTypeOK
  <1>2. toCloud' \in [Devices -> Seq(Setting \cup {GetShadow})] /\ online' \subseteq Devices
    BY <1>1 DEF ConnectDevice, SettingsIInv, SettingsTypeOK
  <1> QED
    BY <1>2, LinksMove DEF ConnectDevice, SettingsIInv, SettingsTypeOK

-----------------------------------------------------------------------------
LEMMA SettingsInitHolds == SettingsInit => SettingsIInv
  <1> SUFFICES ASSUME SettingsInit PROVE SettingsIInv
    OBVIOUS
  <1>1. PICK v \in Values :
          /\ settings = Document(1, v, NoOverrides)
          /\ device = [d \in Devices |-> [ver |-> 1, val |-> v]]
          /\ shadow = [d \in Devices |-> [desired |-> [ver |-> 1, val |-> v],
                                          reported |-> [ver |-> 1, val |-> v]]]
    BY DEF SettingsInit
  <1>2. /\ settings \in Documents(Values) /\ settings.ver = 1
        /\ \A d \in Devices : settings.over[d] = Inherit /\ Desired(settings, d) = [ver |-> 1, val |-> v]
    BY <1>1 DEF Document, Documents, NoOverrides, Desired, Effective
  <1>3. SettingsTypeOK
    BY <1>1, <1>2, NoEditType DEF SettingsInit, SettingsTypeOK, Setting
  <1>4. ASSUME NEW p \in Editors
        PROVE  EditorHolds(p)
    <2>1. editor[p].pc = "idle" /\ editor[p].next.ver = 0
      BY DEF SettingsInit, NoEdit, Editing, Document
    <2> QED
      BY <1>2, <2>1 DEF EditorHolds, Pending
  <1>5. OverridesForgotten /\ DesiredBehind /\ DesiredTruthful /\ forgotten \cap enrolled = {}
    BY <1>1, <1>2 DEF SettingsInit, OverridesForgotten, DesiredBehind, DesiredTruthful
  <1> QED
    BY <1>3, <1>4, <1>5 DEF SettingsIInv

LEMMA SettingsStepHolds == SettingsIInv /\ [SettingsNext]_syncVars => SettingsIInv'
  <1> SUFFICES ASSUME SettingsIInv, [SettingsNext]_syncVars PROVE SettingsIInv'
    OBVIOUS
  <1>1. CASE UNCHANGED syncVars
    BY <1>1 DEF syncVars, document, links, SettingsIInv, SettingsTypeOK, EditorHolds, Pending, Unchanged,
      OverridesForgotten, DesiredBehind, DesiredTruthful, Desired, Effective
  <1>2. CASE \E p \in Editors : Request(p)
    BY <1>2, PutHolds, PatchAllHolds, PatchHolds, RevokeDeviceHolds DEF Request
  <1>3. CASE \E p \in Editors : Serve(p)
    BY <1>3, CheckTargetHolds, WriteSettingsHolds, PurgeReadHolds, PurgeWriteHolds, FanoutHolds DEF Serve
  <1>4. CASE Replicate
    BY <1>4, ReplicateHolds
  <1>5. CASE (\E x \in pushes : Push(x)) \/ (\E e \in accepted : Ingest(e))
    BY <1>5, PushHolds, IngestHolds
  <1>6. CASE \E d \in Devices : Relay(d) \/ Disconnect(d) \/ ConnectDevice(d) \/ \E v \in Values : ChooseLocally(d, v)
    BY <1>6, TakeReportHolds, TakeGetHolds, TakeDeltaHolds, DisconnectHolds, ConnectDeviceHolds,
      ChooseLocallyHolds DEF Relay
  <1> QED
    BY <1>1, <1>2, <1>3, <1>4, <1>5, <1>6 DEF SettingsNext

LEMMA SettingsInvariant == SettingsSpec => []SettingsIInv
  BY SettingsInitHolds, SettingsStepHolds, PTL DEF SettingsSpec

\* The settings, the shadows and all messages keep their types.
THEOREM SettingsTypeCorrect == SettingsSpec => []SettingsTypeOK
  <1>1. SettingsIInv => SettingsTypeOK
    BY DEF SettingsIInv
  <1> QED
    BY <1>1, SettingsInvariant, PTL

\* A purged override stays purged, whatever the other handlers had read before, unless
\* the device was found in the index after it was revoked.
THEOREM OverridesStayForgotten == SettingsSpec => []OverridesForgotten
  <1>1. SettingsIInv => OverridesForgotten
    BY DEF SettingsIInv
  <1> QED
    BY <1>1, SettingsInvariant, PTL

\* Under its present version the account desires nothing of a device but what applies.
THEOREM DesiredIsTruthful == SettingsSpec => []DesiredTruthful
  <1>1. SettingsIInv => DesiredTruthful
    BY DEF SettingsIInv
  <1> QED
    BY <1>1, SettingsInvariant, PTL

-----------------------------------------------------------------------------
(***************************************************************************)
(* The analyses of failures.                                               *)
(***************************************************************************)
RcaPhases == {"idle", "cooldown", "budget", "model", "record", "report",
              "unrecorded", "degraded", "notice"}
Message == [state : {"unborn", "queued", "done"}, signature : Signatures \cup {NoSignature},
            visible : Nat, deliveries : 0 .. MaxDeliveries]
Analysis == [pc : RcaPhases, failure : Failures \cup {NoFailure}, now : Times]

Busy(a) == analyzer[a].pc # "idle"
Born(f) == failure[f].state # "unborn"

\* Whoever is at work has a message, and the messages that matter have signatures.
QueueOK ==
  /\ \A f \in Failures : Born(f) => failure[f].signature \in Signatures
  /\ \A e \in Analyses : asks[e] > 0 => Born(e[1])
  /\ \A a \in Analyzers : Busy(a) => analyzer[a].failure \in Failures /\ Born(analyzer[a].failure)

LEMMA RcaTypes ==
  ASSUME RcaTypeOK
  PROVE  /\ failure \in [Failures -> Message] /\ analyzer \in [Analyzers -> Analysis]
         /\ moment \in Times /\ Times \subseteq Nat
         /\ Cooldown \in Nat /\ Visibility \in Nat /\ MaxDeliveries \in Nat /\ NoticeWindow \in Nat
BY RootCauseAssumption DEF RcaTypeOK, Message, Analysis, RcaPhases, Times

LEMMA UnheardType == Unheard \in Message /\ NoAnalysis \in Analysis
BY RootCauseAssumption DEF Unheard, NoAnalysis, Message, Analysis, RcaPhases, Times

\* The analyzer a goes on to pc, and its message stays or is deleted.
Moves(a, pc) ==
  /\ Busy(a) /\ moment' = moment
  /\ analyzer' = [analyzer EXCEPT ![a] = IF pc = "idle" THEN NoAnalysis
                                         ELSE [analyzer[a] EXCEPT !.pc = pc]]
  /\ \/ failure' = failure
     \/ failure' = [failure EXCEPT ![analyzer[a].failure].state = "done"]

Turns(a, pc) ==
  /\ \/ pc = "idle"
     \/ analyzer[a].pc = "degraded" /\ pc = "notice"
     \/ analyzer[a].pc = "record" /\ pc \in {"report", "unrecorded"}
  /\ UNCHANGED <<rcaStore, asks, reports, notices>>

TakesWindow(a, pc) ==
  /\ analyzer[a].pc = "cooldown" /\ pc \in {"idle", "budget"}
  /\ Free(cooldown[Signature(a)], analyzer[a].now)
  /\ cooldown' = [cooldown EXCEPT ![Signature(a)] = analyzer[a].now + Cooldown]
  /\ UNCHANGED <<budget, notice, asks, reports, notices>>

TakesUnit(a, pc) ==
  LET d == Day(analyzer[a].now) IN
  /\ analyzer[a].pc = "budget" /\ pc \in {"idle", "model"}
  /\ budget[d] < DailyCap /\ budget' = [budget EXCEPT ![d] = @ + 1]
  /\ UNCHANGED <<cooldown, notice, asks, reports, notices>>

Asks(a, pc) ==
  /\ analyzer[a].pc = "model" /\ pc \in {"idle", "record", "degraded"}
  /\ AskModel(a)
  /\ UNCHANGED <<rcaStore, reports, notices>>

Tells(a, pc) ==
  /\ pc = "idle" /\ Free(notice, moment) /\ notice' = moment + NoticeWindow
  /\ notices' = notices \/ notices' = [notices EXCEPT ![moment] = @ + 1]
  /\ UNCHANGED <<cooldown, budget, asks, reports>>

Reports(a, pc) ==
  /\ analyzer[a].pc \in {"report", "unrecorded"} /\ pc = "idle"
  /\ reports' = [reports EXCEPT ![TheAnalysis(a)] = @ + 1]
  /\ UNCHANGED <<rcaStore, asks, notices>>

Effects(a, pc) ==
  \/ Turns(a, pc) \/ TakesWindow(a, pc) \/ TakesUnit(a, pc)
  \/ Asks(a, pc) \/ Tells(a, pc) \/ Reports(a, pc)

LEMMA AnalyzerMoves ==
  ASSUME RcaTypeOK, NEW a \in Analyzers, AnalyzerStep(a)
  PROVE  \/ \E f \in Failures : Deliver(a, f)
         \/ \E pc \in RcaPhases : Moves(a, pc) /\ Effects(a, pc)
<1> DEFINE Goal == \E pc \in RcaPhases : Moves(a, pc) /\ Effects(a, pc)
<1>0. analyzer[a].pc # "idle" => Busy(a)
  BY DEF Busy
<1>1. Busy(a) /\ moment' = moment /\ Done(a) => Moves(a, "idle")
  BY DEF Done, GoesBack, Moves
<1>2. Busy(a) /\ moment' = moment /\ GoesBack(a) => Moves(a, "idle")
  BY DEF GoesBack, Moves
<1>3. ASSUME NEW pc \in RcaPhases \ {"idle"}, Busy(a), moment' = moment, Proceeds(a, pc)
      PROVE  Moves(a, pc)
  <2>1. analyzer' = [analyzer EXCEPT ![a] = [analyzer[a] EXCEPT !.pc = pc]]
    BY <1>3 DEF Proceeds
  <2> QED
    BY <1>3, <2>1 DEF Proceeds, Moves
<1>4. "idle" \in RcaPhases /\ \A pc \in RcaPhases : Moves(a, pc) /\ Effects(a, pc) => Goal
  BY DEF RcaPhases
<1> HIDE DEF Goal
<1>5. CASE ClaimCooldown(a)
  <2>1. Busy(a) /\ moment' = moment
    BY <1>0, <1>5 DEF ClaimCooldown
  <2>2. CASE Free(cooldown[Signature(a)], analyzer[a].now)
             /\ cooldown' = [cooldown EXCEPT ![Signature(a)] = analyzer[a].now + Cooldown]
             /\ (Proceeds(a, "budget") \/ GoesBack(a))
    <3>1. \A pc \in {"idle", "budget"} : TakesWindow(a, pc)
      BY <1>5, <2>2 DEF ClaimCooldown, TakesWindow
    <3>2. Moves(a, "idle") \/ Moves(a, "budget")
      BY <1>2, <1>3, <2>1, <2>2 DEF RcaPhases
    <3> QED
      BY <1>4, <3>1, <3>2 DEF Effects, RcaPhases
  <2>3. CASE (Done(a) \/ GoesBack(a)) /\ UNCHANGED cooldown
    BY <1>1, <1>2, <1>4, <1>5, <2>1, <2>3 DEF ClaimCooldown, Effects, Turns, rcaStore
  <2> QED
    BY <1>5, <2>2, <2>3 DEF ClaimCooldown
<1>6. CASE ClaimDailyBudget(a)
  <2>1. Busy(a) /\ moment' = moment
    BY <1>0, <1>6 DEF ClaimDailyBudget
  <2> DEFINE d == Day(analyzer[a].now)
  <2>2. CASE budget[d] < DailyCap /\ budget' = [budget EXCEPT ![d] = @ + 1]
             /\ (Proceeds(a, "model") \/ GoesBack(a))
    <3>1. \A pc \in {"idle", "model"} : TakesUnit(a, pc)
      BY <1>6, <2>2 DEF ClaimDailyBudget, TakesUnit
    <3>2. Moves(a, "idle") \/ Moves(a, "model")
      BY <1>2, <1>3, <2>1, <2>2 DEF RcaPhases
    <3> QED
      BY <1>4, <3>1, <3>2 DEF Effects, RcaPhases
  <2>3. CASE (Done(a) \/ GoesBack(a)) /\ UNCHANGED budget
    BY <1>1, <1>2, <1>4, <1>6, <2>1, <2>3 DEF ClaimDailyBudget, Effects, Turns, rcaStore
  <2> QED
    BY <1>6, <2>2, <2>3 DEF ClaimDailyBudget
<1>7. CASE GatherFails(a) \/ AnalyzerDies(a)
  BY <1>0, <1>2, <1>4, <1>7 DEF GatherFails, AnalyzerDies, Effects, Turns
<1>8. CASE Converse(a)
  <2>1. Busy(a) /\ moment' = moment
    BY <1>0, <1>8 DEF Converse
  <2>2. \A pc \in {"idle", "record", "degraded"} : Asks(a, pc)
    BY <1>8 DEF Converse, Asks
  <2>3. \E pc \in {"idle", "record", "degraded"} : Moves(a, pc)
    BY <1>2, <1>3, <1>8, <2>1 DEF Converse, RcaPhases
  <2> QED
    BY <1>4, <2>2, <2>3 DEF Effects, RcaPhases
<1>9. CASE RecordDegraded(a)
  <2>1. Busy(a) /\ moment' = moment
    BY <1>0, <1>9 DEF RecordDegraded
  <2>2. \A pc \in {"idle", "notice"} : Turns(a, pc)
    BY <1>9 DEF RecordDegraded, Turns
  <2>3. \E pc \in {"idle", "notice"} : Moves(a, pc)
    BY <1>1, <1>2, <1>3, <1>9, <2>1 DEF RecordDegraded, RcaPhases
  <2> QED
    BY <1>4, <2>2, <2>3 DEF Effects, RcaPhases
<1>10. CASE SendNotice(a)
  <2>1. Moves(a, "idle")
    BY <1>0, <1>1, <1>10 DEF SendNotice
  <2>2. Turns(a, "idle") \/ Tells(a, "idle")
    BY <1>10 DEF SendNotice, Turns, Tells, rcaStore
  <2> QED
    BY <1>4, <2>1, <2>2 DEF Effects
<1>11. CASE PutRecord(a)
  <2>1. Busy(a) /\ moment' = moment
    BY <1>0, <1>11 DEF PutRecord
  <2>2. \A pc \in {"report", "unrecorded"} : Turns(a, pc)
    BY <1>11 DEF PutRecord, Turns
  <2>3. \E pc \in {"report", "unrecorded"} : Moves(a, pc)
    BY <1>3, <1>11, <2>1 DEF PutRecord, RcaPhases
  <2> QED
    BY <1>4, <2>2, <2>3 DEF Effects, RcaPhases
<1>12. CASE SendReport(a)
  <2>1. Moves(a, "idle")
    BY <1>0, <1>1, <1>2, <1>12 DEF SendReport
  <2>2. Turns(a, "idle") \/ Reports(a, "idle")
    BY <1>12 DEF SendReport, Turns, Reports
  <2> QED
    BY <1>4, <2>1, <2>2 DEF Effects
<1> QED
  BY <1>5, <1>6, <1>7, <1>8, <1>9, <1>10, <1>11, <1>12 DEF AnalyzerStep, Goal

\* What a move leaves alone.
LEMMA MoveKeeps ==
  ASSUME RcaTypeOK, QueueOK, NEW a \in Analyzers, NEW pc \in RcaPhases, Moves(a, pc)
  PROVE  /\ analyzer[a].failure \in Failures
         /\ \A b \in Analyzers \ {a} : analyzer'[b] = analyzer[b]
         /\ analyzer'[a].pc = pc
         /\ pc # "idle" => /\ analyzer'[a].failure = analyzer[a].failure
                           /\ analyzer'[a].now = analyzer[a].now
         /\ \A f \in Failures :
              /\ failure'[f].signature = failure[f].signature
              /\ Born(f)' <=> Born(f)
         /\ failure' \in [Failures -> Message] /\ analyzer' \in [Analyzers -> Analysis]
<1> DEFINE f0 == analyzer[a].failure
<1>1. f0 \in Failures /\ Born(f0)
  BY DEF QueueOK, Moves
<1>2. failure \in [Failures -> Message] /\ analyzer \in [Analyzers -> Analysis]
  BY RcaTypes
<1>3. analyzer' \in [Analyzers -> Analysis]
  <2>1. [analyzer[a] EXCEPT !.pc = pc] \in Analysis /\ NoAnalysis \in Analysis
    BY <1>2, UnheardType DEF Analysis
  <2> QED
    BY <1>2, <2>1 DEF Moves
<1>4. /\ \A b \in Analyzers \ {a} : analyzer'[b] = analyzer[b]
      /\ analyzer'[a].pc = pc
      /\ pc # "idle" => analyzer'[a].failure = f0 /\ analyzer'[a].now = analyzer[a].now
  <2>1. analyzer'[a] = IF pc = "idle" THEN NoAnalysis ELSE [analyzer[a] EXCEPT !.pc = pc]
    BY <1>2 DEF Moves
  <2>2. analyzer[a] \in Analysis
    BY <1>2
  <2>3. pc # "idle" => /\ analyzer'[a].pc = pc /\ analyzer'[a].failure = analyzer[a].failure
                       /\ analyzer'[a].now = analyzer[a].now
    BY <2>1, <2>2 DEF Analysis
  <2>4. \A b \in Analyzers \ {a} : analyzer'[b] = analyzer[b]
    BY <1>2 DEF Moves
  <2>5. pc = "idle" => analyzer'[a].pc = pc
    BY <2>1 DEF NoAnalysis
  <2> QED
    BY <2>3, <2>4, <2>5
<1>5. failure' \in [Failures -> Message]
      /\ \A f \in Failures :
           /\ failure'[f].signature = failure[f].signature
           /\ failure'[f].state = failure[f].state \/ (f = f0 /\ failure'[f].state = "done")
  <2>1. CASE failure' = failure
    BY <1>2, <2>1
  <2>2. CASE failure' = [failure EXCEPT ![f0].state = "done"]
    <3>1. failure'[f0] = [failure[f0] EXCEPT !.state = "done"] /\ failure[f0] \in Message
      BY <1>1, <1>2, <2>2
    <3>2. failure'[f0] \in Message
      BY <3>1 DEF Message
    <3>3. /\ failure'[f0].signature = failure[f0].signature
          /\ failure'[f0].state = "done"
      BY <3>1 DEF Message
    <3>4. \A f \in Failures \ {f0} : failure'[f] = failure[f]
      BY <1>2, <2>2
    <3>5. failure' \in [Failures -> Message]
      BY <1>2, <2>2, <3>1, <3>2
    <3> QED
      BY <3>3, <3>4, <3>5
  <2> QED
    BY <2>1, <2>2 DEF Moves
<1>6. \A f \in Failures : Born(f)' <=> Born(f)
  BY <1>1, <1>5 DEF Born
<1> QED
  BY <1>1, <1>3, <1>4, <1>5, <1>6

\* A delivery gives the analyzer a message and the present instant.
LEMMA DeliverKeeps ==
  ASSUME RcaTypeOK, QueueOK, NEW a \in Analyzers, NEW f \in Failures, Deliver(a, f)
  PROVE  /\ failure' \in [Failures -> Message] /\ analyzer' \in [Analyzers -> Analysis]
         /\ \A b \in Analyzers \ {a} : analyzer'[b] = analyzer[b]
         /\ analyzer'[a].pc = "cooldown" /\ analyzer'[a].failure = f /\ analyzer'[a].now = moment
         /\ \A g \in Failures \ {f} : failure'[g] = failure[g]
         /\ Born(f) /\ Born(f)' /\ failure'[f].signature = failure[f].signature
<1>1. /\ failure \in [Failures -> Message] /\ analyzer \in [Analyzers -> Analysis]
      /\ moment \in Times /\ moment \in Nat
  BY RcaTypes
<1>2. Waiting(f)
  BY DEF Deliver
<1> DEFINE m == [failure[f] EXCEPT !.visible = moment + Visibility, !.deliveries = @ + 1]
           d == failure[f].deliveries
<1>3. failure' = [failure EXCEPT ![f] = m]
  BY DEF Deliver
<1>4. failure[f] \in Message /\ d \in Nat /\ d < MaxDeliveries
  BY <1>1, <1>2 DEF Message, Waiting
<1>5. m.visible = moment + Visibility /\ m.deliveries = d + 1
      /\ m.state = failure[f].state /\ m.signature = failure[f].signature
  BY <1>4 DEF Message
<1>6. m \in Message
  <2>1. moment + Visibility \in Nat /\ d + 1 \in 0 .. MaxDeliveries
    BY <1>1, <1>4, RcaTypes
  <2> QED
    BY <1>4, <2>1 DEF Message
<1> HIDE DEF m
<1>7. /\ failure' \in [Failures -> Message] /\ failure'[f] = m
      /\ \A g \in Failures \ {f} : failure'[g] = failure[g]
  BY <1>1, <1>3, <1>6
<1>8. Born(f) /\ Born(f)'
  BY <1>2, <1>5, <1>7 DEF Waiting, Born
<1>9. /\ analyzer' \in [Analyzers -> Analysis]
      /\ \A b \in Analyzers \ {a} : analyzer'[b] = analyzer[b]
      /\ analyzer'[a].pc = "cooldown" /\ analyzer'[a].failure = f /\ analyzer'[a].now = moment
  BY <1>1 DEF Deliver, Analysis, RcaPhases
<1> QED
  BY <1>5, <1>7, <1>8, <1>9

LEMMA RcaTypesInit == RcaInit => RcaTypeOK
<1> SUFFICES ASSUME RcaInit PROVE RcaTypeOK
  OBVIOUS
<1>1. Unheard \in Message /\ NoAnalysis \in Analysis /\ 0 \in Times /\ 0 \in 0 .. DailyCap
  BY UnheardType, RootCauseAssumption DEF Times
<1> QED
  BY <1>1 DEF RcaInit, RcaTypeOK, Message, Analysis, RcaPhases

LEMMA RcaTypesStep == RcaTypeOK /\ QueueOK /\ [RcaNext]_rcaVars => RcaTypeOK'
<1> SUFFICES ASSUME RcaTypeOK, QueueOK, [RcaNext]_rcaVars PROVE RcaTypeOK'
  OBVIOUS
<1>1. CASE UNCHANGED rcaVars
  BY <1>1 DEF RcaTypeOK, rcaVars, rcaStore
<1>2. ASSUME NEW f \in Failures, Enqueue(f) PROVE RcaTypeOK'
  <2>1. PICK s \in Signatures :
          failure' = [failure EXCEPT ![f] = [Unheard EXCEPT !.state = "queued", !.signature = s,
                                                            !.visible = moment]]
    BY <1>2 DEF Enqueue
  <2>2. [Unheard EXCEPT !.state = "queued", !.signature = s, !.visible = moment] \in Message
    <3>1. Unheard \in Message /\ moment \in Nat
      BY UnheardType, RcaTypes
    <3> QED
      BY <3>1 DEF Message
  <2>3. failure' \in [Failures -> Message]
    BY <2>1, <2>2, RcaTypes
  <2> QED
    BY <1>2, <2>3 DEF Enqueue, RcaTypeOK, Message, rcaStore
<1>3. CASE TimePasses
  <2>1. moment' \in Times
    BY <1>3, RootCauseAssumption DEF TimePasses, RcaTypeOK, Times
  <2> QED
    BY <1>3, <2>1 DEF TimePasses, RcaTypeOK, rcaStore
<1>4. ASSUME NEW a \in Analyzers, NEW f \in Failures, Deliver(a, f) PROVE RcaTypeOK'
  <2>1. failure' \in [Failures -> Message] /\ analyzer' \in [Analyzers -> Analysis]
    BY <1>4, DeliverKeeps
  <2> QED
    BY <1>4, <2>1 DEF Deliver, RcaTypeOK, Message, Analysis, RcaPhases, rcaStore
<1>5. ASSUME NEW a \in Analyzers, NEW pc \in RcaPhases, Moves(a, pc), Effects(a, pc)
      PROVE  RcaTypeOK'
  <2>1. /\ failure' \in [Failures -> Message] /\ analyzer' \in [Analyzers -> Analysis]
        /\ moment' = moment
    BY <1>5, MoveKeeps DEF Moves
  <2>2. analyzer[a].now \in Times /\ analyzer[a].now \in Nat
    BY RcaTypes DEF Analysis
  <2>3. cooldown' \in [Signatures -> Int]
    BY <1>5, <2>2, RcaTypes
    DEF RcaTypeOK, Effects, Turns, TakesWindow, TakesUnit, Asks, Tells, Reports, rcaStore
  <2>4. budget' \in [Days -> 0 .. DailyCap]
    <3>1. CASE TakesUnit(a, pc)
      <4> DEFINE d == Day(analyzer[a].now)
      <4>1. d \in Days => budget[d] + 1 \in 0 .. DailyCap
        BY <3>1, RootCauseAssumption DEF TakesUnit, RcaTypeOK
      <4>2. budget' = [budget EXCEPT ![d] = budget[d] + 1]
        BY <3>1 DEF TakesUnit
      <4> HIDE DEF d
      <4> QED
        BY <4>1, <4>2 DEF RcaTypeOK
    <3> QED
      BY <1>5, <3>1 DEF RcaTypeOK, Effects, Turns, TakesWindow, Asks, Tells, Reports, rcaStore
  <2>5. notice' \in Int
    BY <1>5, RcaTypes
    DEF RcaTypeOK, Effects, Turns, TakesWindow, TakesUnit, Asks, Tells, Reports, rcaStore
  <2>6. PICK e \in Analyses : e = TheAnalysis(a)
    BY <1>5, <2>2, MoveKeeps DEF TheAnalysis, Analyses
  <2>7. asks' \in [Analyses -> Nat] /\ reports' \in [Analyses -> Nat]
    <3>1. asks \in [Analyses -> Nat] /\ reports \in [Analyses -> Nat]
      BY DEF RcaTypeOK
    <3>2. \/ asks' = asks /\ reports' = reports
          \/ asks' = [asks EXCEPT ![e] = @ + 1] /\ reports' = reports
          \/ asks' = asks /\ reports' = [reports EXCEPT ![e] = @ + 1]
      BY <1>5, <2>6 DEF Effects, Turns, TakesWindow, TakesUnit, Asks, AskModel, Tells, Reports
    <3> QED
      BY <3>1, <3>2
  <2>8. notices' \in [Times -> Nat]
    BY <1>5 DEF RcaTypeOK, Effects, Turns, TakesWindow, TakesUnit, Asks, Tells, Reports
  <2> QED
    BY <2>1, <2>3, <2>4, <2>5, <2>7, <2>8 DEF RcaTypeOK, Message, Analysis, RcaPhases
<1> QED
  BY <1>1, <1>2, <1>3, <1>4, <1>5, AnalyzerMoves DEF RcaNext

-----------------------------------------------------------------------------
\* The messages.
LEMMA QueueInit == RcaInit => QueueOK
BY DEF RcaInit, QueueOK, Born, Busy, Unheard, NoAnalysis

\* A step that takes no message up but one that has a signature.
LEMMA QueueStays ==
  ASSUME QueueOK,
         \A f \in Failures : Born(f) => Born(f)' /\ failure'[f].signature = failure[f].signature,
         \A f \in Failures : Born(f)' => Born(f) \/ failure'[f].signature \in Signatures,
         \A e \in Analyses : asks'[e] > 0 => asks[e] > 0 \/ Born(e[1]),
         \A a \in Analyzers : Busy(a)' =>
           \/ Busy(a) /\ analyzer'[a].failure = analyzer[a].failure
           \/ analyzer'[a].failure \in Failures /\ Born(analyzer'[a].failure)
  PROVE  QueueOK'
<1>1. \A f \in Failures : Born(f)' => failure'[f].signature \in Signatures
  BY DEF QueueOK
<1>2. \A e \in Analyses : asks'[e] > 0 => Born(e[1])'
  <2>1. \A e \in Analyses : e[1] \in Failures
    BY DEF Analyses
  <2> QED
    BY <2>1 DEF QueueOK, Born
<1>3. ASSUME NEW a \in Analyzers, Busy(a)'
      PROVE  analyzer'[a].failure \in Failures /\ Born(analyzer[a].failure)'
  BY <1>3 DEF QueueOK, Born
<1> QED
  BY <1>1, <1>2, <1>3 DEF QueueOK, Analyses, Times

LEMMA QueueStep == RcaTypeOK /\ QueueOK /\ [RcaNext]_rcaVars => QueueOK'
<1> SUFFICES ASSUME RcaTypeOK, QueueOK, [RcaNext]_rcaVars PROVE QueueOK'
  OBVIOUS
<1>1. CASE UNCHANGED <<failure, analyzer, asks>>
  BY <1>1, QueueStays DEF Born, Busy
<1>2. ASSUME NEW f \in Failures, Enqueue(f) PROVE QueueOK'
  <2>1. PICK s \in Signatures :
          failure' = [failure EXCEPT ![f] = [Unheard EXCEPT !.state = "queued", !.signature = s,
                                                            !.visible = moment]]
    BY <1>2 DEF Enqueue
  <2>2. /\ failure'[f].signature = s
        /\ \A g \in Failures \ {f} : failure'[g] = failure[g]
    BY <2>1, RcaTypes DEF Unheard
  <2>3. ~ Born(f) /\ UNCHANGED <<analyzer, asks>>
    BY <1>2 DEF Enqueue, Born
  <2> QED
    BY <2>2, <2>3, QueueStays DEF Born, Busy
<1>3. CASE TimePasses
  BY <1>1, <1>3 DEF TimePasses
<1>4. ASSUME NEW a \in Analyzers, NEW f \in Failures, Deliver(a, f) PROVE QueueOK'
  <2>1. asks' = asks
    BY <1>4 DEF Deliver
  <2>2. \A b \in Analyzers : Busy(b)' =>
           \/ Busy(b) /\ analyzer'[b].failure = analyzer[b].failure
           \/ analyzer'[b].failure \in Failures /\ Born(analyzer'[b].failure)
    BY <1>4, DeliverKeeps DEF Busy
  <2>3. \A g \in Failures : /\ Born(g)' <=> Born(g)
                            /\ failure'[g].signature = failure[g].signature
    BY <1>4, DeliverKeeps DEF Born
  <2> QED
    BY <2>1, <2>2, <2>3, QueueStays DEF QueueOK
<1>5. ASSUME NEW a \in Analyzers, NEW pc \in RcaPhases, Moves(a, pc), Effects(a, pc)
      PROVE  QueueOK'
  <2>1. analyzer[a].failure \in Failures /\ Born(analyzer[a].failure) /\ Busy(a)
    BY <1>5 DEF Moves, QueueOK
  <2>2. \A e \in Analyses : asks'[e] > 0 => asks[e] > 0 \/ Born(e[1])
    <3>1. asks' = asks \/ asks' = [asks EXCEPT ![TheAnalysis(a)] = @ + 1]
      BY <1>5 DEF Effects, Turns, TakesWindow, TakesUnit, Asks, AskModel, Tells, Reports
    <3>2. TheAnalysis(a)[1] = analyzer[a].failure
      BY DEF TheAnalysis
    <3> QED
      BY <2>1, <3>1, <3>2 DEF RcaTypeOK
  <2>3. \A b \in Analyzers : Busy(b)' =>
           Busy(b) /\ analyzer'[b].failure = analyzer[b].failure
    BY <1>5, <2>1, MoveKeeps DEF Busy
  <2>4. \A f \in Failures : (Born(f)' <=> Born(f)) /\ failure'[f].signature = failure[f].signature
    BY <1>5, MoveKeeps
  <2> QED
    BY <2>2, <2>3, <2>4, QueueStays DEF QueueOK
<1>6. CASE UNCHANGED rcaVars
  BY <1>1, <1>6 DEF rcaVars
<1> QED
  BY <1>2, <1>3, <1>4, <1>5, <1>6, AnalyzerMoves DEF RcaNext

-----------------------------------------------------------------------------
\* The claims.
Claimed(a) == analyzer[a].pc \notin {"idle", "cooldown"}

\* The message f was claimed at the instant c, by somebody who is still at work
\* or has asked the model.
ClaimOf(f, c) ==
  \/ asks[<<f, c>>] > 0
  \/ \E a \in Analyzers : Claimed(a) /\ analyzer[a].failure = f /\ analyzer[a].now = c

\* The claims of a signature lie apart, and the last of them is the longest.
ClaimsOK ==
  \A f \in Failures : \A c \in Times : ClaimOf(f, c) =>
    /\ c + Cooldown <= cooldown[failure[f].signature]
    /\ \A g \in Failures : failure[g].signature = failure[f].signature =>
         \A d \in Times : ClaimOf(g, d) =>
           (g = f /\ d = c) \/ c > d + Cooldown \/ d > c + Cooldown

LEMMA ClaimsInit == RcaInit => ClaimsOK
BY DEF Analyses, RcaInit, ClaimsOK, ClaimOf, Claimed, NoAnalysis

LEMMA ClaimBorn ==
  ASSUME QueueOK, NEW f \in Failures, NEW c \in Times, ClaimOf(f, c)
  PROVE  Born(f) /\ failure[f].signature \in Signatures
<1>1. <<f, c>> \in Analyses /\ <<f, c>>[1] = f
  BY DEF Analyses
<1> QED
  BY <1>1 DEF QueueOK, ClaimOf, Claimed, Busy

\* A step that adds no claim and shortens none.
LEMMA ClaimsStay ==
  ASSUME RcaTypeOK, RcaTypeOK', QueueOK, ClaimsOK,
         \A f \in Failures : \A c \in Times : ClaimOf(f, c)' => ClaimOf(f, c),
         \A f \in Failures : Born(f) =>
           /\ failure'[f].signature = failure[f].signature
           /\ cooldown'[failure[f].signature] >= cooldown[failure[f].signature]
  PROVE  ClaimsOK'
<1> SUFFICES ASSUME NEW f \in Failures, NEW c \in Times, ClaimOf(f, c)'
             PROVE  /\ c + Cooldown <= cooldown'[failure'[f].signature]
                    /\ \A g \in Failures : failure'[g].signature = failure'[f].signature =>
                         \A d \in Times : ClaimOf(g, d)' =>
                           (g = f /\ d = c) \/ c > d + Cooldown \/ d > c + Cooldown
  BY DEF ClaimsOK, Times
<1>1. ClaimOf(f, c) /\ Born(f) /\ failure[f].signature \in Signatures
  BY ClaimBorn
<1>2. c + Cooldown <= cooldown[failure[f].signature]
  BY <1>1 DEF ClaimsOK
<1>3. /\ c \in Nat /\ Cooldown \in Nat
      /\ cooldown[failure[f].signature] \in Int /\ cooldown'[failure[f].signature] \in Int
  BY <1>1, RcaTypes DEF RcaTypeOK
<1>4. c + Cooldown <= cooldown'[failure'[f].signature]
  BY <1>1, <1>2, <1>3
<1>5. ASSUME NEW g \in Failures, failure'[g].signature = failure'[f].signature,
             NEW d \in Times, ClaimOf(g, d)'
      PROVE  (g = f /\ d = c) \/ c > d + Cooldown \/ d > c + Cooldown
  <2>1. ClaimOf(g, d) /\ Born(g)
    BY <1>5, ClaimBorn
  <2>2. failure[g].signature = failure[f].signature
    BY <1>1, <1>5, <2>1
  <2> QED
    BY <1>1, <2>1, <2>2 DEF ClaimsOK
<1> QED
  BY <1>4, <1>5

\* Whoever finds the window of the signature free is later than a cooldown after
\* every claim of the signature.
LEMMA WindowFree ==
  ASSUME RcaTypeOK, QueueOK, ClaimsOK, NEW a \in Analyzers, Busy(a),
         NEW f \in Failures, f = analyzer[a].failure,
         Free(cooldown[Signature(a)], analyzer[a].now)
  PROVE  /\ failure[f].signature \in Signatures
         /\ \A g \in Failures, d \in Times :
              ClaimOf(g, d) /\ failure[g].signature = failure[f].signature
                => analyzer[a].now > d + Cooldown
<1>1. Born(f) /\ analyzer[a].now \in Nat /\ Cooldown \in Nat /\ Times \subseteq Nat
  BY RcaTypes DEF QueueOK, Analysis
<1>2. failure[f].signature \in Signatures
  BY <1>1 DEF QueueOK
<1>3. cooldown[failure[f].signature] \in Int /\ cooldown[failure[f].signature] < analyzer[a].now
  BY <1>2 DEF Free, Signature, RcaTypeOK
<1>4. ASSUME NEW g \in Failures, NEW d \in Times, ClaimOf(g, d),
             failure[g].signature = failure[f].signature
      PROVE  analyzer[a].now > d + Cooldown
  <2>1. d + Cooldown <= cooldown[failure[f].signature]
    BY <1>4 DEF ClaimsOK
  <2> QED
    BY <1>1, <1>3, <2>1
<1> QED
  BY <1>2, <1>4

\* An analyzer that claims adds one claim.
LEMMA ClaimsTaken ==
  ASSUME RcaTypeOK, RcaTypeOK', QueueOK, ClaimsOK, NEW a \in Analyzers,
         Moves(a, "budget"), TakesWindow(a, "budget")
  PROVE  ClaimsOK'
<1>1. PICK f0 \in Failures : f0 = analyzer[a].failure
  BY DEF Moves, QueueOK
<1> DEFINE n == analyzer[a].now
           s == failure[f0].signature
<1>2. /\ s \in Signatures
      /\ \A g \in Failures, d \in Times :
           ClaimOf(g, d) /\ failure[g].signature = s => n > d + Cooldown
  BY <1>1, WindowFree DEF Moves, TakesWindow
<1>3. n \in Times /\ n \in Nat /\ Cooldown \in Nat /\ Times \subseteq Nat
  BY RcaTypes DEF Analysis
<1>4. /\ cooldown'[s] = n + Cooldown
      /\ \A z \in Signatures \ {s} : cooldown'[z] = cooldown[z]
  BY <1>1, <1>2 DEF TakesWindow, Signature, RcaTypeOK
<1>5. \A f \in Failures : failure'[f].signature = failure[f].signature
  BY MoveKeeps DEF RcaPhases
<1>6. ASSUME NEW f \in Failures, NEW c \in Times, ClaimOf(f, c)'
      PROVE  (f = f0 /\ c = n) \/ ClaimOf(f, c)
  <2>1. asks' = asks
    BY DEF TakesWindow
  <2>2. /\ \A b \in Analyzers \ {a} : analyzer'[b] = analyzer[b]
        /\ analyzer'[a].failure = f0 /\ analyzer'[a].now = n
    BY <1>1, MoveKeeps DEF RcaPhases
  <2> QED
    BY <1>6, <2>1, <2>2 DEF ClaimOf, Claimed
<1> HIDE DEF n, s
<1> SUFFICES ASSUME NEW f \in Failures, NEW c \in Times, ClaimOf(f, c)'
             PROVE  /\ c + Cooldown <= cooldown'[failure'[f].signature]
                    /\ \A g \in Failures : failure'[g].signature = failure'[f].signature =>
                         \A d \in Times : ClaimOf(g, d)' =>
                           (g = f /\ d = c) \/ c > d + Cooldown \/ d > c + Cooldown
  BY DEF ClaimsOK, Times
<1>7. CASE f = f0 /\ c = n
  <2>1. c + Cooldown <= cooldown'[failure'[f].signature]
    BY <1>3, <1>4, <1>5, <1>7 DEF s
  <2>2. ASSUME NEW g \in Failures, failure'[g].signature = failure'[f].signature,
               NEW d \in Times, ClaimOf(g, d)'
        PROVE  (g = f /\ d = c) \/ c > d + Cooldown
    BY <1>2, <1>5, <1>6, <1>7, <2>2 DEF s
  <2> QED
    BY <2>1, <2>2
<1>8. CASE ClaimOf(f, c)
  <2>1. /\ c + Cooldown <= cooldown[failure[f].signature]
        /\ failure[f].signature \in Signatures
    BY <1>8, ClaimBorn DEF ClaimsOK
  <2>2. failure[f].signature = s => n > c + Cooldown
    BY <1>2, <1>8
  <2>3. c + Cooldown <= cooldown'[failure'[f].signature]
    <3>1. CASE failure[f].signature = s
      BY <1>3, <1>4, <1>5, <2>2, <3>1
    <3>2. CASE failure[f].signature # s
      BY <1>4, <1>5, <2>1, <3>2
    <3> QED
      BY <3>1, <3>2
  <2>4. ASSUME NEW g \in Failures, failure'[g].signature = failure'[f].signature,
               NEW d \in Times, ClaimOf(g, d)'
        PROVE  (g = f /\ d = c) \/ c > d + Cooldown \/ d > c + Cooldown
    <3>1. failure[g].signature = failure[f].signature
      BY <1>5, <2>4
    <3>2. CASE g = f0 /\ d = n
      BY <2>2, <3>1, <3>2 DEF s
    <3>3. CASE ClaimOf(g, d)
      BY <1>8, <3>1, <3>3 DEF ClaimsOK
    <3> QED
      BY <1>6, <2>4, <3>2, <3>3
  <2> QED
    BY <2>3, <2>4
<1> QED
  BY <1>6, <1>7, <1>8

\* Any other move adds none: whoever asks the model has the claim already.
LEMMA MoveClaims ==
  ASSUME RcaTypeOK, QueueOK, NEW a \in Analyzers, NEW pc \in RcaPhases,
         Moves(a, pc), Effects(a, pc), ~ (TakesWindow(a, pc) /\ pc = "budget")
  PROVE  \A f \in Failures : \A c \in Times : ClaimOf(f, c)' => ClaimOf(f, c)
<1> SUFFICES ASSUME NEW f \in Failures, NEW c \in Times, ClaimOf(f, c)' PROVE ClaimOf(f, c)
  OBVIOUS
<1>1. \A b \in Analyzers \ {a} : analyzer'[b] = analyzer[b]
  BY MoveKeeps
<1>2. analyzer'[a].pc = pc
  BY MoveKeeps
<1>3. pc # "idle" => /\ analyzer'[a].failure = analyzer[a].failure
                     /\ analyzer'[a].now = analyzer[a].now
  BY MoveKeeps
<1>4. Claimed(a)' => Claimed(a) /\ pc # "idle"
  BY <1>2 DEF Claimed, Effects, Turns, TakesWindow, TakesUnit, Asks, Tells, Reports
<1>5. \A b \in Analyzers : Claimed(b)' =>
        Claimed(b) /\ analyzer'[b].failure = analyzer[b].failure /\ analyzer'[b].now = analyzer[b].now
  BY <1>1, <1>3, <1>4 DEF Claimed
<1>6. (\E b \in Analyzers : Claimed(b)' /\ analyzer'[b].failure = f /\ analyzer'[b].now = c)
        => ClaimOf(f, c)
  BY <1>5 DEF ClaimOf
<1>7. asks'[<<f, c>>] > 0 => ClaimOf(f, c)
  <2>1. <<f, c>> \in Analyses /\ asks \in [Analyses -> Nat]
    BY DEF Analyses, RcaTypeOK
  <2>2. CASE Asks(a, pc)
    <3>1. asks' = [asks EXCEPT ![TheAnalysis(a)] = @ + 1] /\ Claimed(a)
      BY <2>2 DEF Asks, AskModel, Claimed
    <3>2. CASE TheAnalysis(a) = <<f, c>>
      BY <3>1, <3>2 DEF TheAnalysis, ClaimOf
    <3>3. CASE TheAnalysis(a) # <<f, c>>
      BY <2>1, <3>1, <3>3 DEF ClaimOf
    <3> QED
      BY <3>2, <3>3
  <2>3. CASE ~ Asks(a, pc)
    BY <2>3 DEF Effects, Turns, TakesWindow, TakesUnit, Tells, Reports, ClaimOf
  <2> QED
    BY <2>2, <2>3
<1> QED
  BY <1>6, <1>7 DEF ClaimOf

LEMMA ClaimsStep ==
  RcaTypeOK /\ RcaTypeOK' /\ QueueOK /\ ClaimsOK /\ [RcaNext]_rcaVars => ClaimsOK'
<1> SUFFICES ASSUME RcaTypeOK, RcaTypeOK', QueueOK, ClaimsOK, [RcaNext]_rcaVars PROVE ClaimsOK'
  OBVIOUS
<1>1. CASE UNCHANGED <<failure, analyzer, rcaStore, asks>>
  BY <1>1 DEF ClaimsOK, ClaimOf, Claimed, rcaStore, Times
<1>2. ASSUME NEW f \in Failures, Enqueue(f) PROVE ClaimsOK'
  <2>1. PICK m : failure' = [failure EXCEPT ![f] = m]
    BY <1>2 DEF Enqueue
  <2>2. \A g \in Failures : Born(g) => failure'[g] = failure[g]
    BY <1>2, <2>1, RcaTypes DEF Enqueue, Born
  <2>3. \A g \in Failures : \A c \in Times : ClaimOf(g, c)' => ClaimOf(g, c)
    BY <1>2 DEF Enqueue, ClaimOf, Claimed
  <2>4. cooldown' = cooldown
    BY <1>2 DEF Enqueue, rcaStore
  <2>5. ASSUME NEW g \in Failures, Born(g)
        PROVE  /\ failure'[g].signature = failure[g].signature
               /\ cooldown'[failure[g].signature] >= cooldown[failure[g].signature]
    <3>1. failure'[g] = failure[g] /\ failure[g].signature \in Signatures
      BY <2>2, <2>5 DEF QueueOK
    <3> QED
      BY <2>4, <3>1 DEF RcaTypeOK
  <2> QED
    BY <2>3, <2>5, ClaimsStay
<1>3. CASE TimePasses
  BY <1>1, <1>3 DEF TimePasses
<1>4. ASSUME NEW a \in Analyzers, NEW f \in Failures, Deliver(a, f) PROVE ClaimsOK'
  <2>1. asks' = asks /\ cooldown' = cooldown
    BY <1>4 DEF Deliver, rcaStore
  <2>2. /\ \A b \in Analyzers \ {a} : analyzer'[b] = analyzer[b]
        /\ analyzer'[a].pc = "cooldown"
    BY <1>4, DeliverKeeps
  <2>3. \A g \in Failures : \A c \in Times : ClaimOf(g, c)' => ClaimOf(g, c)
    BY <2>1, <2>2 DEF ClaimOf, Claimed
  <2>4. ASSUME NEW g \in Failures, Born(g)
        PROVE  /\ failure'[g].signature = failure[g].signature
               /\ cooldown'[failure[g].signature] >= cooldown[failure[g].signature]
    <3>1. failure'[g].signature = failure[g].signature
      BY <1>4, DeliverKeeps
    <3>2. failure[g].signature \in Signatures
      BY <2>4 DEF QueueOK
    <3> QED
      BY <2>1, <3>1, <3>2 DEF RcaTypeOK
  <2> QED
    BY <2>3, <2>4, ClaimsStay
<1>5. ASSUME NEW a \in Analyzers, NEW pc \in RcaPhases, Moves(a, pc), Effects(a, pc)
      PROVE  ClaimsOK'
  <2>1. CASE TakesWindow(a, pc) /\ pc = "budget"
    BY <1>5, <2>1, ClaimsTaken
  <2>2. CASE ~ (TakesWindow(a, pc) /\ pc = "budget")
    <3>1. \A f \in Failures : \A c \in Times : ClaimOf(f, c)' => ClaimOf(f, c)
      BY <1>5, <2>2, MoveClaims
    <3>2. \A s \in Signatures : cooldown'[s] >= cooldown[s]
      <4>1. CASE TakesWindow(a, pc)
        <5>1. PICK n \in Times : n = analyzer[a].now
          BY RcaTypes DEF Analysis
        <5>2. PICK s : s = Signature(a)
          OBVIOUS
        <5>3. cooldown[s] < n /\ cooldown' = [cooldown EXCEPT ![s] = n + Cooldown]
          BY <4>1, <5>1, <5>2 DEF TakesWindow, Free
        <5>4. n \in Nat /\ Cooldown \in Nat
          BY RcaTypes
        <5> QED
          BY <5>3, <5>4 DEF RcaTypeOK
      <4>2. CASE cooldown' = cooldown
        BY <4>2 DEF RcaTypeOK
      <4> QED
        BY <1>5, <4>1, <4>2 DEF Effects, Turns, TakesUnit, Asks, Tells, Reports, rcaStore
    <3>3. ASSUME NEW g \in Failures, Born(g)
          PROVE  /\ failure'[g].signature = failure[g].signature
                 /\ cooldown'[failure[g].signature] >= cooldown[failure[g].signature]
      <4>1. failure'[g].signature = failure[g].signature
        BY <1>5, MoveKeeps
      <4>2. failure[g].signature \in Signatures
        BY <3>3 DEF QueueOK
      <4> QED
        BY <3>2, <4>1, <4>2
    <3> QED
      BY <3>1, <3>3, ClaimsStay
  <2> QED
    BY <2>1, <2>2
<1>6. CASE UNCHANGED rcaVars
  BY <1>1, <1>6 DEF rcaVars
<1> QED
  BY <1>2, <1>3, <1>4, <1>5, <1>6, AnalyzerMoves DEF RcaNext

-----------------------------------------------------------------------------
\* What an analyzer that has claimed its message has done with it so far.
Work(a) ==
  Claimed(a) =>
    /\ TheAnalysis(a) \in Analyses /\ reports[TheAnalysis(a)] = 0
    /\ asks[TheAnalysis(a)] = IF analyzer[a].pc \in {"budget", "model"} THEN 0 ELSE 1

WorkOK ==
  /\ \A e \in Analyses : asks[e] <= 1 /\ reports[e] <= asks[e]
  /\ \A a \in Analyzers : Work(a)
  /\ \A a \in Analyzers : \A b \in Analyzers \ {a} :
       Claimed(a) /\ Claimed(b) => TheAnalysis(a) # TheAnalysis(b)

LEMMA WorkInit == RcaInit => WorkOK
BY DEF RcaInit, WorkOK, Work, Claimed, NoAnalysis

\* A step after which nobody has claimed more than before.
LEMMA WorkStays ==
  ASSUME WorkOK, UNCHANGED <<asks, reports>>,
         \A b \in Analyzers : Claimed(b)' =>
           /\ Claimed(b) /\ TheAnalysis(b)' = TheAnalysis(b)
           /\ analyzer'[b].pc \in {"budget", "model"} <=> analyzer[b].pc \in {"budget", "model"}
  PROVE  WorkOK'
<1>1. \A b \in Analyzers : Work(b)'
  BY DEF WorkOK, Work, Claimed, Analyses, Times
<1> QED
  BY <1>1 DEF WorkOK, Claimed, Analyses, Times

\* The analysis e0 of a was not claimed by another.
LEMMA WorkOfOne ==
  ASSUME RcaTypeOK, QueueOK, WorkOK, NEW a \in Analyzers, NEW pc \in RcaPhases, Moves(a, pc),
         NEW e0 \in Analyses, e0 = TheAnalysis(a),
         \A b \in Analyzers \ {a} : Claimed(b) => TheAnalysis(b) # e0,
         \A e \in Analyses \ {e0} : asks'[e] = asks[e] /\ reports'[e] = reports[e],
         asks'[e0] <= 1 /\ reports'[e0] <= asks'[e0],
         Claimed(a)' => /\ reports'[e0] = 0
                        /\ asks'[e0] = IF pc \in {"budget", "model"} THEN 0 ELSE 1
  PROVE  WorkOK'
<1>1. /\ \A b \in Analyzers \ {a} : analyzer'[b] = analyzer[b]
      /\ analyzer'[a].pc = pc
      /\ pc # "idle" => TheAnalysis(a)' = e0
  BY MoveKeeps DEF TheAnalysis
<1>2. \A e \in Analyses : asks'[e] <= 1 /\ reports'[e] <= asks'[e]
  BY DEF WorkOK
<1>3. Work(a)'
  BY <1>1 DEF Work, Claimed, Analyses, Times
<1>4. ASSUME NEW b \in Analyzers \ {a}
      PROVE  Work(b)' /\ (Claimed(b)' <=> Claimed(b)) /\ TheAnalysis(b)' = TheAnalysis(b)
  <2>1. analyzer'[b] = analyzer[b] /\ Work(b) /\ TheAnalysis(b)' = TheAnalysis(b)
    BY <1>1 DEF WorkOK, TheAnalysis
  <2>2. Claimed(b) => TheAnalysis(b) \in Analyses \ {e0}
    BY <2>1 DEF Work
  <2> QED
    BY <2>1, <2>2 DEF Work, Claimed, Analyses, Times
<1>5. ASSUME NEW b \in Analyzers, NEW c \in Analyzers \ {b}, Claimed(b)', Claimed(c)'
      PROVE  TheAnalysis(b)' # TheAnalysis(c)'
  <2>1. Claimed(a)' => pc # "idle"
    BY <1>1 DEF Claimed
  <2>2. CASE b = a
    BY <1>1, <1>4, <1>5, <2>1, <2>2
  <2>3. CASE c = a
    BY <1>1, <1>4, <1>5, <2>1, <2>3
  <2>4. CASE b # a /\ c # a
    BY <1>4, <1>5, <2>4 DEF WorkOK
  <2> QED
    BY <2>2, <2>3, <2>4
<1> QED
  BY <1>2, <1>3, <1>4, <1>5 DEF WorkOK, Analyses, Times

LEMMA WorkStep ==
  RcaTypeOK /\ QueueOK /\ ClaimsOK /\ WorkOK /\ [RcaNext]_rcaVars => WorkOK'
<1> SUFFICES ASSUME RcaTypeOK, QueueOK, ClaimsOK, WorkOK, [RcaNext]_rcaVars PROVE WorkOK'
  OBVIOUS
<1>1. CASE UNCHANGED <<analyzer, asks, reports>>
  BY <1>1, WorkStays DEF Claimed, TheAnalysis
<1>2. ASSUME NEW a \in Analyzers, NEW f \in Failures, Deliver(a, f) PROVE WorkOK'
  <2>1. UNCHANGED <<asks, reports>>
    BY <1>2 DEF Deliver
  <2>2. (\A b \in Analyzers \ {a} : analyzer'[b] = analyzer[b]) /\ analyzer'[a].pc = "cooldown"
    BY <1>2, DeliverKeeps
  <2>3. \A b \in Analyzers : Claimed(b)' => Claimed(b) /\ analyzer'[b] = analyzer[b]
    BY <2>2 DEF Claimed
  <2> QED
    BY <2>1, <2>3, WorkStays DEF TheAnalysis
<1>3. ASSUME NEW a \in Analyzers, NEW pc \in RcaPhases, Moves(a, pc), Effects(a, pc)
      PROVE  WorkOK'
  <2>1. PICK f0 \in Failures, n \in Times : f0 = analyzer[a].failure /\ n = analyzer[a].now
    BY <1>3, MoveKeeps, RcaTypes DEF Analysis
  <2>2. PICK e0 \in Analyses : e0 = TheAnalysis(a) /\ e0 = <<f0, n>>
    BY <2>1 DEF Analyses, TheAnalysis
  <2>3. /\ \A b \in Analyzers \ {a} : analyzer'[b] = analyzer[b]
        /\ analyzer'[a].pc = pc
        /\ pc # "idle" => TheAnalysis(a)' = TheAnalysis(a)
    BY <1>3, MoveKeeps DEF TheAnalysis
  <2>4. asks \in [Analyses -> Nat] /\ reports \in [Analyses -> Nat]
    BY DEF RcaTypeOK
  <2>5. CASE Turns(a, pc) \/ TakesUnit(a, pc) \/ Tells(a, pc)
    <3>1. UNCHANGED <<asks, reports>>
      BY <2>5 DEF Turns, TakesUnit, Tells
    <3>2. pc = "idle" \/ (Claimed(a) /\ (pc \in {"budget", "model"} <=>
                                           analyzer[a].pc \in {"budget", "model"}))
      BY <2>5 DEF Turns, TakesUnit, Tells, Claimed
    <3>3. ASSUME NEW b \in Analyzers, Claimed(b)'
          PROVE  /\ Claimed(b) /\ TheAnalysis(b)' = TheAnalysis(b)
                 /\ analyzer'[b].pc \in {"budget", "model"} <=> analyzer[b].pc \in {"budget", "model"}
      <4>1. CASE b = a
        BY <2>3, <3>2, <3>3, <4>1 DEF Claimed
      <4>2. CASE b # a
        BY <2>3, <3>3, <4>2 DEF Claimed, TheAnalysis
      <4> QED
        BY <4>1, <4>2
    <3> QED
      BY <3>1, <3>3, WorkStays
  <2>6. CASE TakesWindow(a, pc)
    <3>1. ~ ClaimOf(f0, n)
      <4>1. ClaimOf(f0, n) => n > n + Cooldown
        BY <1>3, <2>1, <2>6, WindowFree DEF Moves, TakesWindow
      <4>2. n \in Nat /\ Cooldown \in Nat
        BY RcaTypes
      <4> QED
        BY <4>1, <4>2
    <3>2. asks[e0] = 0 /\ reports[e0] = 0
      <4>1. ~ (asks[e0] > 0)
        BY <2>2, <3>1 DEF ClaimOf
      <4>2. asks[e0] \in Nat /\ reports[e0] \in Nat /\ reports[e0] <= asks[e0]
        BY <2>4 DEF WorkOK
      <4> QED
        BY <4>1, <4>2
    <3>3. \A b \in Analyzers \ {a} : Claimed(b) => TheAnalysis(b) # e0
      BY <2>2, <3>1 DEF ClaimOf, TheAnalysis
    <3>4. UNCHANGED <<asks, reports>>
      BY <2>6 DEF TakesWindow
    <3>5. Claimed(a)' => pc = "budget"
      BY <2>3, <2>6 DEF TakesWindow, Claimed
    <3>6. /\ \A e \in Analyses \ {e0} : asks'[e] = asks[e] /\ reports'[e] = reports[e]
          /\ asks'[e0] = 0 /\ reports'[e0] = 0
      BY <3>2, <3>4
    <3>7. /\ asks'[e0] <= 1 /\ reports'[e0] <= asks'[e0]
          /\ Claimed(a)' => /\ reports'[e0] = 0
                            /\ asks'[e0] = IF pc \in {"budget", "model"} THEN 0 ELSE 1
      BY <3>5, <3>6
    <3> QED
      BY <1>3, <2>2, <3>3, <3>6, <3>7, WorkOfOne, Zenon
  <2>7. Claimed(a) => /\ Work(a)
                      /\ \A b \in Analyzers \ {a} : Claimed(b) => TheAnalysis(b) # e0
    BY <2>2 DEF WorkOK
  <2>8. CASE Asks(a, pc)
    <3>1. asks' = [asks EXCEPT ![e0] = asks[e0] + 1] /\ reports' = reports
      BY <2>2, <2>8 DEF Asks, AskModel
    <3>2. Claimed(a) /\ asks[e0] = 0 /\ reports[e0] = 0
      BY <2>2, <2>7, <2>8 DEF Asks, Claimed, Work
    <3>3. asks'[e0] = 1 /\ reports'[e0] = 0
      BY <2>4, <3>1, <3>2
    <3>4. \A e \in Analyses \ {e0} : asks'[e] = asks[e] /\ reports'[e] = reports[e]
      BY <2>4, <3>1
    <3>5. pc \notin {"budget", "model"}
      BY <2>8 DEF Asks
    <3>6. /\ asks'[e0] <= 1 /\ reports'[e0] <= asks'[e0]
          /\ Claimed(a)' => /\ reports'[e0] = 0
                            /\ asks'[e0] = IF pc \in {"budget", "model"} THEN 0 ELSE 1
      BY <3>3, <3>5
    <3>7. \A b \in Analyzers \ {a} : Claimed(b) => TheAnalysis(b) # e0
      BY <2>7, <3>2
    <3> QED
      BY <1>3, <2>2, <3>4, <3>6, <3>7, WorkOfOne, Zenon
  <2>9. CASE Reports(a, pc)
    <3>1. asks' = asks /\ reports' = [reports EXCEPT ![e0] = reports[e0] + 1]
      BY <2>2, <2>9 DEF Reports
    <3>2. Claimed(a) /\ asks[e0] = 1 /\ reports[e0] = 0
      BY <2>2, <2>7, <2>9 DEF Reports, Claimed, Work
    <3>3. asks'[e0] = 1 /\ reports'[e0] = 1
      BY <2>4, <3>1, <3>2
    <3>4. \A e \in Analyses \ {e0} : asks'[e] = asks[e] /\ reports'[e] = reports[e]
      BY <2>4, <3>1
    <3>5. ~ Claimed(a)'
      BY <2>3, <2>9 DEF Reports, Claimed
    <3>6. \A b \in Analyzers \ {a} : Claimed(b) => TheAnalysis(b) # e0
      BY <2>7, <3>2
    <3>7. /\ asks'[e0] <= 1 /\ reports'[e0] <= asks'[e0]
          /\ Claimed(a)' => /\ reports'[e0] = 0
                            /\ asks'[e0] = IF pc \in {"budget", "model"} THEN 0 ELSE 1
      BY <3>3, <3>5
    <3> QED
      BY <1>3, <2>2, <3>4, <3>6, <3>7, WorkOfOne, Zenon
  <2> QED
    BY <1>3, <2>5, <2>6, <2>8, <2>9 DEF Effects
<1>4. CASE UNCHANGED rcaVars
  BY <1>1, <1>4 DEF rcaVars
<1>5. ASSUME NEW f \in Failures, Enqueue(f) PROVE WorkOK'
  BY <1>1, <1>5 DEF Enqueue
<1>6. CASE TimePasses
  BY <1>1, <1>6 DEF TimePasses
<1> QED
  BY <1>2, <1>3, <1>4, <1>5, <1>6, AnalyzerMoves DEF RcaNext

-----------------------------------------------------------------------------
\* The budget.  The analyses of which the units of the day d are: those of which the
\* model has been asked, and those for which an analyzer is about to ask.
Spent(d) ==
  {e \in Analyses : /\ Day(e[2]) = d
                    /\ \/ asks[e] > 0
                       \/ \E a \in Analyzers : analyzer[a].pc = "model" /\ TheAnalysis(a) = e}

BudgetOK == \A d \in Days : IsFiniteSet(Spent(d)) /\ Cardinality(Spent(d)) <= budget[d]

LEMMA BudgetInit == RcaInit => BudgetOK
<1> SUFFICES ASSUME RcaInit, NEW d \in Days
             PROVE  IsFiniteSet(Spent(d)) /\ Cardinality(Spent(d)) <= budget[d]
  BY DEF BudgetOK
<1>1. Spent(d) = {}
  BY DEF RcaInit, Spent, NoAnalysis
<1>2. budget[d] = 0
  BY DEF RcaInit
<1> QED
  BY <1>1, <1>2, FS_EmptySet

LEMMA FewerSpent ==
  ASSUME NEW S, NEW T, S \subseteq T, IsFiniteSet(T), NEW n \in Nat, Cardinality(T) <= n
  PROVE  IsFiniteSet(S) /\ Cardinality(S) <= n
<1>1. IsFiniteSet(S) /\ Cardinality(S) <= Cardinality(T)
  BY FS_Subset
<1>2. Cardinality(S) \in Nat /\ Cardinality(T) \in Nat
  BY <1>1, FS_CardinalityType
<1> QED
  BY <1>1, <1>2

LEMMA OneMoreSpent ==
  ASSUME NEW S, NEW x, NEW T, T \subseteq S \cup {x}, IsFiniteSet(S),
         NEW n \in Nat, Cardinality(S) <= n
  PROVE  IsFiniteSet(T) /\ Cardinality(T) <= n + 1
<1>1. /\ IsFiniteSet(S \cup {x})
      /\ Cardinality(S \cup {x}) = IF x \in S THEN Cardinality(S) ELSE Cardinality(S) + 1
  BY FS_AddElement, Zenon
<1>2. Cardinality(S) \in Nat /\ Cardinality(S \cup {x}) \in Nat
  BY <1>1, FS_CardinalityType
<1>3. Cardinality(S \cup {x}) <= n + 1 /\ n + 1 \in Nat
  BY <1>1, <1>2
<1> QED
  BY <1>1, <1>3, FewerSpent

LEMMA BudgetStays ==
  ASSUME RcaTypeOK, BudgetOK, budget' = budget,
         \A d \in Days : Spent(d)' \subseteq Spent(d)
  PROVE  BudgetOK'
<1> SUFFICES ASSUME NEW d \in Days
             PROVE  IsFiniteSet(Spent(d)') /\ Cardinality(Spent(d)') <= budget'[d]
  BY DEF BudgetOK, Days
<1>1. budget[d] \in Nat
  BY RootCauseAssumption DEF RcaTypeOK
<1> QED
  BY <1>1, FewerSpent DEF BudgetOK

LEMMA BudgetStep ==
  RcaTypeOK /\ QueueOK /\ BudgetOK /\ [RcaNext]_rcaVars => BudgetOK'
<1> SUFFICES ASSUME RcaTypeOK, QueueOK, BudgetOK, [RcaNext]_rcaVars PROVE BudgetOK'
  OBVIOUS
<1>1. CASE UNCHANGED <<analyzer, rcaStore, asks>>
  BY <1>1 DEF BudgetOK, Spent, rcaStore, TheAnalysis, Analyses, Times, Days
<1>2. ASSUME NEW a \in Analyzers, NEW f \in Failures, Deliver(a, f) PROVE BudgetOK'
  <2>1. asks' = asks /\ budget' = budget
    BY <1>2 DEF Deliver, rcaStore
  <2>2. (\A b \in Analyzers \ {a} : analyzer'[b] = analyzer[b]) /\ analyzer'[a].pc = "cooldown"
    BY <1>2, DeliverKeeps
  <2>3. \A d \in Days : Spent(d)' \subseteq Spent(d)
    BY <2>1, <2>2 DEF Spent, TheAnalysis, Analyses, Times
  <2> QED
    BY <2>1, <2>3, BudgetStays
<1>3. ASSUME NEW a \in Analyzers, NEW pc \in RcaPhases, Moves(a, pc), Effects(a, pc)
      PROVE  BudgetOK'
  <2>1. PICK e0 \in Analyses : e0 = TheAnalysis(a)
    BY <1>3, MoveKeeps, RcaTypes DEF Analyses, TheAnalysis, Analysis
  <2>2. PICK n \in Times : n = analyzer[a].now /\ e0[2] = n
    BY <2>1, RcaTypes DEF Analysis, TheAnalysis
  <2>3. /\ \A b \in Analyzers \ {a} :
             analyzer'[b].pc = analyzer[b].pc /\ TheAnalysis(b)' = TheAnalysis(b)
        /\ analyzer'[a].pc = pc
        /\ pc # "idle" => TheAnalysis(a)' = e0
    BY <1>3, <2>1, MoveKeeps DEF TheAnalysis
  <2>4. CASE pc # "model"
    <3>1. budget' = budget \/ (TakesUnit(a, pc) /\ pc = "idle")
      BY <1>3, <2>4 DEF Effects, Turns, TakesWindow, TakesUnit, Asks, Tells, Reports, rcaStore
    <3>2. \A d \in Days : Spent(d)' \subseteq Spent(d)
      <4>1. \A e \in Analyses : asks'[e] > 0 =>
              asks[e] > 0 \/ (e = e0 /\ analyzer[a].pc = "model")
        BY <1>3, <2>1
        DEF Effects, Turns, TakesWindow, TakesUnit, Asks, AskModel, Tells, Reports, RcaTypeOK
      <4> QED
        BY <2>1, <2>3, <2>4, <4>1 DEF Spent, Analyses, Times
    <3>3. CASE budget' = budget
      BY <3>2, <3>3, BudgetStays
    <3>4. CASE TakesUnit(a, pc)
      <4>1. PICK e : e = Day(n)
        OBVIOUS
      <4>2. budget' = [budget EXCEPT ![e] = budget[e] + 1]
        BY <2>2, <3>4, <4>1 DEF TakesUnit
      <4>3. \A d \in Days : budget[d] \in Nat /\ budget'[d] \in Nat /\ budget'[d] >= budget[d]
        BY <4>2, RootCauseAssumption DEF RcaTypeOK
      <4>4. ASSUME NEW d \in Days
            PROVE  IsFiniteSet(Spent(d)') /\ Cardinality(Spent(d)') <= budget'[d]
        <5>1. IsFiniteSet(Spent(d)') /\ Cardinality(Spent(d)') <= budget[d]
          BY <3>2, <4>3, FewerSpent DEF BudgetOK
        <5> QED
          BY <4>3, <5>1, FS_CardinalityType
      <4> QED
        BY <4>4 DEF BudgetOK, Days
    <3> QED
      BY <3>1, <3>3, <3>4
  <2>5. CASE pc = "model"
    <3>1. TakesUnit(a, pc)
      BY <1>3, <2>5 DEF Effects, Turns, TakesWindow, Asks, Tells, Reports
    <3>2. PICK e : e = Day(n)
      OBVIOUS
    <3>3. budget' = [budget EXCEPT ![e] = budget[e] + 1] /\ asks' = asks
      BY <2>2, <3>1, <3>2 DEF TakesUnit
    <3>4. ASSUME NEW d \in Days
          PROVE  IsFiniteSet(Spent(d)') /\ Cardinality(Spent(d)') <= budget'[d]
      <4>1. IsFiniteSet(Spent(d)) /\ Cardinality(Spent(d)) <= budget[d]
            /\ Cardinality(Spent(d)) \in Nat /\ budget[d] \in Nat
        BY FS_CardinalityType, RootCauseAssumption DEF BudgetOK, RcaTypeOK
      <4>2. CASE d # e
        <5>1. Spent(d)' \subseteq Spent(d)
          BY <2>2, <2>3, <3>2, <3>3, <4>2 DEF Spent, Analyses, Times
        <5>2. budget'[d] = budget[d]
          BY <3>3, <4>2 DEF RcaTypeOK
        <5> QED
          BY <4>1, <5>1, <5>2, FewerSpent
      <4>3. CASE d = e
        <5>1. Spent(d)' \subseteq Spent(d) \cup {e0}
          BY <2>3, <3>3 DEF Spent, Analyses, Times
        <5>2. budget'[d] = budget[d] + 1
          BY <3>3, <4>3 DEF RcaTypeOK
        <5> QED
          BY <4>1, <5>1, <5>2, OneMoreSpent
      <4> QED
        BY <4>2, <4>3
    <3> QED
      BY <3>4 DEF BudgetOK, Days
  <2> QED
    BY <2>4, <2>5
<1>4. CASE UNCHANGED rcaVars
  BY <1>1, <1>4 DEF rcaVars
<1>5. ASSUME NEW f \in Failures, Enqueue(f) PROVE BudgetOK'
  BY <1>1, <1>5 DEF Enqueue
<1>6. CASE TimePasses
  BY <1>1, <1>6 DEF TimePasses
<1> QED
  BY <1>2, <1>3, <1>4, <1>5, <1>6, AnalyzerMoves DEF RcaNext

-----------------------------------------------------------------------------
\* The notices.
NoticesOK ==
  \A t \in Times : notices[t] > 0 =>
    /\ notices[t] = 1 /\ t + NoticeWindow <= notice
    /\ \A u \in Times : notices[u] > 0 => t = u \/ t > u + NoticeWindow \/ u > t + NoticeWindow

LEMMA NoticesInit == RcaInit => NoticesOK
BY DEF RcaInit, NoticesOK

LEMMA NoticesStep == RcaTypeOK /\ NoticesOK /\ [RcaNext]_rcaVars => NoticesOK'
<1> SUFFICES ASSUME RcaTypeOK, NoticesOK, [RcaNext]_rcaVars PROVE NoticesOK'
  OBVIOUS
<1>1. CASE UNCHANGED <<notice, notices>>
  BY <1>1 DEF NoticesOK, Times
<1>2. ASSUME NEW a \in Analyzers, NEW pc, Moves(a, pc), Tells(a, pc) PROVE NoticesOK'
  <2>1. /\ notice \in Int /\ notice < moment /\ notice' = moment + NoticeWindow
        /\ moment \in Times /\ moment \in Nat /\ Times \subseteq Nat /\ NoticeWindow \in Nat
        /\ notices \in [Times -> Nat]
    BY <1>2, RcaTypes DEF Tells, Free, RcaTypeOK
  <2>2. notices[moment] = 0
    BY <2>1 DEF NoticesOK
  <2>3. \A t \in Times : /\ notices'[t] > 0 => notices'[t] = 1
                         /\ notices'[t] > 0 => t = moment \/ notices[t] > 0
    BY <1>2, <2>1, <2>2 DEF Tells, NoticesOK
  <2>4. \A t \in Times : notices[t] > 0 => t + NoticeWindow < moment
    BY <2>1 DEF NoticesOK
  <2> SUFFICES ASSUME NEW t \in Times, notices'[t] > 0
               PROVE  /\ notices'[t] = 1 /\ t + NoticeWindow <= notice'
                      /\ \A u \in Times : notices'[u] > 0 =>
                           t = u \/ t > u + NoticeWindow \/ u > t + NoticeWindow
    BY DEF NoticesOK, Times
  <2>5. t + NoticeWindow <= notice'
    BY <2>1, <2>3, <2>4
  <2>6. ASSUME NEW u \in Times, notices'[u] > 0
        PROVE  t = u \/ t > u + NoticeWindow \/ u > t + NoticeWindow
    BY <2>1, <2>3, <2>4, <2>6 DEF NoticesOK
  <2> QED
    BY <2>3, <2>5, <2>6
<1>3. ASSUME NEW a \in Analyzers, NEW pc \in RcaPhases, Moves(a, pc), Effects(a, pc)
      PROVE  NoticesOK'
  <2>1. CASE Tells(a, pc)
    BY <1>2, <1>3, <2>1
  <2>2. CASE ~ Tells(a, pc)
    BY <1>1, <1>3, <2>2 DEF Effects, Turns, TakesWindow, TakesUnit, Asks, Reports, rcaStore
  <2> QED
    BY <2>1, <2>2
<1>4. ASSUME NEW a \in Analyzers, NEW f \in Failures, Deliver(a, f) PROVE NoticesOK'
  BY <1>1, <1>4 DEF Deliver, rcaStore
<1>5. ASSUME NEW f \in Failures, Enqueue(f) PROVE NoticesOK'
  BY <1>1, <1>5 DEF Enqueue, rcaStore
<1>6. CASE TimePasses
  BY <1>1, <1>6 DEF TimePasses, rcaStore
<1>7. CASE UNCHANGED rcaVars
  BY <1>1, <1>7 DEF rcaVars, rcaStore
<1> QED
  BY <1>3, <1>4, <1>5, <1>6, <1>7, AnalyzerMoves DEF RcaNext

-----------------------------------------------------------------------------
RcaIInv == RcaTypeOK /\ QueueOK /\ ClaimsOK /\ WorkOK /\ BudgetOK /\ NoticesOK

LEMMA RcaInductive == RcaSpec => []RcaIInv
<1>1. RcaInit => RcaIInv
  BY RcaTypesInit, QueueInit, ClaimsInit, WorkInit, BudgetInit, NoticesInit DEF RcaIInv
<1>2. RcaIInv /\ [RcaNext]_rcaVars => RcaIInv'
  BY RcaTypesStep, QueueStep, ClaimsStep, WorkStep, BudgetStep, NoticesStep DEF RcaIInv
<1> QED
  BY <1>1, <1>2, PTL DEF RcaSpec

\* The claims, the budget and the notices have their types: a day's budget is
\* never claimed beyond the cap (ClaimDailyBudget of internal/rca), and a message
\* is never delivered more often than the queue allows.
THEOREM RcaTypeCorrect == RcaSpec => []RcaTypeOK
BY RcaInductive, PTL DEF RcaIInv

\* What analyses cost is bounded, whatever fails, dies or is delivered again, however
\* late: the model is asked once for an analysis, for one signature at instants more than
\* a cooldown apart, and so often a day; a report is mailed once of an analysis that was
\* paid for; and the notices lie more than a window apart.
THEOREM AnalysesStayBounded == RcaSpec => []AnalysesBounded
<1>1. RcaIInv => AnalysesBounded
  <2> SUFFICES ASSUME RcaIInv PROVE AnalysesBounded
    OBVIOUS
  <2>1. RcaTypeOK /\ QueueOK /\ ClaimsOK /\ WorkOK /\ BudgetOK /\ NoticesOK
    BY DEF RcaIInv
  <2>2. \A e \in Analyzed : asks[e] = 1
    BY <2>1 DEF RcaTypeOK, WorkOK, Analyzed
  <2>3. ASSUME NEW d \in Analyzed, NEW e \in Analyzed, d # e, SignatureOf(d) = SignatureOf(e)
        PROVE  d[2] > e[2] + Cooldown \/ e[2] > d[2] + Cooldown
    <3>1. /\ d[1] \in Failures /\ d[2] \in Times /\ d = <<d[1], d[2]>>
          /\ e[1] \in Failures /\ e[2] \in Times /\ e = <<e[1], e[2]>>
      BY DEF Analyzed, Analyses
    <3>2. ClaimOf(d[1], d[2]) /\ ClaimOf(e[1], e[2])
      BY <3>1 DEF Analyzed, ClaimOf
    <3>3. ~ (e[1] = d[1] /\ e[2] = d[2])
      BY <2>3, <3>1
    <3> QED
      BY <2>1, <2>3, <3>1, <3>2, <3>3 DEF ClaimsOK, SignatureOf
  <2>4. ASSUME NEW d \in Days
        PROVE  Cardinality({e \in Analyzed : Day(e[2]) = d}) <= DailyCap
    <3>1. {e \in Analyzed : Day(e[2]) = d} \subseteq Spent(d)
      BY DEF Analyzed, Spent
    <3>2. IsFiniteSet(Spent(d)) /\ Cardinality(Spent(d)) <= budget[d]
      BY <2>1 DEF BudgetOK
    <3>3. budget[d] \in Nat /\ budget[d] <= DailyCap /\ DailyCap \in Nat
      BY <2>1, RootCauseAssumption DEF RcaTypeOK
    <3>4. Cardinality(Spent(d)) <= DailyCap
      BY <3>2, <3>3, FS_CardinalityType
    <3> QED
      BY <3>1, <3>2, <3>3, <3>4, FewerSpent
  <2>5. PaidWithinCaps
    BY <2>2, <2>3, <2>4 DEF PaidWithinCaps
  <2>6. MailedSparingly
    BY <2>1 DEF MailedSparingly, NoticesOK, WorkOK
  <2> QED
    BY <2>5, <2>6 DEF AnalysesBounded
<1> QED
  BY <1>1, RcaInductive, PTL

-----------------------------------------------------------------------------
(***************************************************************************)
(* The history of an account.                                              *)
(***************************************************************************)
TopicRow == [state : {"unborn", "live", "gone"}, archived : BOOLEAN,
             into : Topics \cup {NoTopic}, count : Nat]
ExtractionRow == [pc : {"idle", "look", "extract", "create", "tag", "bump"},
                  key : Keys \cup {NoKey}, at : Stamps \cup {NoStamp},
                  chosen : SUBSET Topics, left : SUBSET Topics, cur : Topics \cup {NoTopic}]
RequestRow == [pc : {"idle", "move", "repoint", "rewrite", "unref", "mark", "wipe"},
               src : Topics \cup {NoTopic}, dst : Topics \cup {NoTopic},
               todo : SUBSET Keys, cur : Keys \cup {NoKey},
               seen : SUBSET Topics, moved : SUBSET Keys]

StoreTypes ==
  /\ topic \in [Topics -> TopicRow] /\ refs \in [Topics -> SUBSET Keys]
  /\ conv \in [Keys -> (SUBSET Topics) \cup {NoConv}]
  /\ claim \in [Talks -> Stamps \cup {NoStamp}] /\ young \subseteq Talks
  /\ deliveries \in [Flushes -> Nat]
  /\ released \subseteq Topics \X (Topics \cup {NoTopic}) /\ uncounted \subseteq Topics

LEMMA TopicsTypes ==
  TopicsTypeOK <=> /\ StoreTypes /\ extraction \in [Extractors -> ExtractionRow]
                   /\ curator \in [Curators -> RequestRow]
BY DEF TopicsTypeOK, StoreTypes, TopicRow, ExtractionRow, RequestRow

LEMMA NoRows ==
  NoRowYet \in TopicRow /\ NewTopic \in TopicRow
  /\ NoExtraction \in ExtractionRow /\ NoRequest \in RequestRow
BY DEF NoRowYet, NewTopic, NoExtraction, NoRequest, TopicRow, ExtractionRow, RequestRow

Made(t) == topic[t].state # "unborn"

\* The conversation k is filed under t, unless a request may have taken it from there.
Filed(t, k) == k \in refs[t] \/ Released(t)

\* It is found under t, or where t went.
Found(t, k) ==
  \/ k \in refs[t] \/ <<t, NoTopic>> \in released
  \/ \E u \in Topics : <<t, u>> \in released /\ Filed(u, k)

LEMMA FoundFiled == ASSUME NEW t, NEW k, Found(t, k) PROVE Filed(t, k)
BY DEF Found, Filed, Released

\* An extraction has the key of its session's claim, tags with topics that are there,
\* and has put the refs of those it has done with.
ExtractionSound(r) ==
  /\ r.pc # "idle" => /\ r.key \in Keys /\ claim[r.key[1]] = r.key[2]
                       /\ \A t \in r.chosen \ r.left : Found(t, r.key)
  /\ r.pc # "bump" => r.cur = NoTopic
  /\ r.pc = "bump" => r.cur \in r.chosen /\ Found(r.cur, r.key)
  /\ r.left \subseteq r.chosen /\ (r.pc = "create" => r.left = r.chosen)
  /\ r.pc \in {"tag", "bump"} => \A t \in r.chosen : Made(t)

\* A request takes refs of topics that are released only, and a merge has put what it
\* takes under its destination.
RequestSound(r) ==
  /\ IsFiniteSet(r.moved)
  /\ r.pc # "idle" => <<r.src, r.dst>> \in released
  /\ r.pc = "wipe" => r.dst = NoTopic
  /\ r.pc \in {"idle", "wipe", "mark"} => r.moved = {}
  /\ r.pc \in {"move", "repoint", "rewrite", "unref", "mark"} =>
       r.dst \in Topics /\ Made(r.dst) /\ \A k \in r.moved : Found(r.dst, k)
  /\ r.pc \in {"repoint", "rewrite", "unref"} => r.cur \in Keys /\ Found(r.dst, r.cur)
  /\ r.pc = "rewrite" => conv[r.cur] # NoConv /\ \A t \in r.seen : Found(t, r.cur)

ConvSound(k) ==
  conv[k] # NoConv => claim[k[1]] = k[2] /\ \A t \in conv[k] : Found(t, k)

TopicSound(t) ==
  /\ topic[t].state = "unborn" => refs[t] = {} /\ topic[t].count = 0
  /\ topic[t].state = "gone" => Released(t)

StoreSound == (\A k \in Keys : ConvSound(k)) /\ (\A t \in Topics : TopicSound(t))

HistoryInv ==
  /\ TopicsTypeOK /\ StoreSound
  /\ \A x \in Extractors : ExtractionSound(extraction[x])
  /\ \A o \in Curators : RequestSound(curator[o])

\* What no step takes back.
Keeps ==
  /\ \A s \in Talks : claim[s] # NoStamp => claim'[s] = claim[s]
  /\ \A t \in Topics : Made(t) => Made(t)'
  /\ \A t \in Topics, k \in Keys : Found(t, k) => Found(t, k)'
  /\ released \subseteq released'
  /\ \A k \in Keys : conv[k] # NoConv => conv'[k] # NoConv

LEMMA KeyParts ==
  ASSUME NEW k \in Keys PROVE k[1] \in Talks /\ k[2] \in Stamps /\ k[2] # NoStamp
BY TopicsAssumption DEF Keys

LEMMA ExtractionStays ==
  ASSUME Keeps, NEW r \in ExtractionRow, ExtractionSound(r)
  PROVE  ExtractionSound(r)'
<1>1. r.pc # "idle" => r.key \in Keys /\ claim'[r.key[1]] = r.key[2]
  BY KeyParts DEF ExtractionSound, Keeps
<1>2. r.chosen \subseteq Topics
  BY DEF ExtractionRow
<1> QED
  BY <1>1, <1>2 DEF ExtractionSound, Keeps

LEMMA RequestStays ==
  ASSUME Keeps, NEW r \in RequestRow, RequestSound(r)
  PROVE  RequestSound(r)'
<1>1. r.moved \subseteq Keys /\ r.seen \subseteq Topics
  BY DEF RequestRow
<1>2. /\ r.pc # "idle" => <<r.src, r.dst>> \in released'
      /\ r.pc \in {"move", "repoint", "rewrite", "unref", "mark"} =>
           r.dst \in Topics /\ Made(r.dst)' /\ \A k \in r.moved : Found(r.dst, k)'
      /\ r.pc \in {"repoint", "rewrite", "unref"} => r.cur \in Keys /\ Found(r.dst, r.cur)'
      /\ r.pc = "rewrite" => conv'[r.cur] # NoConv /\ \A t \in r.seen : Found(t, r.cur)'
  BY <1>1 DEF RequestSound, Keeps
<1> QED
  BY <1>2 DEF RequestSound

LEMMA TakenUp ==
  ASSUME StoreTypes, NEW q \in RequestRow, RequestSound(q), q.pc # "idle"
  PROVE  q.src \in Topics /\ <<q.src, q.dst>> \in released /\ Released(q.src)
BY DEF RequestSound, StoreTypes, Released

\* A step of the extraction x, which goes on with r.
LEMMA ByExtraction ==
  ASSUME HistoryInv, Keeps, StoreTypes', StoreSound', NEW x \in Extractors,
         NEW r \in ExtractionRow, Extracting(x, r), ExtractionSound(r)', curator' = curator
  PROVE  HistoryInv'
<1>1. /\ extraction \in [Extractors -> ExtractionRow] /\ curator \in [Curators -> RequestRow]
      /\ \A y \in Extractors : ExtractionSound(extraction[y])
      /\ \A o \in Curators : RequestSound(curator[o])
  BY TopicsTypes DEF HistoryInv
<1>2. /\ extraction' \in [Extractors -> ExtractionRow] /\ extraction'[x] = r
      /\ \A y \in Extractors \ {x} : extraction'[y] = extraction[y]
  BY <1>1 DEF Extracting
<1>3. TopicsTypeOK'
  <2>1. curator' \in [Curators -> RequestRow]
    BY <1>1
  <2> QED
    BY <1>2, <2>1 DEF TopicsTypeOK, StoreTypes, TopicRow, ExtractionRow, RequestRow
<1>4. ASSUME NEW y \in Extractors PROVE ExtractionSound(extraction[y])'
  <2>1. PICK e \in ExtractionRow : e = extraction[y] /\ ExtractionSound(e)
    BY <1>1
  <2>2. ExtractionSound(e)'
    BY <2>1, ExtractionStays
  <2>3. (extraction'[y] = e /\ ExtractionSound(e)') \/ (extraction'[y] = r /\ ExtractionSound(r)')
    BY <1>2, <2>1, <2>2
  <2>4. CASE extraction'[y] = e
    BY <2>2, <2>4 DEF ExtractionSound, Found, Filed, Released, Made
  <2>5. CASE extraction'[y] = r
    BY <2>5 DEF ExtractionSound, Found, Filed, Released, Made
  <2> QED
    BY <2>3, <2>4, <2>5
<1>5. ASSUME NEW o \in Curators PROVE RequestSound(curator[o])'
  <2>1. PICK q \in RequestRow : q = curator[o] /\ RequestSound(q)
    BY <1>1
  <2>2. RequestSound(q)'
    BY <2>1, RequestStays
  <2>3. curator'[o] = q
    BY <2>1
  <2> QED
    BY <2>2, <2>3 DEF RequestSound, Found, Filed, Released, Made
<1> QED
  BY <1>3, <1>4, <1>5 DEF HistoryInv

\* A step of the request o, which goes on with r.
LEMMA ByRequest ==
  ASSUME HistoryInv, Keeps, StoreTypes', StoreSound', NEW o \in Curators,
         NEW r \in RequestRow, Requesting(o, r), RequestSound(r)', extraction' = extraction
  PROVE  HistoryInv'
<1>1. /\ extraction \in [Extractors -> ExtractionRow] /\ curator \in [Curators -> RequestRow]
      /\ \A y \in Extractors : ExtractionSound(extraction[y])
      /\ \A p \in Curators : RequestSound(curator[p])
  BY TopicsTypes DEF HistoryInv
<1>2. /\ curator' \in [Curators -> RequestRow] /\ curator'[o] = r
      /\ \A p \in Curators \ {o} : curator'[p] = curator[p]
  BY <1>1 DEF Requesting
<1>3. TopicsTypeOK'
  <2>1. extraction' \in [Extractors -> ExtractionRow]
    BY <1>1
  <2> QED
    BY <1>2, <2>1 DEF TopicsTypeOK, StoreTypes, TopicRow, ExtractionRow, RequestRow
<1>4. ASSUME NEW y \in Extractors PROVE ExtractionSound(extraction[y])'
  <2>1. PICK e \in ExtractionRow : e = extraction[y] /\ ExtractionSound(e)
    BY <1>1
  <2>2. ExtractionSound(e)'
    BY <2>1, ExtractionStays
  <2>3. extraction'[y] = e
    BY <2>1
  <2> QED
    BY <2>2, <2>3 DEF ExtractionSound, Found, Filed, Released, Made
<1>5. ASSUME NEW p \in Curators PROVE RequestSound(curator[p])'
  <2>1. PICK q \in RequestRow : q = curator[p] /\ RequestSound(q)
    BY <1>1
  <2>2. RequestSound(q)'
    BY <2>1, RequestStays
  <2>3. curator'[p] = q \/ curator'[p] = r
    BY <1>2, <2>1
  <2>4. CASE curator'[p] = q
    BY <2>2, <2>4 DEF RequestSound, Found, Filed, Released, Made
  <2>5. CASE curator'[p] = r
    BY <2>5 DEF RequestSound, Found, Filed, Released, Made
  <2> QED
    BY <2>3, <2>4, <2>5
<1> QED
  BY <1>3, <1>4, <1>5 DEF HistoryInv

-----------------------------------------------------------------------------
\* The store: a step changes one thing in it.
LEMMA StoreStays ==
  ASSUME StoreTypes, StoreSound, UNCHANGED <<index, claim, released>>,
         young' \subseteq Talks, deliveries' \in [Flushes -> Nat], uncounted' \subseteq Topics
  PROVE  Keeps /\ StoreTypes' /\ StoreSound'
<1>1. StoreTypes'
  BY DEF StoreTypes, index
<1>2. Keeps
  BY DEF Keeps, Made, Found, Filed, Released, index
<1>3. StoreSound'
  BY DEF StoreSound, ConvSound, TopicSound, Found, Filed, Released, index
<1> QED
  BY <1>1, <1>2, <1>3

LEMMA ConvStays ==
  ASSUME StoreTypes, Keeps, NEW k \in Keys, ConvSound(k), conv'[k] = conv[k]
  PROVE  ConvSound(k)'
<1>1. conv[k] # NoConv => conv[k] \subseteq Topics
  BY DEF StoreTypes
<1> QED
  BY <1>1, KeyParts DEF ConvSound, Keeps

LEMMA TopicChanges ==
  ASSUME StoreTypes, StoreSound, topic' \in [Topics -> TopicRow],
         UNCHANGED <<refs, conv, claims, deliveries, released, uncounted>>,
         \A t \in Topics :
           /\ Made(t) => Made(t)'
           /\ topic'[t].state = "unborn" => topic'[t].count = topic[t].count
           /\ topic'[t].state = "gone" => topic[t].state = "gone" \/ Released(t)
  PROVE  Keeps /\ StoreTypes' /\ StoreSound'
<1>1. StoreTypes'
  BY DEF StoreTypes, claims
<1>2. Keeps
  BY DEF Keeps, Found, Filed, Released, claims
<1>3. \A k \in Keys : ConvSound(k)'
  BY <1>2, ConvStays DEF StoreSound
<1>4. \A t \in Topics : TopicSound(t)'
  BY DEF StoreSound, TopicSound, Released, Made
<1> QED
  BY <1>1, <1>2, <1>3, <1>4 DEF StoreSound

LEMMA RefsGrow ==
  ASSUME StoreTypes, StoreSound, NEW t0 \in Topics, NEW k0 \in Keys, Made(t0),
         refs' = [refs EXCEPT ![t0] = @ \cup {k0}],
         UNCHANGED <<topic, conv, claims, deliveries, released, uncounted>>
  PROVE  Keeps /\ StoreTypes' /\ StoreSound' /\ Found(t0, k0)'
<1>1. /\ refs' \in [Topics -> SUBSET Keys] /\ refs'[t0] = refs[t0] \cup {k0}
      /\ \A t \in Topics \ {t0} : refs'[t] = refs[t]
  BY DEF StoreTypes
<1>2. StoreTypes'
  BY <1>1 DEF StoreTypes, claims
<1>3. Keeps
  BY <1>1 DEF Keeps, Made, Found, Filed, Released, claims
<1>4. \A k \in Keys : ConvSound(k)'
  BY <1>3, ConvStays DEF StoreSound
<1>5. \A t \in Topics : TopicSound(t)'
  BY <1>1 DEF StoreSound, TopicSound, Released, Made
<1> QED
  BY <1>1, <1>2, <1>3, <1>4, <1>5 DEF StoreSound, Found, Filed, Released

LEMMA RefsShrink ==
  ASSUME StoreTypes, StoreSound, NEW t0 \in Topics, NEW u0, <<t0, u0>> \in released, NEW k0,
         u0 \in Topics => Found(u0, k0),
         refs' = [refs EXCEPT ![t0] = @ \ {k0}],
         UNCHANGED <<topic, conv, claims, deliveries, released, uncounted>>
  PROVE  Keeps /\ StoreTypes' /\ StoreSound'
<1>1. /\ refs' \in [Topics -> SUBSET Keys] /\ refs'[t0] = refs[t0] \ {k0}
      /\ \A t \in Topics \ {t0} : refs'[t] = refs[t]
      /\ u0 \in Topics \cup {NoTopic}
  BY DEF StoreTypes
<1>2. StoreTypes'
  BY <1>1 DEF StoreTypes, claims
<1>3. \A t \in Topics : Released(t)' <=> Released(t)
  BY DEF Released
<1>4. Released(t0)
  BY <1>1 DEF Released
<1>5. \A t \in Topics, k \in Keys : Filed(t, k) => Filed(t, k)'
  BY <1>1, <1>3, <1>4 DEF Filed
<1>6. ASSUME NEW t \in Topics, NEW k \in Keys, Found(t, k) PROVE Found(t, k)'
  <2>1. CASE k \in refs'[t] \/ <<t, NoTopic>> \in released
    BY <2>1 DEF Found, Filed, Released
  <2>2. CASE t = t0 /\ k = k0 /\ u0 \in Topics
    <3>1. Filed(u0, k)
      BY <2>2, FoundFiled
    <3>2. Filed(u0, k)'
      BY <1>5, <2>2, <3>1
    <3> QED
      BY <2>2, <3>2 DEF Found, Filed, Released
  <2>3. CASE \E u \in Topics : <<t, u>> \in released /\ Filed(u, k)
    <3>1. PICK u \in Topics : <<t, u>> \in released /\ Filed(u, k)
      BY <2>3
    <3>2. Filed(u, k)'
      BY <1>5, <3>1
    <3> QED
      BY <3>1, <3>2 DEF Found, Filed, Released
  <2> QED
    BY <1>1, <1>6, <2>1, <2>2, <2>3 DEF Found, Filed, Released
<1>7. Keeps
  BY <1>6 DEF Keeps, Made, claims
<1>8. \A k \in Keys : ConvSound(k)'
  BY <1>7, ConvStays DEF StoreSound
<1>9. \A t \in Topics : TopicSound(t)'
  BY <1>1, <1>3 DEF StoreSound, TopicSound, Released
<1> QED
  BY <1>2, <1>7, <1>8, <1>9 DEF StoreSound

LEMMA ReleasedGrows ==
  ASSUME StoreTypes, StoreSound, NEW t0 \in Topics, NEW u0 \in Topics \cup {NoTopic},
         released' = released \cup {<<t0, u0>>},
         UNCHANGED <<index, claims, deliveries, uncounted>>
  PROVE  Keeps /\ StoreTypes' /\ StoreSound'
<1>1. StoreTypes'
  BY DEF StoreTypes, index, claims
<1>2. \A t \in Topics : Released(t) => Released(t)'
  BY DEF Released
<1>3. \A t \in Topics, k \in Keys : Filed(t, k) => Filed(t, k)'
  BY <1>2 DEF Filed, index
<1>4. ASSUME NEW t \in Topics, NEW k \in Keys, Found(t, k) PROVE Found(t, k)'
  <2>1. CASE k \in refs[t] \/ <<t, NoTopic>> \in released
    BY <2>1 DEF Found, Filed, Released, index
  <2>2. CASE \E u \in Topics : <<t, u>> \in released /\ Filed(u, k)
    <3>1. PICK u \in Topics : <<t, u>> \in released /\ Filed(u, k)
      BY <2>2
    <3>2. Filed(u, k)' /\ <<t, u>> \in released'
      BY <1>3, <3>1
    <3> QED
      BY <3>2 DEF Found, Filed, Released
  <2> QED
    BY <1>4, <2>1, <2>2 DEF Found, Filed, Released
<1>5. Keeps
  BY <1>4 DEF Keeps, Made, index, claims
<1>6. \A k \in Keys : ConvSound(k)'
  BY <1>5, ConvStays DEF StoreSound, index
<1>7. \A t \in Topics : TopicSound(t)'
  BY <1>2 DEF StoreSound, TopicSound, Released, index
<1> QED
  BY <1>1, <1>5, <1>6, <1>7 DEF StoreSound

LEMMA ConvChanges ==
  ASSUME StoreTypes, StoreSound, NEW k0 \in Keys, NEW tags \in SUBSET Topics,
         conv' = [conv EXCEPT ![k0] = tags], claim[k0[1]] = k0[2],
         \A t \in tags : Found(t, k0),
         UNCHANGED <<topic, refs, claims, deliveries, released, uncounted>>
  PROVE  Keeps /\ StoreTypes' /\ StoreSound'
<1>1. /\ conv' \in [Keys -> (SUBSET Topics) \cup {NoConv}] /\ conv'[k0] = tags /\ tags # NoConv
      /\ \A k \in Keys \ {k0} : conv'[k] = conv[k]
  BY TopicsAssumption DEF StoreTypes
<1>2. StoreTypes'
  BY <1>1 DEF StoreTypes, claims
<1>3. Keeps
  BY <1>1 DEF Keeps, Made, Found, Filed, Released, claims
<1>4. ASSUME NEW k \in Keys PROVE ConvSound(k)'
  <2>1. CASE k = k0
    BY <1>1, <2>1 DEF ConvSound, Found, Filed, Released, claims
  <2>2. CASE k # k0
    BY <1>1, <1>3, <2>2, ConvStays DEF StoreSound
  <2> QED
    BY <2>1, <2>2
<1>5. \A t \in Topics : TopicSound(t)'
  BY DEF StoreSound, TopicSound, Released
<1> QED
  BY <1>2, <1>3, <1>4, <1>5 DEF StoreSound

-----------------------------------------------------------------------------
\* The steps of an extraction.
LEMMA IdleSound == ExtractionSound(NoExtraction)' /\ RequestSound(NoRequest)'
BY FS_EmptySet DEF ExtractionSound, RequestSound, NoExtraction, NoRequest

LEMMA ExtractionOf ==
  ASSUME HistoryInv, NEW x \in Extractors
  PROVE  \E e \in ExtractionRow : e = extraction[x] /\ ExtractionSound(e)
BY TopicsTypes DEF HistoryInv

LEMMA StoreHolds == HistoryInv => StoreTypes /\ StoreSound
BY TopicsTypes DEF HistoryInv

\* The store as it is, whatever becomes of the history of what was not counted.
LEMMA StoreUnchanged ==
  ASSUME HistoryInv, UNCHANGED <<index, claim, released>>,
         young' \subseteq Talks, deliveries' \in [Flushes -> Nat], uncounted' \subseteq Topics
  PROVE  Keeps /\ StoreTypes' /\ StoreSound'
BY StoreHolds, StoreStays

LEMMA StoreAlike ==
  ASSUME HistoryInv, UNCHANGED <<index, claims, deliveries, released, uncounted>>
  PROVE  Keeps /\ StoreTypes' /\ StoreSound'
<1>1. young' \subseteq Talks /\ deliveries' \in [Flushes -> Nat] /\ uncounted' \subseteq Topics
  BY StoreHolds DEF StoreTypes, claims
<1> QED
  BY <1>1, StoreUnchanged DEF claims

LEMMA ClaimSound ==
  ASSUME HistoryInv, NEW x \in Extractors, NEW e \in Flushes, ClaimConversationSession(x, e)
  PROVE  HistoryInv'
<1>1. StoreTypes /\ StoreSound
  BY StoreHolds
<1>2. e \in Keys /\ e[1] \in Talks /\ e[2] \in Stamps
  BY KeyParts DEF Flushes
<1>3. PICK at \in Stamps : at = IF claim[e[1]] = NoStamp THEN e[2] ELSE claim[e[1]]
  BY <1>1, <1>2 DEF StoreTypes
<1> DEFINE r == [NoExtraction EXCEPT !.pc = "look", !.key = <<e[1], at>>, !.at = e[2]]
<1>4. /\ claim' = [claim EXCEPT ![e[1]] = at] /\ Extracting(x, r)
      /\ deliveries' = [deliveries EXCEPT ![e] = @ + 1]
      /\ young' \in {young, young \cup {e[1]}}
      /\ UNCHANGED <<topic, refs, conv, curator, released, uncounted>>
  BY <1>3 DEF ClaimConversationSession, index
<1>5. <<e[1], at>> \in Keys
  BY <1>2 DEF Keys
<1>6. r \in ExtractionRow /\ r.pc = "look" /\ r.key = <<e[1], at>> /\ r.chosen = {} /\ r.left = {}
      /\ r.cur = NoTopic
  BY <1>2, <1>5 DEF NoExtraction, ExtractionRow
<1> HIDE DEF r
<1>7. /\ claim'[e[1]] = at /\ claim' \in [Talks -> Stamps \cup {NoStamp}]
      /\ \A s \in Talks : claim[s] # NoStamp => claim'[s] = claim[s]
  BY <1>1, <1>2, <1>3, <1>4 DEF StoreTypes
<1>8. Keeps
  BY <1>4, <1>7 DEF Keeps, Made, Found, Filed, Released
<1>9. StoreTypes'
  <2>1. deliveries' \in [Flushes -> Nat]
    BY <1>1, <1>4 DEF StoreTypes
  <2>2. young' \subseteq Talks
    BY <1>1, <1>2, <1>4 DEF StoreTypes
  <2> QED
    BY <1>1, <1>4, <1>7, <2>1, <2>2 DEF StoreTypes
<1>10. StoreSound'
  <2>1. \A k \in Keys : ConvSound(k)'
    BY <1>1, <1>4, <1>8, ConvStays DEF StoreSound
  <2>2. \A t \in Topics : TopicSound(t)'
    BY <1>1, <1>4 DEF StoreSound, TopicSound, Released
  <2> QED
    BY <2>1, <2>2 DEF StoreSound
<1>11. ExtractionSound(r)'
  BY <1>5, <1>6, <1>7 DEF ExtractionSound
<1> QED
  BY <1>4, <1>6, <1>8, <1>9, <1>10, <1>11, ByExtraction

LEMMA LookSound ==
  ASSUME HistoryInv, NEW x \in Extractors, LookForConversation(x)
  PROVE  HistoryInv'
<1>1. PICK e \in ExtractionRow : e = extraction[x] /\ ExtractionSound(e)
  BY ExtractionOf
<1>2. Keeps /\ StoreTypes' /\ StoreSound' /\ curator' = curator
  BY StoreAlike DEF LookForConversation
<1> DEFINE r == [e EXCEPT !.pc = "extract"]
<1>3. /\ r \in ExtractionRow /\ r.pc = "extract" /\ r.key = e.key /\ r.chosen = e.chosen
      /\ r.left = e.left /\ r.cur = e.cur
  BY DEF ExtractionRow
<1>4. e.pc = "look" /\ (Extracting(x, NoExtraction) \/ Extracting(x, r))
  BY <1>1 DEF LookForConversation, EndExtraction
<1> HIDE DEF r
<1>5. ExtractionSound(e)'
  BY <1>1, <1>2, ExtractionStays
<1>6. ExtractionSound(r)'
  BY <1>3, <1>4, <1>5 DEF ExtractionSound
<1> QED
  BY <1>2, <1>3, <1>4, <1>6, IdleSound, NoRows, ByExtraction

LEMMA ExtractSound ==
  ASSUME HistoryInv, NEW x \in Extractors, Extract(x)
  PROVE  HistoryInv'
<1>1. PICK e \in ExtractionRow : e = extraction[x] /\ ExtractionSound(e)
  BY ExtractionOf
<1>2. Keeps /\ StoreTypes' /\ StoreSound' /\ curator' = curator
  BY StoreAlike DEF Extract
<1>3. e.pc = "extract"
  BY <1>1 DEF Extract
<1>4. CASE EndExtraction(x)
  BY <1>2, <1>4, IdleSound, NoRows, ByExtraction DEF EndExtraction
<1>5. CASE \E pc \in {"tag", "create"}, c \in SUBSET Topics :
             Goes(x, pc, c) /\ (pc = "tag" => \A t \in c : Made(t))
  <2>1. PICK pc \in {"tag", "create"}, c \in SUBSET Topics :
          Goes(x, pc, c) /\ (pc = "tag" => \A t \in c : Made(t))
    BY <1>5
  <2> DEFINE r == [e EXCEPT !.pc = pc, !.chosen = c, !.left = c]
  <2>2. /\ r \in ExtractionRow /\ r.pc = pc /\ r.key = e.key /\ r.chosen = c
        /\ r.left = c /\ r.cur = e.cur
    BY DEF ExtractionRow
  <2>3. Extracting(x, r)
    BY <1>1, <2>1 DEF Goes
  <2> HIDE DEF r
  <2>4. ExtractionSound(e)'
    BY <1>1, <1>2, ExtractionStays
  <2>5. pc = "tag" => \A t \in c : Made(t)'
    BY <1>2, <2>1 DEF Keeps
  <2>6. ExtractionSound(r)'
    BY <1>3, <2>2, <2>4, <2>5 DEF ExtractionSound
  <2> QED
    BY <1>2, <2>2, <2>3, <2>6, ByExtraction
<1>6. ASSUME NEW known \in SUBSET {t \in Topics : Offered(t)},
             NEW new \in SUBSET {t \in Topics : topic[t].state = "unborn"},
             Goes(x, IF new = {} THEN "tag" ELSE "create", known \cup new)
      PROVE  \E pc \in {"tag", "create"}, c \in SUBSET Topics :
               Goes(x, pc, c) /\ (pc = "tag" => \A t \in c : Made(t))
  <2>1. known \cup new \in SUBSET Topics /\ \A t \in known : Made(t)
    BY DEF Offered, Exists, Made
  <2>2. CASE new = {}
    BY <1>6, <2>1, <2>2
  <2>3. CASE new # {}
    BY <1>6, <2>1, <2>3
  <2> QED
    BY <2>2, <2>3
<1>7. CASE ~ EndExtraction(x)
  <2> DEFINE unborn == {t \in Topics : topic[t].state = "unborn"}
             taken == UNION {extraction[y].chosen : y \in Extractors \ {x}}
  <2>1. \E known \in SUBSET {t \in Topics : Offered(t)}, new \in SUBSET (unborn \ taken) :
          Goes(x, IF new = {} THEN "tag" ELSE "create", known \cup new)
    BY <1>7 DEF Extract
  <2> HIDE DEF taken
  <2>2. PICK known \in SUBSET {t \in Topics : Offered(t)}, new \in SUBSET unborn :
          Goes(x, IF new = {} THEN "tag" ELSE "create", known \cup new)
    BY <2>1
  <2> QED
    BY <1>5, <1>6, <2>2
<1> QED
  BY <1>4, <1>7

LEMMA CreateTopicSound ==
  ASSUME HistoryInv, NEW x \in Extractors, NEW t \in Topics, CreateTopic(x, t)
  PROVE  HistoryInv'
<1>1. PICK e \in ExtractionRow : e = extraction[x] /\ ExtractionSound(e)
  BY ExtractionOf
<1>2. StoreTypes /\ StoreSound
  BY StoreHolds
<1>3. e.pc = "create" /\ topic[t].state = "unborn" /\ topic' = [topic EXCEPT ![t] = NewTopic]
      /\ UNCHANGED <<refs, conv, claims, deliveries, curator, released, uncounted>>
  BY <1>1 DEF CreateTopic
<1>4. /\ topic' \in [Topics -> TopicRow] /\ topic'[t].state = "live"
      /\ \A u \in Topics \ {t} : topic'[u] = topic[u]
  BY <1>2, <1>3, NoRows DEF StoreTypes, NewTopic, NoRowYet
<1>5. Keeps /\ StoreTypes' /\ StoreSound'
  BY <1>2, <1>3, <1>4, TopicChanges DEF Made
<1>6. PICK pc \in {"tag", "create"} :
        /\ Extracting(x, [e EXCEPT !.pc = pc])
        /\ pc = "tag" => {u \in e.left : topic[u].state = "unborn"} = {t}
  BY <1>1 DEF CreateTopic
<1> DEFINE r == [e EXCEPT !.pc = pc]
<1>7. /\ r \in ExtractionRow /\ r.pc = pc /\ r.key = e.key /\ r.chosen = e.chosen
      /\ r.left = e.left /\ r.cur = e.cur /\ e.left \subseteq Topics
  BY DEF ExtractionRow
<1>8. Extracting(x, r)
  BY <1>6
<1> HIDE DEF r
<1>9. ExtractionSound(e)'
  BY <1>1, <1>5, ExtractionStays
<1>10. pc = "tag" => \A u \in e.left : Made(u)'
  BY <1>4, <1>6, <1>7 DEF Made
<1>11. ExtractionSound(r)'
  BY <1>3, <1>7, <1>9, <1>10 DEF ExtractionSound
<1> QED
  BY <1>3, <1>5, <1>7, <1>8, <1>11, ByExtraction

\* The ref of t is put: t is done with.
LEMMA TaggedSound ==
  ASSUME HistoryInv, Keeps, StoreTypes', StoreSound', NEW x \in Extractors, NEW t, Tagged(x, t),
         NEW e \in ExtractionRow, e = extraction[x], e.pc \in {"tag", "bump"},
         curator' = curator, Found(t, e.key)'
  PROVE  HistoryInv'
<1>1. ExtractionSound(e)
  BY DEF HistoryInv
<1> DEFINE r == [e EXCEPT !.pc = "tag", !.left = @ \ {t}, !.cur = NoTopic]
<1>2. /\ r \in ExtractionRow /\ r.pc = "tag" /\ r.key = e.key /\ r.chosen = e.chosen
      /\ r.left = e.left \ {t} /\ r.cur = NoTopic
  BY DEF ExtractionRow
<1>3. Extracting(x, r)
  BY DEF Tagged
<1> HIDE DEF r
<1>4. ExtractionSound(e)'
  BY <1>1, ExtractionStays
<1>5. \A u \in r.chosen \ r.left : Found(u, r.key)'
  BY <1>2, <1>4 DEF ExtractionSound
<1>6. ExtractionSound(r)'
  BY <1>2, <1>4, <1>5 DEF ExtractionSound
<1> QED
  BY <1>2, <1>3, <1>6, ByExtraction

LEMMA PutRefSound ==
  ASSUME HistoryInv, NEW x \in Extractors, NEW t \in Topics, PutTopicRef(x, t)
  PROVE  HistoryInv'
<1>1. PICK e \in ExtractionRow : e = extraction[x] /\ ExtractionSound(e)
  BY ExtractionOf
<1>2. e.pc = "tag" /\ t \in e.left /\ e.key \in Keys /\ t \in e.chosen /\ Made(t)
  BY <1>1 DEF PutTopicRef, ExtractionSound
<1>3. refs' = [refs EXCEPT ![t] = @ \cup {e.key}]
      /\ UNCHANGED <<topic, conv, claims, deliveries, curator, released, uncounted>>
  BY <1>1 DEF PutTopicRef
<1>4. Keeps /\ StoreTypes' /\ StoreSound' /\ Found(t, e.key)'
  BY <1>2, <1>3, StoreHolds, RefsGrow
<1>5. CASE Tagged(x, t)
  BY <1>1, <1>2, <1>3, <1>4, <1>5, TaggedSound
<1>6. CASE Extracting(x, [extraction[x] EXCEPT !.pc = "bump", !.cur = t])
  <2> DEFINE r == [e EXCEPT !.pc = "bump", !.cur = t]
  <2>1. /\ r \in ExtractionRow /\ r.pc = "bump" /\ r.key = e.key /\ r.chosen = e.chosen
        /\ r.left = e.left /\ r.cur = t
    BY DEF ExtractionRow
  <2>2. Extracting(x, r)
    BY <1>1, <1>6
  <2> HIDE DEF r
  <2>3. ExtractionSound(e)'
    BY <1>1, <1>4, ExtractionStays
  <2>4. ExtractionSound(r)'
    BY <1>2, <1>4, <2>1, <2>3 DEF ExtractionSound
  <2> QED
    BY <1>3, <1>4, <2>1, <2>2, <2>4, ByExtraction
<1> QED
  BY <1>1, <1>5, <1>6 DEF PutTopicRef

\* A count is added.
LEMMA CountedStays ==
  ASSUME HistoryInv, NEW t \in Topics, NEW n \in Nat, topic' = Counted(t, n),
         UNCHANGED <<refs, conv, claims, deliveries, released, uncounted>>
  PROVE  /\ Keeps /\ StoreTypes' /\ StoreSound'
         /\ Exists(t) => topic'[t].count = topic[t].count + n
         /\ \A u \in Topics \ {t} : topic'[u] = topic[u]
<1>1. StoreTypes /\ StoreSound
  BY StoreHolds
<1>2. CASE ~ Exists(t)
  <2>1. topic' = topic
    BY <1>2 DEF Counted
  <2> QED
    BY <1>2, <2>1, StoreAlike DEF index
<1>3. CASE Exists(t)
  <2> DEFINE row == [topic[t] EXCEPT !.count = @ + n]
  <2>1. topic[t] \in TopicRow
    BY <1>1 DEF StoreTypes
  <2>2. /\ row \in TopicRow /\ row.count = topic[t].count + n /\ row.state = topic[t].state
    BY <2>1 DEF TopicRow
  <2>3. topic' = [topic EXCEPT ![t] = row]
    BY <1>3 DEF Counted
  <2> HIDE DEF row
  <2>4. topic' \in [Topics -> TopicRow] /\ topic'[t] = row
        /\ \A u \in Topics \ {t} : topic'[u] = topic[u]
    BY <1>1, <2>2, <2>3 DEF StoreTypes
  <2>5. \A u \in Topics : topic'[u].state = topic[u].state
    BY <2>2, <2>4
  <2>6. topic[t].state = "live"
    BY <1>3 DEF Exists
  <2>7. \A u \in Topics : topic'[u].state = "unborn" => topic'[u].count = topic[u].count
    BY <2>4, <2>5, <2>6
  <2>8. Keeps /\ StoreTypes' /\ StoreSound'
    BY <1>1, <2>4, <2>5, <2>7, TopicChanges DEF Made
  <2> QED
    BY <2>2, <2>4, <2>8
<1> QED
  BY <1>2, <1>3

LEMMA IncrementSound ==
  ASSUME HistoryInv, NEW x \in Extractors, IncrementTopicConvCount(x)
  PROVE  HistoryInv'
<1>1. PICK e \in ExtractionRow : e = extraction[x] /\ ExtractionSound(e)
  BY ExtractionOf
<1>2. /\ e.pc = "bump" /\ topic' = Counted(e.cur, 1) /\ Tagged(x, e.cur)
      /\ UNCHANGED <<refs, conv, claims, deliveries, curator, released, uncounted>>
  BY <1>1 DEF IncrementTopicConvCount
<1>3. e.cur \in Topics /\ Found(e.cur, e.key)
  BY <1>1, <1>2 DEF ExtractionSound, ExtractionRow
<1>4. Keeps /\ StoreTypes' /\ StoreSound'
  BY <1>2, <1>3, CountedStays
<1>5. Found(e.cur, e.key)'
  BY <1>2, <1>3 DEF Found, Filed, Released
<1> QED
  BY <1>1, <1>2, <1>4, <1>5, TaggedSound

LEMMA CreateConversationSound ==
  ASSUME HistoryInv, NEW x \in Extractors, CreateConversation(x)
  PROVE  HistoryInv'
<1>1. PICK e \in ExtractionRow : e = extraction[x] /\ ExtractionSound(e)
  BY ExtractionOf
<1>2. /\ e.pc = "tag" /\ e.left = {}
      /\ conv' = [conv EXCEPT ![e.key] = IF conv[e.key] = NoConv THEN e.chosen ELSE conv[e.key]]
      /\ Extracting(x, NoExtraction)
      /\ UNCHANGED <<topic, refs, claims, deliveries, curator, released, uncounted>>
  BY <1>1 DEF CreateConversation, EndExtraction
<1>3. /\ e.key \in Keys /\ claim[e.key[1]] = e.key[2] /\ e.chosen \subseteq Topics
      /\ \A t \in e.chosen : Found(t, e.key)
  BY <1>1, <1>2 DEF ExtractionSound, ExtractionRow
<1>4. StoreTypes /\ StoreSound
  BY StoreHolds
<1>5. Keeps /\ StoreTypes' /\ StoreSound'
  <2>1. CASE conv[e.key] = NoConv
    BY <1>2, <1>3, <1>4, <2>1, ConvChanges
  <2>2. CASE conv[e.key] # NoConv
    <3>1. conv' = conv
      BY <1>2, <1>4, <2>2 DEF StoreTypes
    <3> QED
      BY <1>2, <3>1, StoreAlike DEF index
  <2> QED
    BY <2>1, <2>2
<1> QED
  BY <1>2, <1>5, IdleSound, NoRows, ByExtraction

LEMMA ExtractionDiesSound ==
  ASSUME HistoryInv, NEW x \in Extractors, ExtractionDies(x)
  PROVE  HistoryInv'
<1>1. PICK e \in ExtractionRow : e = extraction[x] /\ ExtractionSound(e)
  BY ExtractionOf
<1>2. /\ uncounted' = uncounted \cup ({e.cur} \ {NoTopic}) /\ Extracting(x, NoExtraction)
      /\ UNCHANGED <<index, claims, deliveries, curator, released>>
  BY <1>1 DEF ExtractionDies, EndExtraction
<1>3. young' \subseteq Talks /\ deliveries' \in [Flushes -> Nat] /\ uncounted' \subseteq Topics
  BY <1>2, StoreHolds DEF StoreTypes, claims, ExtractionRow
<1>4. Keeps /\ StoreTypes' /\ StoreSound'
  BY <1>2, <1>3, StoreUnchanged DEF claims
<1> QED
  BY <1>2, <1>4, IdleSound, NoRows, ByExtraction

-----------------------------------------------------------------------------
\* The steps of a request.
LEMMA RequestOf ==
  ASSUME HistoryInv, NEW o \in Curators
  PROVE  \E q \in RequestRow : q = curator[o] /\ RequestSound(q) /\ q.moved \subseteq Keys
                               /\ q.todo \subseteq Keys /\ q.seen \subseteq Topics
BY TopicsTypes DEF HistoryInv, RequestRow

LEMMA ReleasingSound ==
  ASSUME HistoryInv, NEW o \in Curators,
         (\E m \in Merges : MergeTopics(o, m)) \/ (\E t \in Topics : DeleteTopic(o, t))
  PROVE  HistoryInv'
<1>1. StoreTypes /\ StoreSound
  BY StoreHolds
<1>2. ASSUME NEW m \in Merges, MergeTopics(o, m) PROVE HistoryInv'
  <2>1. PICK src \in Topics, dst \in Topics : src = m[1] /\ dst = m[2]
    BY TopicsAssumption
  <2>2. PICK todo \in SUBSET Keys : todo = refs[src]
    BY <1>1 DEF StoreTypes
  <2> DEFINE r == [NoRequest EXCEPT !.pc = "move", !.src = src, !.dst = dst, !.todo = todo]
  <2>3. r \in RequestRow /\ r.pc = "move" /\ r.src = src /\ r.dst = dst /\ r.moved = {}
    BY DEF NoRequest, RequestRow
  <2>4. Requesting(o, r)
    BY <1>2, <2>1, <2>2 DEF MergeTopics
  <2> HIDE DEF r
  <2>5. /\ released' = released \cup {<<src, dst>>} /\ Made(dst)
        /\ UNCHANGED <<index, claims, deliveries, extraction, uncounted>>
    <3>1. m = <<src, dst>>
      BY <2>1, TopicsAssumption
    <3> QED
      BY <1>2, <2>1, <3>1 DEF MergeTopics, Exists, Made
  <2>6. Keeps /\ StoreTypes' /\ StoreSound'
    BY <1>1, <2>5, ReleasedGrows
  <2>7. Made(dst)' /\ <<src, dst>> \in released'
    BY <2>5, <2>6 DEF Keeps
  <2>8. RequestSound(r)'
    BY <2>3, <2>7, FS_EmptySet DEF RequestSound
  <2> QED
    BY <2>3, <2>4, <2>5, <2>6, <2>8, ByRequest
<1>3. ASSUME NEW t \in Topics, DeleteTopic(o, t) PROVE HistoryInv'
  <2>1. PICK todo \in SUBSET Keys : todo = refs[t]
    BY <1>1 DEF StoreTypes
  <2> DEFINE r == [NoRequest EXCEPT !.pc = "wipe", !.src = t, !.todo = todo]
  <2>2. r \in RequestRow /\ r.pc = "wipe" /\ r.src = t /\ r.dst = NoTopic /\ r.moved = {}
    BY DEF NoRequest, RequestRow
  <2>3. Requesting(o, r)
    BY <1>3, <2>1 DEF DeleteTopic
  <2> HIDE DEF r
  <2>4. /\ released' = released \cup {<<t, NoTopic>>}
        /\ UNCHANGED <<index, claims, deliveries, extraction, uncounted>>
    BY <1>3 DEF DeleteTopic
  <2>5. Keeps /\ StoreTypes' /\ StoreSound'
    BY <1>1, <2>4, ReleasedGrows
  <2>6. RequestSound(r)'
    BY <2>2, <2>4, FS_EmptySet DEF RequestSound
  <2> QED
    BY <2>2, <2>3, <2>4, <2>5, <2>6, ByRequest
<1> QED
  BY <1>2, <1>3

LEMMA MoveRefSound ==
  ASSUME HistoryInv, NEW o \in Curators, NEW k \in Keys, MoveRef(o, k)
  PROVE  HistoryInv'
<1>1. PICK q \in RequestRow : q = curator[o] /\ RequestSound(q) /\ q.moved \subseteq Keys
  BY RequestOf
<1>2. /\ q.pc = "move" /\ refs' = [refs EXCEPT ![q.dst] = @ \cup {k}]
      /\ UNCHANGED <<topic, conv, claims, deliveries, extraction, released, uncounted>>
  BY <1>1 DEF MoveRef
<1>3. q.dst \in Topics /\ Made(q.dst) /\ IsFiniteSet(q.moved)
  BY <1>1, <1>2 DEF RequestSound
<1>4. Keeps /\ StoreTypes' /\ StoreSound' /\ Found(q.dst, k)'
  BY <1>2, <1>3, StoreHolds, RefsGrow
<1>5. PICK moved \in {q.moved, q.moved \cup {k}} :
        Requesting(o, [q EXCEPT !.pc = "repoint", !.cur = k, !.moved = moved])
  BY <1>1 DEF MoveRef
<1> DEFINE r == [q EXCEPT !.pc = "repoint", !.cur = k, !.moved = moved]
<1>6. /\ r \in RequestRow /\ r.pc = "repoint" /\ r.cur = k /\ r.moved = moved
      /\ r.src = q.src /\ r.dst = q.dst
  BY <1>1, <1>5 DEF RequestRow
<1>7. Requesting(o, r)
  BY <1>5
<1> HIDE DEF r
<1>8. RequestSound(q)'
  BY <1>1, <1>4, RequestStays
<1>9. IsFiniteSet(moved) /\ \A l \in moved : Found(q.dst, l)'
  <2>1. \A l \in q.moved \cup {k} : Found(q.dst, l)'
    BY <1>2, <1>4, <1>8 DEF RequestSound
  <2>2. IsFiniteSet(q.moved \cup {k})
    BY <1>3, FS_AddElement
  <2> QED
    BY <1>3, <1>5, <2>1, <2>2
<1>10. RequestSound(r)'
  BY <1>2, <1>4, <1>6, <1>8, <1>9 DEF RequestSound
<1> QED
  BY <1>2, <1>4, <1>6, <1>7, <1>10, ByRequest

LEMMA RepointReadSound ==
  ASSUME HistoryInv, NEW o \in Curators, RepointRead(o)
  PROVE  HistoryInv'
<1>1. PICK q \in RequestRow : q = curator[o] /\ RequestSound(q)
  BY RequestOf
<1>2. Keeps /\ StoreTypes' /\ StoreSound' /\ extraction' = extraction /\ q.pc = "repoint"
  BY <1>1, StoreAlike DEF RepointRead
<1>3. RequestSound(q)' /\ q.cur \in Keys
  BY <1>1, <1>2, RequestStays DEF RequestSound
<1>4. CASE Requesting(o, [q EXCEPT !.pc = "unref"])
  <2> DEFINE r == [q EXCEPT !.pc = "unref"]
  <2>1. /\ r \in RequestRow /\ r.pc = "unref" /\ r.cur = q.cur /\ r.moved = q.moved
        /\ r.src = q.src /\ r.dst = q.dst
    BY DEF RequestRow
  <2>2. Requesting(o, r)
    BY <1>4
  <2> HIDE DEF r
  <2>3. RequestSound(r)'
    BY <1>2, <1>3, <2>1 DEF RequestSound
  <2> QED
    BY <1>2, <2>1, <2>2, <2>3, ByRequest
<1>5. CASE conv[q.cur] # NoConv /\ Requesting(o, [q EXCEPT !.pc = "rewrite", !.seen = conv[q.cur]])
  <2>1. PICK seen \in SUBSET Topics : seen = conv[q.cur]
    BY <1>3, <1>5, StoreHolds DEF StoreTypes
  <2> DEFINE r == [q EXCEPT !.pc = "rewrite", !.seen = seen]
  <2>2. /\ r \in RequestRow /\ r.pc = "rewrite" /\ r.cur = q.cur /\ r.moved = q.moved
        /\ r.src = q.src /\ r.dst = q.dst /\ r.seen = seen
    BY DEF RequestRow
  <2>3. Requesting(o, r)
    BY <1>5, <2>1
  <2> HIDE DEF r
  <2>4. conv'[q.cur] # NoConv /\ \A t \in seen : Found(t, q.cur)'
    BY <1>2, <1>3, <1>5, <2>1, StoreHolds DEF StoreSound, ConvSound, Keeps
  <2>5. RequestSound(r)'
    BY <1>2, <1>3, <2>2, <2>4 DEF RequestSound
  <2> QED
    BY <1>2, <2>2, <2>3, <2>5, ByRequest
<1> QED
  BY <1>1, <1>4, <1>5 DEF RepointRead

LEMMA RepointSound ==
  ASSUME HistoryInv, NEW o \in Curators, RepointConversationTopic(o)
  PROVE  HistoryInv'
<1>1. PICK q \in RequestRow : q = curator[o] /\ RequestSound(q) /\ q.seen \subseteq Topics
  BY RequestOf
<1> DEFINE tags == IF q.src \in q.seen THEN (q.seen \ {q.src}) \cup {q.dst} ELSE q.seen
           r == [q EXCEPT !.pc = "unref", !.seen = {}]
<1>2. /\ q.pc = "rewrite" /\ conv' = [conv EXCEPT ![q.cur] = tags] /\ Requesting(o, r)
      /\ UNCHANGED <<topic, refs, claims, deliveries, extraction, released, uncounted>>
  BY <1>1 DEF RepointConversationTopic
<1>3. /\ r \in RequestRow /\ r.pc = "unref" /\ r.cur = q.cur /\ r.moved = q.moved
      /\ r.src = q.src /\ r.dst = q.dst
  BY DEF RequestRow
<1> HIDE DEF r
<1>4. /\ q.cur \in Keys /\ q.dst \in Topics /\ Found(q.dst, q.cur) /\ conv[q.cur] # NoConv
      /\ \A t \in q.seen : Found(t, q.cur)
  BY <1>1, <1>2 DEF RequestSound
<1>5. tags \in SUBSET Topics /\ \A t \in tags : Found(t, q.cur)
  BY <1>1, <1>4
<1> HIDE DEF tags
<1>6. claim[q.cur[1]] = q.cur[2]
  BY <1>4, StoreHolds DEF StoreSound, ConvSound
<1>7. Keeps /\ StoreTypes' /\ StoreSound'
  BY <1>2, <1>4, <1>5, <1>6, StoreHolds, ConvChanges
<1>8. RequestSound(q)'
  BY <1>1, <1>7, RequestStays
<1>9. RequestSound(r)'
  BY <1>2, <1>3, <1>8 DEF RequestSound
<1> QED
  BY <1>2, <1>3, <1>7, <1>9, ByRequest

LEMMA UnrefSound ==
  ASSUME HistoryInv, NEW o \in Curators,
         DeleteSourceRef(o) \/ \E k \in Keys : DeleteRef(o, k)
  PROVE  HistoryInv'
<1>1. PICK q \in RequestRow : /\ q = curator[o] /\ RequestSound(q)
                              /\ q.todo \subseteq Keys /\ q.moved \subseteq Keys
  BY RequestOf
<1>2. CASE DeleteSourceRef(o)
  <2> DEFINE r == [q EXCEPT !.pc = "move", !.todo = @ \ {q.cur}, !.cur = NoKey]
  <2>1. /\ q.pc = "unref" /\ refs' = [refs EXCEPT ![q.src] = @ \ {q.cur}] /\ Requesting(o, r)
        /\ UNCHANGED <<topic, conv, claims, deliveries, extraction, released, uncounted>>
    BY <1>1, <1>2 DEF DeleteSourceRef
  <2>2. /\ r \in RequestRow /\ r.pc = "move" /\ r.moved = q.moved
        /\ r.src = q.src /\ r.dst = q.dst
    BY <1>1 DEF RequestRow
  <2> HIDE DEF r
  <2>3. q.src \in Topics /\ <<q.src, q.dst>> \in released /\ Found(q.dst, q.cur)
    BY <1>1, <2>1, StoreHolds, TakenUp DEF RequestSound
  <2>4. Keeps /\ StoreTypes' /\ StoreSound'
    BY <2>1, <2>3, StoreHolds, RefsShrink
  <2>5. RequestSound(q)'
    BY <1>1, <2>4, RequestStays
  <2>6. RequestSound(r)'
    BY <2>1, <2>2, <2>5 DEF RequestSound
  <2> QED
    BY <2>1, <2>2, <2>4, <2>6, ByRequest
<1>3. ASSUME NEW k \in Keys, DeleteRef(o, k) PROVE HistoryInv'
  <2> DEFINE r == [q EXCEPT !.todo = @ \ {k}]
  <2>1. /\ q.pc = "wipe" /\ refs' = [refs EXCEPT ![q.src] = @ \ {k}] /\ Requesting(o, r)
        /\ UNCHANGED <<topic, conv, claims, deliveries, extraction, released, uncounted>>
    BY <1>1, <1>3 DEF DeleteRef
  <2>2. /\ r \in RequestRow /\ r.pc = "wipe" /\ r.moved = q.moved
        /\ r.src = q.src /\ r.dst = q.dst
    BY <1>1, <2>1 DEF RequestRow
  <2> HIDE DEF r
  <2>3. q.src \in Topics /\ <<q.src, q.dst>> \in released /\ q.dst \notin Topics
    BY <1>1, <2>1, StoreHolds, TakenUp, TopicsAssumption DEF RequestSound
  <2>4. Keeps /\ StoreTypes' /\ StoreSound'
    BY <2>1, <2>3, StoreHolds, RefsShrink
  <2>5. RequestSound(q)'
    BY <1>1, <2>4, RequestStays
  <2>6. RequestSound(r)'
    BY <2>1, <2>2, <2>5 DEF RequestSound
  <2> QED
    BY <2>1, <2>2, <2>4, <2>6, ByRequest
<1> QED
  BY <1>2, <1>3

LEMMA CountMovedSound ==
  ASSUME HistoryInv, NEW o \in Curators, CountMoved(o)
  PROVE  HistoryInv'
<1>1. PICK q \in RequestRow : q = curator[o] /\ RequestSound(q)
  BY RequestOf
<1>2. /\ q.pc = "move" /\ topic' = Counted(q.dst, Cardinality(q.moved))
      /\ UNCHANGED <<refs, conv, claims, deliveries, extraction, released, uncounted>>
  BY <1>1 DEF CountMoved
<1>3. q.dst \in Topics /\ Cardinality(q.moved) \in Nat
  BY <1>1, <1>2, FS_CardinalityType DEF RequestSound
<1>4. Keeps /\ StoreTypes' /\ StoreSound'
  BY <1>2, <1>3, CountedStays
<1> DEFINE r == [q EXCEPT !.pc = "mark", !.moved = {}]
<1>5. r \in RequestRow /\ r.pc = "mark" /\ r.moved = {} /\ r.src = q.src /\ r.dst = q.dst
  BY DEF RequestRow
<1>6. Requesting(o, r) \/ Requesting(o, NoRequest)
  BY <1>1 DEF CountMoved, EndRequest
<1> HIDE DEF r
<1>7. RequestSound(q)'
  BY <1>1, <1>4, RequestStays
<1>8. RequestSound(r)'
  BY <1>2, <1>5, <1>7, FS_EmptySet DEF RequestSound
<1> QED
  BY <1>2, <1>4, <1>5, <1>6, <1>8, IdleSound, NoRows, ByRequest

\* The row of a topic that a request has taken refs from is written.
LEMMA RowSound ==
  ASSUME HistoryInv, NEW o \in Curators, MarkMerged(o) \/ DeleteTopicRow(o)
  PROVE  HistoryInv'
<1>1. PICK q \in RequestRow : q = curator[o] /\ RequestSound(q)
  BY RequestOf
<1>2. /\ q.pc # "idle" /\ Requesting(o, NoRequest)
      /\ UNCHANGED <<refs, conv, claims, deliveries, extraction, released, uncounted>>
  BY <1>1 DEF MarkMerged, DeleteTopicRow, EndRequest
<1>3. StoreTypes /\ StoreSound /\ Released(q.src) /\ q.src \in Topics
  BY <1>1, <1>2, StoreHolds, TakenUp
<1>4. \/ topic' = topic
      \/ \E row \in TopicRow : row.state # "unborn" /\ topic' = [topic EXCEPT ![q.src] = row]
  <2>1. CASE MarkMerged(o)
    <3> DEFINE row == [state |-> "live", archived |-> TRUE, into |-> q.dst, count |-> 0]
    <3>1. row \in TopicRow /\ row.state = "live"
      BY DEF TopicRow, RequestRow
    <3>2. topic' = topic \/ topic' = [topic EXCEPT ![q.src] = row]
      BY <1>1, <2>1 DEF MarkMerged
    <3> QED
      BY <3>1, <3>2
  <2>2. CASE DeleteTopicRow(o)
    <3> DEFINE row == [NoRowYet EXCEPT !.state = "gone"]
    <3>1. row \in TopicRow /\ row.state = "gone"
      BY DEF TopicRow, NoRowYet
    <3>2. topic' = topic \/ topic' = [topic EXCEPT ![q.src] = row]
      BY <1>1, <2>2 DEF DeleteTopicRow
    <3> QED
      BY <3>1, <3>2
  <2> QED
    BY <2>1, <2>2
<1>5. /\ topic' \in [Topics -> TopicRow]
      /\ \A t \in Topics : topic'[t] = topic[t] \/ (t = q.src /\ topic'[t].state # "unborn")
  BY <1>3, <1>4 DEF StoreTypes
<1>6. Keeps /\ StoreTypes' /\ StoreSound'
  <2>1. \A t \in Topics :
          /\ Made(t) => Made(t)'
          /\ topic'[t].state = "unborn" => topic'[t].count = topic[t].count
          /\ topic'[t].state = "gone" => topic[t].state = "gone" \/ Released(t)
    BY <1>3, <1>5 DEF Made
  <2> QED
    BY <1>2, <1>3, <1>5, <2>1, TopicChanges
<1> QED
  BY <1>2, <1>6, IdleSound, NoRows, ByRequest

LEMMA RequestDiesSound ==
  ASSUME HistoryInv, NEW o \in Curators, RequestDies(o)
  PROVE  HistoryInv'
<1>1. PICK q \in RequestRow : q = curator[o] /\ RequestSound(q)
  BY RequestOf
<1>2. /\ q.pc # "idle" /\ Requesting(o, NoRequest)
      /\ uncounted' = IF q.moved = {} THEN uncounted ELSE uncounted \cup {q.dst}
      /\ UNCHANGED <<index, claims, deliveries, extraction, released>>
  BY <1>1 DEF RequestDies, EndRequest
<1>3. q.moved # {} => q.dst \in Topics
  BY <1>1 DEF RequestSound, RequestRow
<1>4. young' \subseteq Talks /\ deliveries' \in [Flushes -> Nat] /\ uncounted' \subseteq Topics
  BY <1>2, <1>3, StoreHolds DEF StoreTypes, claims
<1>5. Keeps /\ StoreTypes' /\ StoreSound'
  BY <1>2, <1>4, StoreUnchanged DEF claims
<1> QED
  BY <1>2, <1>5, IdleSound, NoRows, ByRequest

-----------------------------------------------------------------------------
\* The other steps write no row of an actor.
LEMMA ActorsStay ==
  ASSUME HistoryInv, Keeps, StoreTypes', StoreSound', UNCHANGED <<extraction, curator>>
  PROVE  HistoryInv'
<1>1. /\ extraction \in [Extractors -> ExtractionRow] /\ curator \in [Curators -> RequestRow]
  BY TopicsTypes DEF HistoryInv
<1>2. TopicsTypeOK'
  <2>1. extraction' \in [Extractors -> ExtractionRow] /\ curator' \in [Curators -> RequestRow]
    BY <1>1
  <2> QED
    BY <2>1 DEF TopicsTypeOK, StoreTypes, TopicRow, ExtractionRow, RequestRow
<1>3. ASSUME NEW y \in Extractors PROVE ExtractionSound(extraction[y])'
  <2>1. PICK e \in ExtractionRow : e = extraction[y] /\ ExtractionSound(e)
    BY ExtractionOf
  <2>2. ExtractionSound(e)' /\ extraction'[y] = e
    BY <2>1, ExtractionStays
  <2> QED
    BY <2>2 DEF ExtractionSound, Found, Filed, Released, Made
<1>4. ASSUME NEW p \in Curators PROVE RequestSound(curator[p])'
  <2>1. PICK q \in RequestRow : q = curator[p] /\ RequestSound(q)
    BY RequestOf
  <2>2. RequestSound(q)' /\ curator'[p] = q
    BY <2>1, RequestStays
  <2> QED
    BY <2>2 DEF RequestSound, Found, Filed, Released, Made
<1> QED
  BY <1>2, <1>3, <1>4 DEF HistoryInv

LEMMA ArchiveSound ==
  ASSUME HistoryInv, NEW t \in Topics, ArchiveTopic(t)
  PROVE  HistoryInv' /\ \A u \in Topics : topic'[u].count = topic[u].count
<1>1. StoreTypes /\ StoreSound
  BY StoreHolds
<1> DEFINE row == [topic[t] EXCEPT !.archived = ~@]
<1>2. topic[t] \in TopicRow
  BY <1>1 DEF StoreTypes
<1>3. row \in TopicRow /\ row.state = topic[t].state /\ row.count = topic[t].count
  BY <1>2 DEF TopicRow
<1>4. topic' = [topic EXCEPT ![t] = row]
      /\ UNCHANGED <<refs, conv, claims, deliveries, extraction, curator, released, uncounted>>
  BY DEF ArchiveTopic
<1> HIDE DEF row
<1>5. /\ topic' \in [Topics -> TopicRow]
      /\ \A u \in Topics : topic'[u].state = topic[u].state /\ topic'[u].count = topic[u].count
  BY <1>1, <1>3, <1>4 DEF StoreTypes
<1>6. Keeps /\ StoreTypes' /\ StoreSound'
  BY <1>1, <1>4, <1>5, TopicChanges DEF Made
<1> QED
  BY <1>4, <1>5, <1>6, ActorsStay

LEMMA HistoryStep == HistoryInv /\ [TopicsNext]_topicVars => HistoryInv'
<1> SUFFICES ASSUME HistoryInv, [TopicsNext]_topicVars PROVE HistoryInv'
  OBVIOUS
<1>1. CASE UNCHANGED topicVars
  <2>1. Keeps /\ StoreTypes' /\ StoreSound'
    BY <1>1, StoreAlike DEF topicVars
  <2> QED
    BY <1>1, <2>1, ActorsStay DEF topicVars
<1>2. ASSUME NEW x \in Extractors, ExtractionStep(x) PROVE HistoryInv'
  BY <1>2, ClaimSound, LookSound, ExtractSound, CreateTopicSound, PutRefSound, IncrementSound,
     CreateConversationSound, ExtractionDiesSound DEF ExtractionStep
<1>3. ASSUME NEW o \in Curators, RequestStep(o) PROVE HistoryInv'
  BY <1>3, ReleasingSound, MoveRefSound, RepointReadSound, RepointSound, UnrefSound,
     CountMovedSound, RowSound, RequestDiesSound DEF RequestStep
<1>4. ASSUME NEW s \in Talks, ClaimAges(s) PROVE HistoryInv'
  <2>1. young' \subseteq Talks /\ deliveries' \in [Flushes -> Nat] /\ uncounted' \subseteq Topics
    BY <1>4, StoreHolds DEF ClaimAges, StoreTypes
  <2>2. Keeps /\ StoreTypes' /\ StoreSound'
    BY <1>4, <2>1, StoreUnchanged DEF ClaimAges
  <2> QED
    BY <1>4, <2>2, ActorsStay DEF ClaimAges
<1> QED
  BY <1>1, <1>2, <1>3, <1>4, ArchiveSound DEF TopicsNext

LEMMA HistoryInit == TopicsInit => HistoryInv
<1> SUFFICES ASSUME TopicsInit PROVE HistoryInv
  OBVIOUS
<1>1. StoreTypes
  BY NoRows, TopicsAssumption DEF TopicsInit, StoreTypes
<1>2. StoreSound
  BY DEF TopicsInit, StoreSound, ConvSound, TopicSound, Released, NewTopic, NoRowYet
<1>3. \A x \in Extractors : ExtractionSound(extraction[x])
  BY DEF TopicsInit, ExtractionSound, NoExtraction
<1>4. \A o \in Curators : RequestSound(curator[o])
  BY FS_EmptySet DEF TopicsInit, RequestSound, NoRequest
<1>5. extraction \in [Extractors -> ExtractionRow] /\ curator \in [Curators -> RequestRow]
  BY NoRows DEF TopicsInit
<1> QED
  BY <1>1, <1>2, <1>3, <1>4, <1>5, TopicsTypes DEF HistoryInv

-----------------------------------------------------------------------------
\* The counts.  Who has still to count a ref of t.
Bumping(t) == {x \in Extractors : extraction[x].cur = t}
Moving(t) == {m \in Curators \X Keys : curator[m[1]].dst = t /\ m[2] \in curator[m[1]].moved}

IndexFinite(t) == IsFiniteSet(refs[t]) /\ IsFiniteSet(Bumping(t)) /\ IsFiniteSet(Moving(t))

\* The refs that nobody has counted or will.
Surplus(t) ==
  Cardinality(refs[t]) - (topic[t].count + (Cardinality(Bumping(t)) + Cardinality(Moving(t))))

Balance(t) == ~Released(t) => Surplus(t) >= 0 /\ (t \notin uncounted => Surplus(t) = 0)

CountsInv == \A t \in Topics : IndexFinite(t) /\ Balance(t)

LEMMA SurplusType ==
  ASSUME StoreTypes, NEW t \in Topics, IndexFinite(t)
  PROVE  /\ Cardinality(refs[t]) \in Nat /\ topic[t].count \in Nat
         /\ Cardinality(Bumping(t)) \in Nat /\ Cardinality(Moving(t)) \in Nat
         /\ Surplus(t) \in Int
<1>1. Cardinality(refs[t]) \in Nat /\ Cardinality(Bumping(t)) \in Nat /\ Cardinality(Moving(t)) \in Nat
  BY FS_CardinalityType DEF IndexFinite
<1>2. topic[t].count \in Nat
  BY DEF StoreTypes, TopicRow
<1> QED
  BY <1>1, <1>2 DEF Surplus

LEMMA BalanceNext ==
  ASSUME NEW t \in Topics, Balance(t), released \subseteq released', uncounted \subseteq uncounted',
         StoreTypes, IndexFinite(t),
         ~Released(t) =>
           \/ Surplus(t)' = Surplus(t)
           \/ t \in uncounted' /\ Surplus(t)' \in Int /\ Surplus(t)' >= Surplus(t)
  PROVE  Balance(t)'
<1> SUFFICES ASSUME ~Released(t)
             PROVE  Surplus(t)' >= 0 /\ (t \notin uncounted' => Surplus(t)' = 0)
  BY DEF Balance, Released
<1>1. Surplus(t) \in Int /\ Surplus(t) >= 0 /\ (t \notin uncounted => Surplus(t) = 0)
  BY SurplusType DEF Balance
<1> QED
  BY <1>1

\* A step after which the same refs are still to be counted, by the same actors.
LEMMA SameBumping ==
  ASSUME NEW t, \A x \in Extractors : extraction'[x].cur = t <=> extraction[x].cur = t
  PROVE  Bumping(t)' = Bumping(t)
BY DEF Bumping

LEMMA SameMoving ==
  ASSUME NEW t,
         \A o \in Curators :
           \/ curator'[o].dst = curator[o].dst /\ curator'[o].moved = curator[o].moved
           \/ curator[o].dst # t /\ curator'[o].dst # t
           \/ curator[o].moved = {} /\ curator'[o].moved = {}
  PROVE  Moving(t)' = Moving(t)
BY DEF Moving

LEMMA Quiet ==
  ASSUME HistoryInv, CountsInv, NEW t \in Topics,
         Bumping(t)' = Bumping(t), Moving(t)' = Moving(t),
         released \subseteq released', uncounted \subseteq uncounted',
         refs'[t] \subseteq refs[t],
         ~Released(t) => refs'[t] = refs[t] /\ topic'[t].count = topic[t].count
  PROVE  IndexFinite(t)' /\ Balance(t)'
<1>1. IndexFinite(t) /\ Balance(t) /\ StoreTypes
  BY StoreHolds DEF CountsInv
<1>2. IsFiniteSet(refs'[t])
  BY <1>1, FS_Subset DEF IndexFinite
<1>3. IndexFinite(t)'
  BY <1>1, <1>2 DEF IndexFinite
<1>4. ~Released(t) => Surplus(t)' = Surplus(t)
  BY DEF Surplus
<1> QED
  BY <1>1, <1>3, <1>4, BalanceNext

\* A step of one extraction, or of one request.
LEMMA OneBumps ==
  ASSUME HistoryInv, NEW x \in Extractors, NEW r \in ExtractionRow, Extracting(x, r), NEW t
  PROVE  /\ r.cur = t => Bumping(t)' = Bumping(t) \cup {x}
         /\ r.cur # t => Bumping(t)' = Bumping(t) \ {x}
         /\ x \in Bumping(t) <=> extraction[x].cur = t
<1>1. extraction \in [Extractors -> ExtractionRow]
  BY TopicsTypes DEF HistoryInv
<1>2. extraction'[x] = r /\ \A y \in Extractors \ {x} : extraction'[y] = extraction[y]
  BY <1>1 DEF Extracting
<1> QED
  BY <1>2 DEF Bumping

LEMMA OneMoves ==
  ASSUME HistoryInv, NEW o \in Curators, NEW r \in RequestRow, Requesting(o, r),
         NEW q \in RequestRow, q = curator[o], NEW t
  PROVE  /\ \A p \in Curators \ {o} : curator'[p] = curator[p]
         /\ curator'[o] = r
         /\ r.moved = {} => Moving(t)' = Moving(t) \ ({o} \X q.moved)
         /\ q.dst = t => {o} \X q.moved \subseteq Moving(t)
         /\ \A k \in Keys : r.dst = q.dst /\ r.moved = q.moved \cup {k} /\ q.dst = t
              => Moving(t)' = Moving(t) \cup {<<o, k>>}
<1>1. curator \in [Curators -> RequestRow]
  BY TopicsTypes DEF HistoryInv
<1>2. curator'[o] = r /\ \A p \in Curators \ {o} : curator'[p] = curator[p]
  BY <1>1 DEF Requesting
<1>3. q.moved \subseteq Keys
  BY DEF RequestRow
<1>4. r.moved = {} => Moving(t)' = Moving(t) \ ({o} \X q.moved)
  <2> SUFFICES ASSUME r.moved = {}, NEW p \in Curators, NEW l \in Keys
               PROVE  <<p, l>> \in Moving(t)' <=> <<p, l>> \in Moving(t) \ ({o} \X q.moved)
    BY DEF Moving
  <2>1. CASE p = o
    BY <1>2, <2>1 DEF Moving
  <2>2. CASE p # o
    BY <1>2, <2>2 DEF Moving
  <2> QED
    BY <2>1, <2>2
<1>5. q.dst = t => {o} \X q.moved \subseteq Moving(t)
  BY <1>3 DEF Moving
<1>6. ASSUME NEW k \in Keys, r.dst = q.dst, r.moved = q.moved \cup {k}, q.dst = t
      PROVE  Moving(t)' = Moving(t) \cup {<<o, k>>}
  <2> SUFFICES ASSUME NEW p \in Curators, NEW l \in Keys
               PROVE  <<p, l>> \in Moving(t)' <=> <<p, l>> \in Moving(t) \cup {<<o, k>>}
    BY DEF Moving
  <2>1. CASE p = o
    BY <1>2, <1>6, <2>1 DEF Moving
  <2>2. CASE p # o
    BY <1>2, <2>2 DEF Moving
  <2> QED
    BY <2>1, <2>2
<1> QED
  BY <1>2, <1>4, <1>5, <1>6

LEMMA QuietExtraction ==
  ASSUME HistoryInv, CountsInv, NEW x \in Extractors, NEW r, Extracting(x, r),
         r.cur = extraction[x].cur, UNCHANGED <<refs, curator, released>>,
         uncounted \subseteq uncounted',
         \A t \in Topics : topic'[t].count = topic[t].count
  PROVE  CountsInv'
<1>1. extraction \in [Extractors -> ExtractionRow]
  BY TopicsTypes DEF HistoryInv
<1>2. \A y \in Extractors : extraction'[y].cur = extraction[y].cur
  BY <1>1 DEF Extracting
<1>3. ASSUME NEW t \in Topics PROVE IndexFinite(t)' /\ Balance(t)'
  <2>1. Bumping(t)' = Bumping(t) /\ Moving(t)' = Moving(t)
    BY <1>2, SameBumping, SameMoving
  <2> QED
    BY <2>1, Quiet
<1> QED
  BY <1>3 DEF CountsInv

LEMMA QuietExtractions ==
  ASSUME HistoryInv, CountsInv, NEW x \in Extractors,
         \/ \E e \in Flushes : ClaimConversationSession(x, e)
         \/ LookForConversation(x) \/ Extract(x) \/ CreateConversation(x)
         \/ \E t \in Topics : CreateTopic(x, t)
  PROVE  CountsInv'
<1>1. PICK e \in ExtractionRow : e = extraction[x] /\ ExtractionSound(e)
  BY ExtractionOf
<1>2. NoExtraction.cur = NoTopic
  BY DEF NoExtraction
<1>3. ASSUME NEW f \in Flushes, ClaimConversationSession(x, f) PROVE CountsInv'
  <2>1. PICK key : Extracting(x, [NoExtraction EXCEPT !.pc = "look", !.key = key, !.at = f[2]])
    BY <1>3 DEF ClaimConversationSession
  <2>2. e.cur = NoTopic
    BY <1>1, <1>3 DEF ClaimConversationSession, ExtractionSound
  <2>3. [NoExtraction EXCEPT !.pc = "look", !.key = key, !.at = f[2]].cur = extraction[x].cur
    BY <1>1, <2>2 DEF NoExtraction
  <2> QED
    BY <1>3, <2>1, <2>3, QuietExtraction DEF ClaimConversationSession, index
<1>4. CASE LookForConversation(x)
  <2>1. e.cur = NoTopic /\ (Extracting(x, NoExtraction) \/ Extracting(x, [e EXCEPT !.pc = "extract"]))
    BY <1>1, <1>4 DEF LookForConversation, ExtractionSound, EndExtraction
  <2>2. [e EXCEPT !.pc = "extract"].cur = e.cur
    BY DEF ExtractionRow
  <2> QED
    BY <1>1, <1>2, <1>4, <2>1, <2>2, QuietExtraction DEF LookForConversation, index
<1>5. CASE Extract(x)
  <2>1. e.cur = NoTopic
    BY <1>1, <1>5 DEF Extract, ExtractionSound
  <2>2. EndExtraction(x) \/ \E pc, c : Goes(x, pc, c)
    BY <1>5 DEF Extract
  <2>3. CASE EndExtraction(x)
    BY <1>1, <1>2, <1>5, <2>1, <2>3, QuietExtraction DEF Extract, EndExtraction, index
  <2>4. ASSUME NEW pc, NEW c, Goes(x, pc, c) PROVE CountsInv'
    <3>1. Extracting(x, [e EXCEPT !.pc = pc, !.chosen = c, !.left = c])
      BY <1>1, <2>4 DEF Goes
    <3>2. [e EXCEPT !.pc = pc, !.chosen = c, !.left = c].cur = e.cur
      BY DEF ExtractionRow
    <3> QED
      BY <1>1, <1>5, <3>1, <3>2, QuietExtraction DEF Extract, index
  <2> QED
    BY <2>2, <2>3, <2>4
<1>6. CASE CreateConversation(x)
  <2>1. e.cur = NoTopic
    BY <1>1, <1>6 DEF CreateConversation, ExtractionSound
  <2> QED
    BY <1>1, <1>2, <1>6, <2>1, QuietExtraction DEF CreateConversation, EndExtraction
<1>7. ASSUME NEW t \in Topics, CreateTopic(x, t) PROVE CountsInv'
  <2>1. PICK pc : Extracting(x, [e EXCEPT !.pc = pc])
    BY <1>1, <1>7 DEF CreateTopic
  <2>2. [e EXCEPT !.pc = pc].cur = e.cur
    BY DEF ExtractionRow
  <2>3. topic[t].count = 0 /\ topic \in [Topics -> TopicRow]
    BY <1>7, StoreHolds DEF CreateTopic, StoreSound, TopicSound, Released, StoreTypes
  <2>4. topic' = [topic EXCEPT ![t] = NewTopic] /\ NewTopic.count = 0
    BY <1>7 DEF CreateTopic, NewTopic, NoRowYet
  <2>5. \A u \in Topics : topic'[u].count = topic[u].count
    BY <2>3, <2>4
  <2> QED
    BY <1>1, <1>7, <2>1, <2>2, <2>5, QuietExtraction DEF CreateTopic
<1> QED
  BY <1>3, <1>4, <1>5, <1>6, <1>7

\* A topic that does not exist is one that a request took refs from, or has no refs.
LEMMA MadeExists ==
  ASSUME HistoryInv, NEW t \in Topics, Made(t), ~Released(t)
  PROVE  Exists(t)
BY StoreHolds DEF StoreSound, TopicSound, Released, StoreTypes, TopicRow, Made, Exists

LEMMA PutRefCounts ==
  ASSUME HistoryInv, CountsInv, NEW x \in Extractors, NEW t \in Topics, PutTopicRef(x, t)
  PROVE  CountsInv'
<1>1. PICK e \in ExtractionRow : e = extraction[x] /\ ExtractionSound(e)
  BY ExtractionOf
<1>2. StoreTypes
  BY StoreHolds
<1>3. /\ e.pc = "tag" /\ e.cur = NoTopic /\ e.key \in Keys
      /\ refs' = [refs EXCEPT ![t] = @ \cup {e.key}]
      /\ UNCHANGED <<topic, curator, released, uncounted>>
  BY <1>1 DEF PutTopicRef, ExtractionSound
<1>4. refs'[t] = refs[t] \cup {e.key} /\ \A u \in Topics \ {t} : refs'[u] = refs[u]
  BY <1>2, <1>3 DEF StoreTypes
<1>5. CASE e.key \in refs[t]
  <2>1. Extracting(x, [e EXCEPT !.pc = "tag", !.left = @ \ {t}, !.cur = NoTopic])
    BY <1>1, <1>5 DEF PutTopicRef, Tagged
  <2>2. [e EXCEPT !.pc = "tag", !.left = @ \ {t}, !.cur = NoTopic].cur = NoTopic
    BY DEF ExtractionRow
  <2>3. refs' = refs
    BY <1>2, <1>3, <1>5 DEF StoreTypes
  <2> QED
    BY <1>1, <1>3, <2>1, <2>2, <2>3, QuietExtraction
<1>6. CASE e.key \notin refs[t]
  <2> DEFINE r == [e EXCEPT !.pc = "bump", !.cur = t]
  <2>1. r \in ExtractionRow /\ r.cur = t
    BY DEF ExtractionRow
  <2>2. Extracting(x, r)
    BY <1>1, <1>6 DEF PutTopicRef
  <2> HIDE DEF r
  <2>3. t # NoTopic
    BY TopicsAssumption
  <2>4. \A u : Moving(u)' = Moving(u)
    BY <1>3 DEF Moving
  <2>5. ASSUME NEW u \in Topics PROVE IndexFinite(u)' /\ Balance(u)'
    <3>1. IndexFinite(u) /\ Balance(u)
      BY DEF CountsInv
    <3>2. CASE u # t
      <4>1. Bumping(u)' = Bumping(u) \ {x} /\ x \notin Bumping(u)
        BY <1>1, <1>3, <2>1, <2>2, <3>2, TopicsAssumption, OneBumps
      <4>2. Bumping(u)' = Bumping(u)
        BY <4>1
      <4> QED
        BY <1>3, <1>4, <2>4, <3>2, <4>2, Quiet
    <3>3. CASE u = t
      <4>1. Bumping(t)' = Bumping(t) \cup {x} /\ x \notin Bumping(t)
        BY <1>1, <1>3, <2>1, <2>2, <2>3, OneBumps
      <4>2. /\ IsFiniteSet(Bumping(t) \cup {x})
            /\ Cardinality(Bumping(t) \cup {x}) = Cardinality(Bumping(t)) + 1
        BY <3>1, <3>3, <4>1, FS_AddElement DEF IndexFinite
      <4>3. /\ IsFiniteSet(refs[t] \cup {e.key})
            /\ Cardinality(refs[t] \cup {e.key}) = Cardinality(refs[t]) + 1
        BY <1>6, <3>1, <3>3, FS_AddElement DEF IndexFinite
      <4>4. IndexFinite(t)'
        BY <1>4, <2>4, <3>1, <3>3, <4>1, <4>2, <4>3 DEF IndexFinite
      <4>5. Surplus(t)' = Surplus(t)
        <5>1. /\ Cardinality(refs[t]) \in Nat /\ topic[t].count \in Nat
              /\ Cardinality(Bumping(t)) \in Nat /\ Cardinality(Moving(t)) \in Nat
          BY <1>2, <3>1, <3>3, SurplusType
        <5>2. Surplus(t)' = (Cardinality(refs[t]) + 1)
                             - (topic[t].count + ((Cardinality(Bumping(t)) + 1) + Cardinality(Moving(t))))
          BY <1>3, <1>4, <2>4, <4>1, <4>2, <4>3 DEF Surplus
        <5> QED
          BY <5>1, <5>2 DEF Surplus
      <4> QED
        BY <1>2, <1>3, <3>1, <3>3, <4>4, <4>5, BalanceNext
    <3> QED
      BY <3>2, <3>3
  <2> QED
    BY <2>5 DEF CountsInv
<1> QED
  BY <1>5, <1>6

LEMMA IncrementCounts ==
  ASSUME HistoryInv, CountsInv, NEW x \in Extractors, IncrementTopicConvCount(x)
  PROVE  CountsInv'
<1>1. PICK e \in ExtractionRow : e = extraction[x] /\ ExtractionSound(e)
  BY ExtractionOf
<1>2. StoreTypes
  BY StoreHolds
<1>3. /\ e.pc = "bump" /\ topic' = Counted(e.cur, 1)
      /\ UNCHANGED <<refs, conv, claims, deliveries, curator, released, uncounted>>
      /\ Extracting(x, [e EXCEPT !.pc = "tag", !.left = @ \ {e.cur}, !.cur = NoTopic])
  BY <1>1 DEF IncrementTopicConvCount, Tagged
<1>4. PICK t \in Topics : t = e.cur /\ Made(t) /\ t # NoTopic
  BY <1>1, <1>3, TopicsAssumption DEF ExtractionSound, ExtractionRow
<1> DEFINE r == [e EXCEPT !.pc = "tag", !.left = @ \ {e.cur}, !.cur = NoTopic]
<1>5. r \in ExtractionRow /\ r.cur = NoTopic /\ Extracting(x, r)
  BY <1>3 DEF ExtractionRow
<1> HIDE DEF r
<1>6. /\ Exists(t) => topic'[t].count = topic[t].count + 1
      /\ \A u \in Topics \ {t} : topic'[u] = topic[u]
  BY <1>3, <1>4, CountedStays
<1>7. \A u : Moving(u)' = Moving(u)
  BY <1>3 DEF Moving
<1>8. ASSUME NEW u \in Topics PROVE IndexFinite(u)' /\ Balance(u)'
  <2>1. IndexFinite(u) /\ Balance(u)
    BY DEF CountsInv
  <2>2. Bumping(u)' = Bumping(u) \ {x} /\ (x \in Bumping(u) <=> u = t)
    BY <1>1, <1>4, <1>5, TopicsAssumption, OneBumps
  <2>3. CASE u # t
    <3>1. Bumping(u)' = Bumping(u)
      BY <2>2, <2>3
    <3> QED
      BY <1>3, <1>6, <1>7, <2>3, <3>1, Quiet
  <2>4. CASE u = t
    <3>1. /\ IsFiniteSet(Bumping(t) \ {x})
          /\ Cardinality(Bumping(t) \ {x}) = Cardinality(Bumping(t)) - 1
      BY <2>1, <2>2, <2>4, FS_RemoveElement DEF IndexFinite
    <3>2. IndexFinite(t)'
      BY <1>3, <1>7, <2>1, <2>2, <2>4, <3>1 DEF IndexFinite
    <3>3. ASSUME ~Released(t) PROVE Surplus(t)' = Surplus(t)
      <4>1. topic'[t].count = topic[t].count + 1
        BY <1>4, <1>6, <3>3, MadeExists
      <4>2. /\ Cardinality(refs[t]) \in Nat /\ topic[t].count \in Nat
            /\ Cardinality(Bumping(t)) \in Nat /\ Cardinality(Moving(t)) \in Nat
        BY <1>2, <2>1, <2>4, SurplusType
      <4>3. Surplus(t)' = Cardinality(refs[t])
              - ((topic[t].count + 1) + ((Cardinality(Bumping(t)) - 1) + Cardinality(Moving(t))))
        BY <1>3, <1>7, <2>2, <2>4, <3>1, <4>1 DEF Surplus
      <4> QED
        BY <4>2, <4>3 DEF Surplus
    <3> QED
      BY <1>2, <1>3, <2>1, <2>4, <3>2, <3>3, BalanceNext
  <2> QED
    BY <2>3, <2>4
<1> QED
  BY <1>8 DEF CountsInv

LEMMA ExtractionDiesCounts ==
  ASSUME HistoryInv, CountsInv, NEW x \in Extractors, ExtractionDies(x)
  PROVE  CountsInv'
<1>1. PICK e \in ExtractionRow : e = extraction[x] /\ ExtractionSound(e)
  BY ExtractionOf
<1>2. StoreTypes
  BY StoreHolds
<1>3. /\ uncounted' = uncounted \cup ({e.cur} \ {NoTopic}) /\ Extracting(x, NoExtraction)
      /\ UNCHANGED <<topic, refs, curator, released>>
  BY <1>1 DEF ExtractionDies, EndExtraction, index
<1>4. NoExtraction \in ExtractionRow /\ NoExtraction.cur = NoTopic
  BY NoRows DEF NoExtraction
<1>5. \A u : Moving(u)' = Moving(u)
  BY <1>3 DEF Moving
<1>6. ASSUME NEW u \in Topics PROVE IndexFinite(u)' /\ Balance(u)'
  <2>1. IndexFinite(u) /\ Balance(u) /\ u # NoTopic
    BY TopicsAssumption DEF CountsInv
  <2>2. Bumping(u)' = Bumping(u) \ {x} /\ (x \in Bumping(u) <=> u = e.cur)
    BY <1>1, <1>3, <1>4, <2>1, OneBumps
  <2>3. CASE u # e.cur
    <3>1. Bumping(u)' = Bumping(u)
      BY <2>2, <2>3
    <3> QED
      BY <1>3, <1>5, <2>3, <3>1, Quiet
  <2>4. CASE u = e.cur
    <3>1. /\ IsFiniteSet(Bumping(u) \ {x})
          /\ Cardinality(Bumping(u) \ {x}) = Cardinality(Bumping(u)) - 1
      BY <2>1, <2>2, <2>4, FS_RemoveElement DEF IndexFinite
    <3>2. IndexFinite(u)'
      BY <1>3, <1>5, <2>1, <2>2, <3>1 DEF IndexFinite
    <3>3. u \in uncounted'
      BY <1>3, <2>1, <2>4
    <3>4. Surplus(u)' \in Int /\ Surplus(u)' >= Surplus(u)
      <4>1. /\ Cardinality(refs[u]) \in Nat /\ topic[u].count \in Nat
            /\ Cardinality(Bumping(u)) \in Nat /\ Cardinality(Moving(u)) \in Nat
        BY <1>2, <2>1, SurplusType
      <4>2. Surplus(u)' = Cardinality(refs[u])
              - (topic[u].count + ((Cardinality(Bumping(u)) - 1) + Cardinality(Moving(u))))
        BY <1>3, <1>5, <2>2, <3>1 DEF Surplus
      <4> QED
        BY <4>1, <4>2 DEF Surplus
    <3> QED
      BY <1>2, <1>3, <2>1, <3>2, <3>3, <3>4, BalanceNext
  <2> QED
    BY <2>3, <2>4
<1> QED
  BY <1>6 DEF CountsInv

LEMMA QuietRequest ==
  ASSUME HistoryInv, CountsInv, NEW o \in Curators, NEW r, Requesting(o, r),
         NEW q, q = curator[o],
         (r.dst = q.dst /\ r.moved = q.moved) \/ (q.moved = {} /\ r.moved = {}),
         extraction' = extraction, released \subseteq released', uncounted \subseteq uncounted',
         \A t \in Topics : /\ refs'[t] \subseteq refs[t]
                           /\ ~Released(t) => refs'[t] = refs[t]
                                              /\ topic'[t].count = topic[t].count
  PROVE  CountsInv'
<1>1. curator \in [Curators -> RequestRow]
  BY TopicsTypes DEF HistoryInv
<1>2. curator'[o] = r /\ \A p \in Curators \ {o} : curator'[p] = curator[p]
  BY <1>1 DEF Requesting
<1>3. ASSUME NEW t \in Topics PROVE IndexFinite(t)' /\ Balance(t)'
  <2>1. Moving(t)' = Moving(t)
    BY <1>2, SameMoving
  <2>2. Bumping(t)' = Bumping(t)
    BY SameBumping
  <2> QED
    BY <2>1, <2>2, Quiet
<1> QED
  BY <1>3 DEF CountsInv

LEMMA QuietRequests ==
  ASSUME HistoryInv, CountsInv, NEW o \in Curators,
         \/ \E m \in Merges : MergeTopics(o, m)
         \/ \E t \in Topics : DeleteTopic(o, t)
         \/ \E k \in Keys : DeleteRef(o, k)
         \/ RepointRead(o) \/ RepointConversationTopic(o) \/ DeleteSourceRef(o)
         \/ MarkMerged(o) \/ DeleteTopicRow(o)
  PROVE  CountsInv'
<1>1. PICK q \in RequestRow : q = curator[o] /\ RequestSound(q)
  BY RequestOf
<1>2. StoreTypes
  BY StoreHolds
<1>3. NoRequest.moved = {}
  BY DEF NoRequest
<1>4. ASSUME NEW m \in Merges, MergeTopics(o, m) PROVE CountsInv'
  <2>1. PICK todo : Requesting(o, [NoRequest EXCEPT !.pc = "move", !.src = m[1], !.dst = m[2],
                                                    !.todo = todo])
    BY <1>4 DEF MergeTopics
  <2>2. [NoRequest EXCEPT !.pc = "move", !.src = m[1], !.dst = m[2], !.todo = todo].moved = {}
    BY DEF NoRequest
  <2>3. q.moved = {}
    BY <1>1, <1>4 DEF MergeTopics, RequestSound
  <2> QED
    BY <1>1, <1>4, <2>1, <2>2, <2>3, QuietRequest DEF MergeTopics, index
<1>5. ASSUME NEW t \in Topics, DeleteTopic(o, t) PROVE CountsInv'
  <2>1. PICK todo : Requesting(o, [NoRequest EXCEPT !.pc = "wipe", !.src = t, !.todo = todo])
    BY <1>5 DEF DeleteTopic
  <2>2. [NoRequest EXCEPT !.pc = "wipe", !.src = t, !.todo = todo].moved = {}
    BY DEF NoRequest
  <2>3. q.moved = {}
    BY <1>1, <1>5 DEF DeleteTopic, RequestSound
  <2> QED
    BY <1>1, <1>5, <2>1, <2>2, <2>3, QuietRequest DEF DeleteTopic, index
<1>6. ASSUME NEW k \in Keys, DeleteRef(o, k) PROVE CountsInv'
  <2> DEFINE r == [q EXCEPT !.todo = @ \ {k}]
  <2>1. /\ q.pc = "wipe" /\ refs' = [refs EXCEPT ![q.src] = @ \ {k}] /\ Requesting(o, r)
        /\ UNCHANGED <<topic, extraction, released, uncounted>>
    BY <1>1, <1>6 DEF DeleteRef
  <2>2. r.dst = q.dst /\ r.moved = q.moved
    BY DEF RequestRow
  <2> HIDE DEF r
  <2>3. Released(q.src)
    BY <1>1, <2>1, StoreHolds, TakenUp
  <2>4. \A t \in Topics : refs'[t] \subseteq refs[t] /\ (~Released(t) => refs'[t] = refs[t])
    BY <1>2, <2>1, <2>3 DEF StoreTypes
  <2>5. /\ extraction' = extraction /\ released \subseteq released'
        /\ uncounted \subseteq uncounted'
        /\ \A t \in Topics : /\ refs'[t] \subseteq refs[t]
                            /\ ~Released(t) => refs'[t] = refs[t]
                                               /\ topic'[t].count = topic[t].count
    BY <2>1, <2>4
  <2> QED
    BY <1>1, <2>1, <2>2, <2>5, QuietRequest
<1>7. CASE DeleteSourceRef(o)
  <2> DEFINE r == [q EXCEPT !.pc = "move", !.todo = @ \ {q.cur}, !.cur = NoKey]
  <2>1. /\ q.pc = "unref" /\ refs' = [refs EXCEPT ![q.src] = @ \ {q.cur}] /\ Requesting(o, r)
        /\ UNCHANGED <<topic, extraction, released, uncounted>>
    BY <1>1, <1>7 DEF DeleteSourceRef
  <2>2. r.dst = q.dst /\ r.moved = q.moved
    BY DEF RequestRow
  <2> HIDE DEF r
  <2>3. Released(q.src)
    BY <1>1, <2>1, StoreHolds, TakenUp
  <2>4. \A t \in Topics : refs'[t] \subseteq refs[t] /\ (~Released(t) => refs'[t] = refs[t])
    BY <1>2, <2>1, <2>3 DEF StoreTypes
  <2>5. /\ extraction' = extraction /\ released \subseteq released'
        /\ uncounted \subseteq uncounted'
        /\ \A t \in Topics : /\ refs'[t] \subseteq refs[t]
                            /\ ~Released(t) => refs'[t] = refs[t]
                                               /\ topic'[t].count = topic[t].count
    BY <2>1, <2>4
  <2> QED
    BY <1>1, <2>1, <2>2, <2>5, QuietRequest
<1>8. CASE RepointRead(o)
  <2>1. \E r : Requesting(o, r) /\ r.dst = q.dst /\ r.moved = q.moved
    <3>1. PICK seen : \/ Requesting(o, [q EXCEPT !.pc = "unref"])
                      \/ Requesting(o, [q EXCEPT !.pc = "rewrite", !.seen = seen])
      BY <1>1, <1>8 DEF RepointRead
    <3>2. /\ [q EXCEPT !.pc = "unref"].dst = q.dst
          /\ [q EXCEPT !.pc = "unref"].moved = q.moved
          /\ [q EXCEPT !.pc = "rewrite", !.seen = seen].dst = q.dst
          /\ [q EXCEPT !.pc = "rewrite", !.seen = seen].moved = q.moved
      BY DEF RequestRow
    <3> QED
      BY <3>1, <3>2
  <2>2. PICK r : Requesting(o, r) /\ r.dst = q.dst /\ r.moved = q.moved
    BY <2>1
  <2>3. UNCHANGED <<topic, refs, extraction, released, uncounted>>
    BY <1>8 DEF RepointRead, index
  <2> QED
    BY <1>1, <2>2, <2>3, QuietRequest
<1>9. CASE RepointConversationTopic(o)
  <2>1. Requesting(o, [q EXCEPT !.pc = "unref", !.seen = {}])
    BY <1>1, <1>9 DEF RepointConversationTopic
  <2>2. /\ [q EXCEPT !.pc = "unref", !.seen = {}].dst = q.dst
        /\ [q EXCEPT !.pc = "unref", !.seen = {}].moved = q.moved
    BY DEF RequestRow
  <2> QED
    BY <1>1, <1>9, <2>1, <2>2, QuietRequest DEF RepointConversationTopic
<1>10. CASE MarkMerged(o) \/ DeleteTopicRow(o)
  <2>1. /\ q.pc \in {"mark", "wipe"} /\ Requesting(o, NoRequest)
        /\ UNCHANGED <<refs, extraction, released, uncounted>>
        /\ \/ topic' = topic
           \/ \E row : topic' = [topic EXCEPT ![q.src] = row]
    BY <1>1, <1>10 DEF MarkMerged, DeleteTopicRow, EndRequest
  <2>2. q.moved = {} /\ Released(q.src)
    BY <1>1, <2>1, StoreHolds, TakenUp DEF RequestSound
  <2>3. \A t \in Topics : ~Released(t) => topic'[t].count = topic[t].count
    BY <1>2, <2>1, <2>2 DEF StoreTypes
  <2> QED
    BY <1>1, <1>3, <2>1, <2>2, <2>3, QuietRequest
<1> QED
  BY <1>4, <1>5, <1>6, <1>7, <1>8, <1>9, <1>10

LEMMA MoveRefCounts ==
  ASSUME HistoryInv, CountsInv, NEW o \in Curators, NEW k \in Keys, MoveRef(o, k)
  PROVE  CountsInv'
<1>1. PICK q \in RequestRow : q = curator[o] /\ RequestSound(q) /\ q.moved \subseteq Keys
  BY RequestOf
<1>2. StoreTypes
  BY StoreHolds
<1>3. /\ q.pc = "move" /\ refs' = [refs EXCEPT ![q.dst] = @ \cup {k}]
      /\ UNCHANGED <<topic, extraction, released, uncounted>>
  BY <1>1 DEF MoveRef
<1>4. PICK t \in Topics : t = q.dst /\ \A l \in q.moved : Found(t, l)
  BY <1>1, <1>3 DEF RequestSound
<1>5. refs'[t] = refs[t] \cup {k} /\ \A u \in Topics \ {t} : refs'[u] = refs[u]
  BY <1>2, <1>3, <1>4 DEF StoreTypes
<1>6. CASE k \in refs[t]
  <2> DEFINE r == [q EXCEPT !.pc = "repoint", !.cur = k, !.moved = q.moved]
  <2>1. Requesting(o, r)
    BY <1>1, <1>4, <1>6 DEF MoveRef
  <2>2. r.dst = q.dst /\ r.moved = q.moved
    BY DEF RequestRow
  <2> HIDE DEF r
  <2>3. refs' = refs
    BY <1>2, <1>3, <1>4, <1>6 DEF StoreTypes
  <2>4. /\ extraction' = extraction /\ released \subseteq released'
        /\ uncounted \subseteq uncounted'
        /\ \A u \in Topics : /\ refs'[u] \subseteq refs[u]
                            /\ refs'[u] = refs[u] /\ topic'[u].count = topic[u].count
    BY <1>3, <2>3
  <2> QED
    BY <1>1, <2>1, <2>2, <2>4, QuietRequest
<1>7. CASE k \notin refs[t]
  <2> DEFINE r == [q EXCEPT !.pc = "repoint", !.cur = k, !.moved = q.moved \cup {k}]
  <2>1. Requesting(o, r)
    BY <1>1, <1>4, <1>7 DEF MoveRef
  <2>2. r \in RequestRow /\ r.dst = q.dst /\ r.moved = q.moved \cup {k}
    BY <1>1 DEF RequestRow
  <2> HIDE DEF r
  <2>3. \A u : Bumping(u)' = Bumping(u)
    BY <1>3 DEF Bumping
  <2>4. ASSUME NEW u \in Topics PROVE IndexFinite(u)' /\ Balance(u)'
    <3>1. IndexFinite(u) /\ Balance(u)
      BY DEF CountsInv
    <3>2. CASE u # t
      <4>1. /\ \A p \in Curators \ {o} : curator'[p] = curator[p]
            /\ curator'[o] = r
        BY <1>1, <2>1, <2>2, OneMoves
      <4>2. Moving(u)' = Moving(u)
        BY <1>1, <1>4, <2>2, <3>2, <4>1, SameMoving
      <4> QED
        BY <1>3, <1>5, <2>3, <3>2, <4>2, Quiet
    <3>3. CASE u = t
      <4>1. Moving(t)' = Moving(t) \cup {<<o, k>>}
        BY <1>1, <1>4, <2>1, <2>2, OneMoves
      <4>2. ~Released(t) => <<o, k>> \notin Moving(t)
        BY <1>1, <1>4, <1>7 DEF Moving, Found, Filed, Released
      <4>3. /\ IsFiniteSet(Moving(t) \cup {<<o, k>>})
            /\ ~Released(t) =>
                 Cardinality(Moving(t) \cup {<<o, k>>}) = Cardinality(Moving(t)) + 1
        BY <3>1, <3>3, <4>2, FS_AddElement DEF IndexFinite
      <4>4. /\ IsFiniteSet(refs[t] \cup {k})
            /\ Cardinality(refs[t] \cup {k}) = Cardinality(refs[t]) + 1
        BY <1>7, <3>1, <3>3, FS_AddElement DEF IndexFinite
      <4>5. IndexFinite(t)'
        BY <1>5, <2>3, <3>1, <3>3, <4>1, <4>3, <4>4 DEF IndexFinite
      <4>6. ASSUME ~Released(t) PROVE Surplus(t)' = Surplus(t)
        <5>1. /\ Cardinality(refs[t]) \in Nat /\ topic[t].count \in Nat
              /\ Cardinality(Bumping(t)) \in Nat /\ Cardinality(Moving(t)) \in Nat
          BY <1>2, <3>1, <3>3, SurplusType
        <5>2. Surplus(t)' = (Cardinality(refs[t]) + 1)
                - (topic[t].count + (Cardinality(Bumping(t)) + (Cardinality(Moving(t)) + 1)))
          BY <1>3, <1>5, <2>3, <4>1, <4>3, <4>4, <4>6 DEF Surplus
        <5> QED
          BY <5>1, <5>2 DEF Surplus
      <4> QED
        BY <1>2, <1>3, <3>1, <3>3, <4>5, <4>6, BalanceNext
    <3> QED
      BY <3>2, <3>3
  <2> QED
    BY <2>4 DEF CountsInv
<1> QED
  BY <1>6, <1>7

\* The refs that a request has moved, when it lets go of them.
LEMMA LetGo ==
  ASSUME HistoryInv, CountsInv, NEW o \in Curators, NEW q \in RequestRow, q = curator[o],
         NEW r \in RequestRow, Requesting(o, r), r.moved = {}, NEW t \in Topics
  PROVE  /\ IsFiniteSet(Moving(t)')
         /\ q.dst = t => Cardinality(Moving(t)') = Cardinality(Moving(t)) - Cardinality(q.moved)
         /\ q.dst # t => Moving(t)' = Moving(t)
<1> DEFINE out == {o} \X q.moved
<1>1. IsFiniteSet(Moving(t)) /\ IsFiniteSet(q.moved)
  BY DEF CountsInv, IndexFinite, HistoryInv, RequestSound
<1>2. Moving(t)' = Moving(t) \ out /\ (q.dst = t => out \subseteq Moving(t))
  BY OneMoves
<1>3. IsFiniteSet({o}) /\ Cardinality({o}) = 1
  BY FS_Singleton
<1>4. Cardinality(out) = 1 * Cardinality(q.moved) /\ Cardinality(q.moved) \in Nat
  BY <1>1, <1>3, FS_Product, FS_CardinalityType
<1>5. Cardinality(out) = Cardinality(q.moved)
  BY <1>4
<1>6. q.dst # t => Moving(t) \ out = Moving(t)
  BY DEF Moving
<1> HIDE DEF out
<1>7. IsFiniteSet(Moving(t) \ out)
      /\ Cardinality(Moving(t) \ out) = Cardinality(Moving(t)) - Cardinality(Moving(t) \cap out)
  BY <1>1, FS_Difference
<1>8. q.dst = t => Moving(t) \cap out = out
  BY <1>2
<1> QED
  BY <1>2, <1>5, <1>6, <1>7, <1>8

LEMMA CountMovedCounts ==
  ASSUME HistoryInv, CountsInv, NEW o \in Curators, CountMoved(o)
  PROVE  CountsInv'
<1>1. PICK q \in RequestRow : q = curator[o] /\ RequestSound(q)
  BY RequestOf
<1>2. StoreTypes
  BY StoreHolds
<1>3. /\ q.pc = "move" /\ topic' = Counted(q.dst, Cardinality(q.moved))
      /\ UNCHANGED <<refs, conv, claims, deliveries, extraction, released, uncounted>>
  BY <1>1 DEF CountMoved
<1>4. PICK t \in Topics : t = q.dst /\ Made(t)
  BY <1>1, <1>3 DEF RequestSound
<1>5. PICK n \in Nat : n = Cardinality(q.moved)
  BY <1>1, FS_CardinalityType DEF RequestSound
<1>6. /\ Exists(t) => topic'[t].count = topic[t].count + n
      /\ \A u \in Topics \ {t} : topic'[u] = topic[u]
  BY <1>3, <1>4, <1>5, CountedStays
<1>7. PICK r \in RequestRow : Requesting(o, r) /\ r.moved = {}
  <2> DEFINE r == [q EXCEPT !.pc = "mark", !.moved = {}]
  <2>1. Requesting(o, r) \/ Requesting(o, NoRequest)
    BY <1>1 DEF CountMoved, EndRequest
  <2>2. r \in RequestRow /\ r.moved = {} /\ NoRequest.moved = {}
    BY DEF RequestRow, NoRequest
  <2> QED
    BY <2>1, <2>2, NoRows
<1>8. \A u : Bumping(u)' = Bumping(u)
  BY <1>3 DEF Bumping
<1>9. ASSUME NEW u \in Topics PROVE IndexFinite(u)' /\ Balance(u)'
  <2>1. IndexFinite(u) /\ Balance(u)
    BY DEF CountsInv
  <2>2. /\ IsFiniteSet(Moving(u)')
        /\ t = u => Cardinality(Moving(u)') = Cardinality(Moving(u)) - n
        /\ t # u => Moving(u)' = Moving(u)
    BY <1>1, <1>4, <1>5, <1>7, LetGo
  <2>3. CASE u # t
    BY <1>3, <1>6, <1>8, <2>2, <2>3, Quiet
  <2>4. CASE u = t
    <3>1. IndexFinite(t)'
      BY <1>3, <1>8, <2>1, <2>2, <2>4 DEF IndexFinite
    <3>2. ASSUME ~Released(t) PROVE Surplus(t)' = Surplus(t)
      <4>1. topic'[t].count = topic[t].count + n
        BY <1>4, <1>6, <3>2, MadeExists
      <4>2. /\ Cardinality(refs[t]) \in Nat /\ topic[t].count \in Nat
            /\ Cardinality(Bumping(t)) \in Nat /\ Cardinality(Moving(t)) \in Nat
        BY <1>2, <2>1, <2>4, SurplusType
      <4>3. Surplus(t)' = Cardinality(refs[t])
              - ((topic[t].count + n) + (Cardinality(Bumping(t)) + (Cardinality(Moving(t)) - n)))
        BY <1>3, <1>8, <2>2, <2>4, <4>1 DEF Surplus
      <4> QED
        BY <4>2, <4>3 DEF Surplus
    <3> QED
      BY <1>2, <1>3, <2>1, <2>4, <3>1, <3>2, BalanceNext
  <2> QED
    BY <2>3, <2>4
<1> QED
  BY <1>9 DEF CountsInv

LEMMA RequestDiesCounts ==
  ASSUME HistoryInv, CountsInv, NEW o \in Curators, RequestDies(o)
  PROVE  CountsInv'
<1>1. PICK q \in RequestRow : q = curator[o] /\ RequestSound(q)
  BY RequestOf
<1>2. StoreTypes
  BY StoreHolds
<1>3. /\ Requesting(o, NoRequest)
      /\ uncounted' = IF q.moved = {} THEN uncounted ELSE uncounted \cup {q.dst}
      /\ UNCHANGED <<topic, refs, extraction, released>>
  BY <1>1 DEF RequestDies, EndRequest, index
<1>4. NoRequest \in RequestRow /\ NoRequest.moved = {}
  BY NoRows DEF NoRequest
<1>5. CASE q.moved = {}
  BY <1>1, <1>3, <1>4, <1>5, QuietRequest
<1>6. CASE q.moved # {}
  <2>1. \A u : Bumping(u)' = Bumping(u)
    BY <1>3 DEF Bumping
  <2>2. PICK n \in Nat : n = Cardinality(q.moved)
    BY <1>1, FS_CardinalityType DEF RequestSound
  <2>3. ASSUME NEW u \in Topics PROVE IndexFinite(u)' /\ Balance(u)'
    <3>1. IndexFinite(u) /\ Balance(u)
      BY DEF CountsInv
    <3>2. /\ IsFiniteSet(Moving(u)')
          /\ q.dst = u => Cardinality(Moving(u)') = Cardinality(Moving(u)) - n
          /\ q.dst # u => Moving(u)' = Moving(u)
      BY <1>1, <1>3, <1>4, <2>2, LetGo
    <3>3. CASE u # q.dst
      BY <1>3, <2>1, <3>2, <3>3, Quiet
    <3>4. CASE u = q.dst
      <4>1. IndexFinite(u)'
        BY <1>3, <2>1, <3>1, <3>2 DEF IndexFinite
      <4>2. u \in uncounted'
        BY <1>3, <1>6, <3>4
      <4>3. Surplus(u)' \in Int /\ Surplus(u)' >= Surplus(u)
        <5>1. /\ Cardinality(refs[u]) \in Nat /\ topic[u].count \in Nat
              /\ Cardinality(Bumping(u)) \in Nat /\ Cardinality(Moving(u)) \in Nat
          BY <1>2, <3>1, SurplusType
        <5>2. Surplus(u)' = Cardinality(refs[u])
                - (topic[u].count + (Cardinality(Bumping(u)) + (Cardinality(Moving(u)) - n)))
          BY <1>3, <2>1, <3>2, <3>4 DEF Surplus
        <5> QED
          BY <5>1, <5>2 DEF Surplus
      <4> QED
        BY <1>2, <1>3, <3>1, <4>1, <4>2, <4>3, BalanceNext
    <3> QED
      BY <3>3, <3>4
  <2> QED
    BY <2>3 DEF CountsInv
<1> QED
  BY <1>5, <1>6

LEMMA CountsStep == HistoryInv /\ CountsInv /\ [TopicsNext]_topicVars => CountsInv'
<1> SUFFICES ASSUME HistoryInv, CountsInv, [TopicsNext]_topicVars PROVE CountsInv'
  OBVIOUS
<1>1. CASE UNCHANGED <<refs, extraction, curator, released, uncounted>>
           /\ \A t \in Topics : topic'[t].count = topic[t].count
  <2>1. \A t : Bumping(t)' = Bumping(t) /\ Moving(t)' = Moving(t)
    BY <1>1 DEF Bumping, Moving
  <2>2. ASSUME NEW t \in Topics PROVE IndexFinite(t)' /\ Balance(t)'
    BY <1>1, <2>1, Quiet
  <2> QED
    BY <2>2 DEF CountsInv
<1>2. ASSUME NEW x \in Extractors, ExtractionStep(x) PROVE CountsInv'
  BY <1>2, QuietExtractions, PutRefCounts, IncrementCounts, ExtractionDiesCounts
  DEF ExtractionStep
<1>3. ASSUME NEW o \in Curators, RequestStep(o) PROVE CountsInv'
  BY <1>3, QuietRequests, MoveRefCounts, CountMovedCounts, RequestDiesCounts DEF RequestStep
<1>4. CASE UNCHANGED topicVars
  BY <1>1, <1>4 DEF topicVars, index
<1>5. ASSUME NEW s \in Talks, ClaimAges(s) PROVE CountsInv'
  BY <1>1, <1>5 DEF ClaimAges, index
<1>6. ASSUME NEW t \in Topics, ArchiveTopic(t) PROVE CountsInv'
  <2>1. \A u \in Topics : topic'[u].count = topic[u].count
    BY <1>6, ArchiveSound
  <2> QED
    BY <1>1, <1>6, <2>1 DEF ArchiveTopic
<1> QED
  BY <1>2, <1>3, <1>4, <1>5, <1>6 DEF TopicsNext

LEMMA CountsInit == TopicsInit => CountsInv
<1> SUFFICES ASSUME TopicsInit, NEW t \in Topics PROVE IndexFinite(t) /\ Balance(t)
  BY DEF CountsInv
<1>1. refs[t] = {} /\ Bumping(t) = {} /\ Moving(t) = {}
  BY TopicsAssumption DEF TopicsInit, Bumping, Moving, NoExtraction, NoRequest
<1>2. topic[t].count = 0
  BY DEF TopicsInit, NewTopic, NoRowYet
<1>3. Surplus(t) = 0
  BY <1>1, <1>2, FS_EmptySet DEF Surplus
<1> QED
  BY <1>1, <1>3, FS_EmptySet DEF IndexFinite, Balance

-----------------------------------------------------------------------------
LEMMA HistoryInductive == TopicsSpec => [](HistoryInv /\ CountsInv)
<1>1. TopicsInit => HistoryInv /\ CountsInv
  BY HistoryInit, CountsInit
<1>2. HistoryInv /\ CountsInv /\ [TopicsNext]_topicVars => (HistoryInv /\ CountsInv)'
  BY HistoryStep, CountsStep
<1> QED
  BY <1>1, <1>2, PTL DEF TopicsSpec

\* The rows of topics, refs and conversations, and what every handler holds of them
\* between two writes, keep their types.
THEOREM TopicsTypeCorrect == TopicsSpec => []TopicsTypeOK
BY HistoryInductive, PTL DEF HistoryInv

\* However flushes and the owner's requests interleave and wherever they end: a session
\* has one conversation, which is found under each of its topics, or under the topic that
\* this was merged into unless that went in turn, or else the topic was deleted; and a
\* topic of which no merge or deletion was begun counts its conversations once
\* (cmd/topics-extract and the topic operations of internal/store).
THEOREM HistoryStaysIndexed == TopicsSpec => []HistoryIndexed
<1>1. HistoryInv /\ CountsInv => HistoryIndexed
  <2> SUFFICES ASSUME HistoryInv, CountsInv PROVE HistoryIndexed
    OBVIOUS
  <2>1. StoreTypes /\ StoreSound
    BY StoreHolds
  <2>2. OneConversation
    <3> SUFFICES ASSUME NEW s \in Talks, NEW t \in Stamps, NEW u \in Stamps,
                        conv[<<s, t>>] # NoConv, conv[<<s, u>>] # NoConv
                 PROVE  t = u
      BY DEF OneConversation
    <3>1. <<s, t>> \in Keys /\ <<s, u>> \in Keys
      BY DEF Keys
    <3> QED
      BY <2>1, <3>1 DEF StoreSound, ConvSound
  <2>3. TagsFound
    BY <2>1 DEF TagsFound, StoreSound, ConvSound, Found, Filed, Released, StoreTypes
  <2>4. CountsRefs
    <3> SUFFICES ASSUME NEW t \in Topics, ~Released(t)
                 PROVE  LET sum == topic[t].count + Uncounted(t) IN
                        /\ sum <= Cardinality(refs[t])
                        /\ t \notin uncounted => sum = Cardinality(refs[t])
      BY DEF CountsRefs
    <3>1. Uncounted(t) = Cardinality(Bumping(t)) + Cardinality(Moving(t))
      BY DEF Uncounted, Bumping, Moving
    <3>2. IndexFinite(t) /\ Surplus(t) >= 0 /\ (t \notin uncounted => Surplus(t) = 0)
      BY DEF CountsInv, Balance
    <3>3. /\ Cardinality(refs[t]) \in Nat /\ topic[t].count \in Nat
          /\ Cardinality(Bumping(t)) \in Nat /\ Cardinality(Moving(t)) \in Nat
      BY <2>1, <3>2, SurplusType
    <3> QED
      BY <3>1, <3>2, <3>3 DEF Surplus
  <2> QED
    BY <2>2, <2>3, <2>4 DEF HistoryIndexed
<1> QED
  BY <1>1, HistoryInductive, PTL

=============================================================================
