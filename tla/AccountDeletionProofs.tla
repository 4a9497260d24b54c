------------------------- MODULE AccountDeletionProofs -------------------------
(***************************************************************************)
(* What holds of AccountDeletion for any number of requests, purges, rows  *)
(* and faults.                                                             *)
(***************************************************************************)
EXTENDS AccountDeletion, TLAPS

Marked == profile \in {"deleting", "none"}

Erased == profile = "none" /\ old \cap rows = {}

\* A row that a writer has in the partition is the last thing it does there.
RowsWritten == \A w \in Writers : w \in rows \cup old => writer[w] = "done"

\* A purge works for an account that is marked.
Asked ==
  /\ \A d \in Deletes : event[d] > 0 \/ delete[d] = "invoke" => Marked
  /\ \A p \in Runs : run[p].pc # "rest" => Marked

\* What existed at the mark and still exists is on the list of every purge that
\* has listed.
Listed ==
  \A p \in Runs :
    /\ run[p].pc \in {"forget", "erase"} =>
         /\ old \cap rows \subseteq run[p].listed
         /\ Profile \in run[p].listed \/ profile = "none"
    /\ run[p].pc \in Sending => Erased

Purged == TypeOK /\ RowsWritten /\ Asked /\ Listed /\ ErasedBeforeMail

-----------------------------------------------------------------------------
\* The initial state is typed.
LEMMA InitTyped == Init => TypeOK
  <1>1. Rest \in [pc : {"rest", "phone", "list", "forget", "erase"} \cup Sending,
                  of : Deletes \cup {NoDelete}, listed : SUBSET (Row \cup {Profile})]
    BY DEF Rest
  <1>2. Init => \A p \in Runs : run[p].pc = "rest"
    BY DEF Init, Rest
  <1>3. 0 \in 0..Attempts /\ 0 \in 0..MaxDeaths
    BY InstanceAssumption
  <1>4. Init => run \in [Runs -> [pc : {"rest", "phone", "list", "forget", "erase"} \cup Sending,
                                  of : Deletes \cup {NoDelete},
                                  listed : SUBSET (Row \cup {Profile})]]
    BY <1>1 DEF Init
  <1>5. Init => \A p \in Runs : run[p].pc # "rest" => run[p].of \in Deletes
    BY <1>2
  <1>6. Init => /\ profile \in {"active", "suspended", "deleting", "none"}
                /\ rows \subseteq Row /\ mails \in [Sending -> Nat] /\ old \subseteq Row
    BY DEF Init, Row
  <1>8. Init => allowed \in BOOLEAN /\ marker \in BOOLEAN
    BY Zenon DEF Init
  <1>7. Init => /\ delete \in [Deletes -> {"new", "mark", "invoke"} \cup Answers]
                /\ event \in [Deletes -> 0..Attempts] /\ deaths \in 0..MaxDeaths
                /\ writer \in [Writers -> {"new", "checked", "done"}]
    BY <1>3 DEF Init
  <1>. QED  BY <1>4, <1>5, <1>6, <1>7, <1>8 DEF TypeOK

Invocation == [pc : {"rest", "phone", "list", "forget", "erase"} \cup Sending,
               of : Deletes \cup {NoDelete}, listed : SUBSET (Row \cup {Profile})]

\* Every step keeps the types.
LEMMA NextTyped == TypeOK /\ [Next]_vars => TypeOK'
  <1>. SUFFICES ASSUME TypeOK, [Next]_vars  PROVE TypeOK'
    OBVIOUS
  <1>. USE InstanceAssumption
  <1>. DEFINE runOK == /\ run' \in [Runs -> Invocation]
                       /\ \A p \in Runs : run'[p].pc # "rest" => run'[p].of \in Deletes
  <1>s. ASSUME NEW p \in Runs, NEW from, NEW to \in {"list", "erase"} \cup Sending,
               Step(p, from, to), from # "rest"
        PROVE  runOK
    BY <1>s DEF Step, TypeOK, Invocation
  <1>r. ASSUME NEW p \in Runs, run' = [run EXCEPT ![p] = Rest]  PROVE runOK
    <2>1. Rest \in Invocation /\ Rest.pc = "rest"
      BY DEF Rest, Invocation
    <2>. QED  BY <1>r, <2>1 DEF TypeOK, Invocation
  <1>1. ASSUME NEW d \in Deletes, Read(d)  PROVE TypeOK'
    <2>1. delete' \in [Deletes -> {"new", "mark", "invoke"} \cup Answers]
      BY <1>1 DEF Read, To, TypeOK, Answers
    <2>. QED  BY <1>1, <2>1 DEF Read, TypeOK, account, purge
  <1>2. ASSUME NEW d \in Deletes, Mark(d)  PROVE TypeOK'
    BY <1>2 DEF Mark, To, TypeOK, purge
  <1>3. ASSUME NEW d \in Deletes, Invoke(d)  PROVE TypeOK'
    BY <1>3 DEF Invoke, To, TypeOK, Answers, account, purge
  <1>4. ASSUME NEW d \in Deletes, Abort(d)  PROVE TypeOK'
    BY <1>4 DEF Abort, To, TypeOK, Answers, account, purge
  <1>5. ASSUME NEW p \in Runs, NEW d \in Deletes, Start(p, d)  PROVE TypeOK'
    <2>1. [pc |-> "phone", of |-> d, listed |-> {}] \in Invocation
      BY DEF Invocation
    <2>2. runOK
      BY <1>5, <2>1 DEF Start, TypeOK, Invocation
    <2>3. event' \in [Deletes -> 0..Attempts]
      BY <1>5 DEF Start, TypeOK
    <2>. QED  BY <1>5, <2>2, <2>3 DEF Start, TypeOK, Invocation, account, handlers
  <1>6. ASSUME NEW p \in Runs, PurgePhone(p)  PROVE TypeOK'
    <2>1. runOK
      BY <1>6, <1>s DEF PurgePhone
    <2>. QED  BY <1>6, <2>1 DEF PurgePhone, TypeOK, Invocation, account, handlers
  <1>7. ASSUME NEW p \in Runs, List(p)  PROVE TypeOK'
    <2>1. runOK
      <3>. DEFINE listed == rows \cup IF profile = "none" THEN {} ELSE {Profile}
      <3>1. run[p] \in Invocation /\ run[p].of \in Deletes
        BY <1>7 DEF List, TypeOK, Invocation
      <3>2. listed \in SUBSET (Row \cup {Profile})
        BY DEF TypeOK
      <3>. HIDE DEF listed
      <3>. DEFINE next == [run[p] EXCEPT !.pc = "forget", !.listed = listed]
      <3>3. next \in Invocation /\ next.of = run[p].of
        BY <3>1, <3>2 DEF Invocation
      <3>4. run' = [run EXCEPT ![p] = next]
        BY <1>7 DEF List, listed
      <3>. HIDE DEF next
      <3>. QED  BY <3>1, <3>3, <3>4 DEF TypeOK, Invocation
    <2>. QED  BY <1>7, <2>1 DEF List, TypeOK, Invocation, account, handlers
  <1>8. ASSUME NEW p \in Runs, Forget(p)  PROVE TypeOK'
    <2>1. runOK
      BY <1>8, <1>s DEF Forget
    <2>. QED  BY <1>8, <2>1 DEF Forget, TypeOK, Invocation, handlers
  <1>9. ASSUME NEW p \in Runs, NEW batch \in SUBSET run[p].listed, Erase(p, batch)  PROVE TypeOK'
    <2>1. runOK
      BY <1>9 DEF Erase, TypeOK, Invocation
    <2>2. profile' \in {"active", "suspended", "deleting", "none"} /\ rows' \subseteq Row
      BY <1>9 DEF Erase, TypeOK
    <2>. QED  BY <1>9, <2>1, <2>2 DEF Erase, TypeOK, Invocation, handlers
  <1>10. ASSUME NEW p \in Runs, Confirm(p)  PROVE TypeOK'
    <2>1. runOK
      <3>1. (\E to \in Sending : Step(p, "erase", to)) \/ Finish(p)
        BY <1>10 DEF Confirm, Sending
      <3>2. ASSUME NEW to \in Sending, Step(p, "erase", to)  PROVE runOK
        BY <3>2, <1>s
      <3>3. ASSUME Finish(p)  PROVE runOK
        BY <3>3, <1>r DEF Finish
      <3>. QED  BY <3>1, <3>2, <3>3
    <2>2. event' \in [Deletes -> 0..Attempts] /\ marker' \in BOOLEAN
      <3>1. run[p].of \in Deletes /\ 0 \in 0..Attempts
        BY <1>10 DEF Confirm, TypeOK
      <3>2. event' = event \/ event' = [event EXCEPT ![run[p].of] = 0]
        BY <1>10, Zenon DEF Confirm, Finish
      <3>3. event' \in [Deletes -> 0..Attempts]
        BY <3>1, <3>2 DEF TypeOK
      <3>4. marker' = TRUE \/ marker' = marker
        BY <1>10, Zenon DEF Confirm
      <3>5. marker' \in BOOLEAN
        BY <3>4, Zenon DEF TypeOK
      <3>. QED  BY <3>3, <3>5
    <2>. QED  BY <1>10, <2>1, <2>2 DEF Confirm, TypeOK, Invocation, account, handlers
  <1>11. ASSUME NEW p \in Runs, Send(p)  PROVE TypeOK'
    <2>1. runOK
      BY <1>11, <1>r DEF Send, Finish
    <2>2. event' \in [Deletes -> 0..Attempts]
      BY <1>11 DEF Send, Finish, TypeOK, Sending
    <2>3. mails' \in [Sending -> Nat]
      BY <1>11 DEF Send, TypeOK, Sending
    <2>. QED  BY <1>11, <2>1, <2>2, <2>3 DEF Send, TypeOK, Invocation, account, handlers
  <1>12. ASSUME NEW p \in Runs, Die(p)  PROVE TypeOK'
    <2>1. runOK
      BY <1>12, <1>r DEF Die
    <2>2. deaths' \in 0..MaxDeaths
      BY <1>12 DEF Die, TypeOK
    <2>. QED  BY <1>12, <2>1, <2>2 DEF Die, TypeOK, Invocation, account, handlers
  <1>13. ASSUME NEW w \in Writers, Check(w) \/ CheckSignIn(w)  PROVE TypeOK'
    BY <1>13 DEF Check, CheckSignIn, TypeOK, account, others, purge
  <1>14. ASSUME NEW w \in Writers, Put(w)  PROVE TypeOK'
    BY <1>14 DEF Put, TypeOK, Row, others, purge
  <1>15. CASE Suspend \/ Reinstate
    BY <1>15 DEF Suspend, Reinstate, TypeOK, others, purge
  <1>16. CASE UNCHANGED vars
    BY <1>16 DEF vars, TypeOK
  <1>. QED
    BY <1>1, <1>2, <1>3, <1>4, <1>5, <1>6, <1>7, <1>8, <1>9, <1>10, <1>11, <1>12,
       <1>13, <1>14, <1>15, <1>16 DEF Next, Handle, Work

\* Every variable keeps its type, whatever the number of requests and purges.
THEOREM TypeCorrect == Spec => []TypeOK
  BY InitTyped, NextTyped, PTL DEF Spec

\* An account that is being deleted stays so until it is gone, and then stays gone.
THEOREM DeletionIsFinal == Spec => DeletionFinal
  <1>1. ASSUME [Next]_vars
        PROVE  [/\ profile = "deleting" => profile' \in {"deleting", "none"}
                /\ profile = "none" => profile' = "none"]_vars
    <2>1. profile' # profile =>
            \/ profile \in {"active", "suspended"}
            \/ profile # "none" /\ profile' \in {"deleting", "none"}
      BY <1>1 DEF Next, Handle, Work, Read, Mark, Invoke, Abort, Start, PurgePhone, List,
                  Forget, Erase, Confirm, Send, Die, Check, CheckSignIn, Put, Suspend,
                  Reinstate, account, others, vars
    <2>. QED  BY <2>1
  <1>. QED  BY <1>1, PTL DEF Spec, DeletionFinal

-----------------------------------------------------------------------------
(***************************************************************************)
(* A confirmed deletion has erased what there was.                         *)
(***************************************************************************)
LEMMA PurgedInit == Init => Purged
  <1>. SUFFICES ASSUME Init  PROVE Purged
    OBVIOUS
  <1>1. \A p \in Runs : run[p].pc = "rest"
    BY DEF Init, Rest
  <1>2. RowsWritten
    BY InstanceAssumption DEF Init, RowsWritten
  <1>3. Asked
    BY <1>1 DEF Init, Asked
  <1>4. Listed /\ ErasedBeforeMail
    BY <1>1 DEF Init, Listed, Sending, ErasedBeforeMail, Mailed
  <1>. QED  BY <1>2, <1>3, <1>4, InitTyped DEF Purged

\* Steps of a request or a purge that leave the partition and the marks alone:
\* only their own progress has to be looked at.
LEMMA QuietStep ==
  ASSUME Purged, TypeOK', UNCHANGED <<profile, rows, old, mails, writer>>,
         \A d \in Deletes : event'[d] > 0 \/ delete'[d] = "invoke" => Marked,
         \A p \in Runs : \/ run'[p] = run[p]
                         \/ run'[p].pc = "rest"
                         \/ run'[p].pc \in {"phone", "list"} /\ Marked
                         \/ /\ run'[p].pc \in {"forget", "erase"} /\ Marked
                            /\ old \cap rows \subseteq run'[p].listed
                            /\ Profile \in run'[p].listed \/ profile = "none"
                         \/ run'[p].pc \in Sending /\ Erased /\ Marked
  PROVE  Purged'
  <1>1. RowsWritten' /\ ErasedBeforeMail'
    BY Zenon DEF Purged, RowsWritten, ErasedBeforeMail, Mailed
  <1>2. Asked'
    BY DEF Purged, Asked, Marked
  <1>3. ASSUME NEW p \in Runs
        PROVE  /\ run'[p].pc \in {"forget", "erase"} =>
                     /\ old \cap rows \subseteq run'[p].listed
                     /\ Profile \in run'[p].listed \/ profile = "none"
               /\ run'[p].pc \in Sending => Erased
    BY DEF Purged, Listed, Sending
  <1>4. Listed'
    BY <1>3 DEF Listed, Erased
  <1>. QED  BY <1>1, <1>2, <1>4 DEF Purged

\* A checked request puts its row: it is not one of those there were at the mark.
LEMMA PutStep ==
  ASSUME Purged, TypeOK', NEW w \in Writers, Put(w)
  PROVE  Purged'
  <1>1. /\ UNCHANGED <<profile, old, mails, event, delete, run>> /\ rows' = rows \cup {w}
        /\ writer' = [writer EXCEPT ![w] = "done"] /\ w \notin old
    BY DEF Put, others, purge, Purged, RowsWritten
  <1>2. old' \cap rows' = old \cap rows
    BY <1>1
  <1>3. RowsWritten'
    BY <1>1 DEF Purged, RowsWritten, TypeOK
  <1>4. Asked'
    BY <1>1 DEF Purged, Asked, Marked
  <1>5. Listed'
    BY <1>1, <1>2 DEF Purged, Listed, Erased
  <1>6. ErasedBeforeMail'
    BY <1>1, <1>2 DEF Purged, ErasedBeforeMail, Mailed
  <1>. QED  BY <1>3, <1>4, <1>5, <1>6 DEF Purged

\* The mark: no purge is under way before the first one.
LEMMA MarkStep ==
  ASSUME Purged, TypeOK', NEW d \in Deletes, Mark(d)
  PROVE  Purged'
  <1>1. UNCHANGED <<rows, event, run, mails, writer>> /\ delete' = [delete EXCEPT ![d] = "invoke"]
    BY DEF Mark, To, purge
  <1>2. Marked'
    BY DEF Mark, Marked
  <1>3. \/ Marked /\ profile' = profile /\ old' = old
        \/ ~Marked /\ profile' = "deleting" /\ old' = rows
    BY DEF Mark, Marked, Purged, TypeOK
  <1>4. RowsWritten'
    BY <1>1, <1>3 DEF Purged, RowsWritten
  <1>5. Asked'
    BY <1>2 DEF Asked
  <1>6. Listed'
    BY <1>1, <1>3 DEF Purged, Listed, Asked, Erased, Sending
  <1>7. ErasedBeforeMail'
    BY <1>1, <1>3 DEF Purged, ErasedBeforeMail, Mailed, Marked
  <1>. QED  BY <1>4, <1>5, <1>6, <1>7 DEF Purged

\* A batch takes from the partition what it takes from the list.
LEMMA EraseStep ==
  ASSUME Purged, TypeOK', NEW p \in Runs, NEW batch \in SUBSET run[p].listed, Erase(p, batch)
  PROVE  Purged'
  <1>1. /\ UNCHANGED <<old, event, delete, mails, writer>> /\ rows' = rows \ batch
        /\ profile' = IF Profile \in batch THEN "none" ELSE profile
        /\ run' = [run EXCEPT ![p].listed = @ \ batch]
    BY DEF Erase, handlers
  <1>2. \A q \in Runs : /\ run'[q].pc = run[q].pc
                        /\ run'[q].listed = IF q = p THEN run[p].listed \ batch ELSE run[q].listed
    BY <1>1 DEF Purged, TypeOK
  <1>3. /\ profile = "none" => profile' = "none" 
        /\ Marked => Marked'
    BY <1>1 DEF Marked
  <1>4. RowsWritten'
    BY <1>1 DEF Purged, RowsWritten
  <1>5. Asked'
    BY <1>1, <1>2, <1>3 DEF Purged, Asked
  <1>6. Listed'
    BY <1>1, <1>2, <1>3 DEF Purged, Listed, Erased
  <1>7. ErasedBeforeMail'
    BY <1>1, <1>3 DEF Purged, ErasedBeforeMail, Mailed
  <1>. QED  BY <1>4, <1>5, <1>6, <1>7 DEF Purged

LEMMA PurgedStep == Purged /\ [Next]_vars => Purged'
  <1>. SUFFICES ASSUME Purged, [Next]_vars  PROVE Purged'
    OBVIOUS
  <1>0. TypeOK /\ TypeOK'
    BY NextTyped DEF Purged
  <1>w. /\ \A d \in Deletes : event[d] > 0 \/ delete[d] = "invoke" => Marked
        /\ \A p \in Runs : run[p].pc # "rest" => Marked
    BY DEF Purged, Asked
  <1>1. ASSUME NEW d \in Deletes, Read(d)  PROVE Purged'
    <2>1. \A e \in Deletes : delete'[e] = "invoke" => delete[e] = "invoke"
      BY <1>0, <1>1 DEF Read, To, TypeOK
    <2>. QED  BY <1>0, <1>w, <1>1, <2>1, QuietStep DEF Read, account, purge
  <1>2. ASSUME NEW d \in Deletes, Mark(d)  PROVE Purged'
    BY <1>0, <1>2, MarkStep
  <1>3. ASSUME NEW d \in Deletes, Invoke(d) \/ Abort(d)  PROVE Purged'
    <2>1. \A e \in Deletes : event'[e] > 0 \/ delete'[e] = "invoke" => Marked
      BY <1>0, <1>w, <1>3 DEF Invoke, Abort, To, TypeOK
    <2>. QED  BY <1>0, <1>3, <2>1, QuietStep DEF Invoke, Abort, account, purge
  <1>4. ASSUME NEW p \in Runs, NEW d \in Deletes, Start(p, d)  PROVE Purged'
    <2>1. \A e \in Deletes : event'[e] > 0 \/ delete'[e] = "invoke" => Marked
      BY <1>0, <1>w, <1>4 DEF Start, handlers, TypeOK
    <2>2. \A q \in Runs : run'[q] = run[q] \/ (run'[q].pc = "phone" /\ Marked)
      BY <1>0, <1>w, <1>4 DEF Start, TypeOK
    <2>. QED  BY <1>0, <1>4, <2>1, <2>2, QuietStep DEF Start, account, handlers
  <1>5. ASSUME NEW p \in Runs, PurgePhone(p)  PROVE Purged'
    <2>1. \A q \in Runs : run'[q] = run[q] \/ (run'[q].pc = "list" /\ Marked)
      BY <1>0, <1>w, <1>5 DEF PurgePhone, Step, TypeOK
    <2>. QED  BY <1>0, <1>w, <1>5, <2>1, QuietStep DEF PurgePhone, account, handlers
  <1>6. ASSUME NEW p \in Runs, List(p)  PROVE Purged'
    <2>1. \A q \in Runs : \/ run'[q] = run[q]
                          \/ /\ run'[q].pc = "forget" /\ Marked
                             /\ rows \subseteq run'[q].listed
                             /\ Profile \in run'[q].listed \/ profile = "none"
      BY <1>0, <1>w, <1>6 DEF List, TypeOK
    <2>. QED  BY <1>0, <1>w, <1>6, <2>1, QuietStep DEF List, account, handlers
  <1>7. ASSUME NEW p \in Runs, Forget(p)  PROVE Purged'
    <2>1. \A q \in Runs : run'[q] = run[q] \/ q = p
      BY <1>0, <1>7 DEF Forget, Step, TypeOK
    <2>2. /\ run'[p].pc = "erase" /\ Marked
          /\ old \cap rows \subseteq run'[p].listed
          /\ Profile \in run'[p].listed \/ profile = "none"
      BY <1>0, <1>w, <1>7 DEF Forget, Step, TypeOK, Purged, Listed
    <2>. QED  BY <1>0, <1>w, <1>7, <2>1, <2>2, QuietStep DEF Forget, handlers
  <1>8. ASSUME NEW p \in Runs, NEW batch \in SUBSET run[p].listed, Erase(p, batch)  PROVE Purged'
    BY <1>0, <1>8, EraseStep
  <1>9. ASSUME NEW p \in Runs, Confirm(p)  PROVE Purged'
    <2>1. Erased /\ Marked
      BY <1>w, <1>9 DEF Confirm, Purged, Listed, Erased, Sending
    <2>2. \A q \in Runs : run'[q] = run[q] \/ run'[q].pc \in {"rest"} \cup Sending
      <3>1. (\E to \in Sending : Step(p, "erase", to)) \/ Finish(p)
        BY <1>9 DEF Confirm, Sending
      <3>2. ASSUME NEW to \in Sending, Step(p, "erase", to)
            PROVE  \A q \in Runs : run'[q] = run[q] \/ run'[q].pc = to
        BY <1>0, <3>2 DEF Step, TypeOK
      <3>3. ASSUME Finish(p)  PROVE \A q \in Runs : run'[q] = run[q] \/ run'[q].pc = "rest"
        BY <1>0, <3>3 DEF Finish, Rest, TypeOK
      <3>. QED  BY <3>1, <3>2, <3>3
    <2>. QED  BY <1>0, <1>9, <2>1, <2>2, QuietStep DEF Confirm, account, handlers
  <1>10. ASSUME NEW p \in Runs, Send(p)  PROVE Purged'
    <2>1. Erased /\ Marked
      BY <1>w, <1>10 DEF Send, Purged, Listed, Sending
    <2>2. UNCHANGED <<profile, rows, old, writer>> 
      BY <1>10 DEF Send, account, handlers
    <2>3. \A q \in Runs : run'[q] = run[q] \/ run'[q].pc = "rest"
      BY <1>0, <1>10 DEF Send, Finish, Rest, TypeOK
    <2>4. RowsWritten' /\ Asked' /\ ErasedBeforeMail'
      BY <2>1, <2>2 DEF Purged, RowsWritten, Asked, Marked, ErasedBeforeMail, Mailed, Erased
    <2>5. Listed'
      BY <2>2, <2>3 DEF Purged, Listed, Erased, Sending
    <2>. QED  BY <1>0, <2>4, <2>5 DEF Purged
  <1>11. ASSUME NEW p \in Runs, Die(p)  PROVE Purged'
    <2>1. \A q \in Runs : run'[q] = run[q] \/ run'[q].pc = "rest"
      BY <1>0, <1>11 DEF Die, Rest, TypeOK
    <2>. QED  BY <1>0, <1>w, <1>11, <2>1, QuietStep DEF Die, account, handlers
  <1>12. ASSUME NEW w \in Writers, Check(w) \/ CheckSignIn(w)  PROVE Purged'
    <2>1. UNCHANGED <<profile, rows, old, event, delete, run, mails>>
      BY <1>12 DEF Check, CheckSignIn, account, others, purge
    <2>2. \A v \in Writers : writer[v] = "done" => writer'[v] = "done"
      BY <1>0, <1>12 DEF Check, CheckSignIn, TypeOK
    <2>3. RowsWritten'
      BY <2>1, <2>2 DEF Purged, RowsWritten
    <2>4. Asked' /\ Listed' /\ ErasedBeforeMail'
      BY <2>1 DEF Purged, Asked, Marked, Listed, Erased, ErasedBeforeMail, Mailed
    <2>. QED  BY <1>0, <2>3, <2>4 DEF Purged
  <1>13. ASSUME NEW w \in Writers, Put(w)  PROVE Purged'
    BY <1>0, <1>13, PutStep
  <1>14. CASE Suspend \/ Reinstate
    <2>1. UNCHANGED <<rows, old, event, delete, run, mails, writer>> /\ ~Marked
      BY <1>14 DEF Suspend, Reinstate, others, purge, Marked
    <2>2. Asked' /\ Listed'
      BY <2>1, <1>w DEF Asked, Listed, Sending
    <2>3. RowsWritten' /\ ErasedBeforeMail'
      BY <2>1 DEF Purged, RowsWritten, ErasedBeforeMail, Mailed, Marked
    <2>. QED  BY <1>0, <2>2, <2>3 DEF Purged
  <1>15. CASE UNCHANGED vars
    BY <1>0, <1>w, <1>15, QuietStep DEF vars
  <1>. QED
    BY <1>1, <1>2, <1>3, <1>4, <1>5, <1>6, <1>7, <1>8, <1>9, <1>10, <1>11, <1>12,
       <1>13, <1>14, <1>15 DEF Next, Handle, Work

\* When the confirmation is sent, the profile and every row that existed when the
\* deletion was requested are gone and stay gone, wherever purges die or overlap.
THEOREM MailMeansErased == Spec => []ErasedBeforeMail
  <1>1. Purged => ErasedBeforeMail
    BY DEF Purged
  <1>. QED  BY <1>1, PurgedInit, PurgedStep, PTL DEF Spec

-----------------------------------------------------------------------------
\* The run that goes on to send with a marker of its own has created it, is
\* alone, and nothing has been sent in that way before.
Sole ==
  /\ mails["sendMarked"] <= 1
  /\ mails["sendMarked"] > 0 => marker
  /\ \A p \in Runs : run[p].pc = "sendMarked" => marker /\ mails["sendMarked"] = 0
  /\ \A p, q \in Runs : run[p].pc = "sendMarked" /\ run[q].pc = "sendMarked" => p = q

\* A step that sends nothing with a marker and makes no such sender keeps Sole.
LEMMA SoleQuiet ==
  ASSUME Sole, marker => marker', mails'["sendMarked"] = mails["sendMarked"],
         \A p \in Runs : run'[p].pc = "sendMarked" => run[p].pc = "sendMarked"
  PROVE  Sole'
  BY Zenon DEF Sole

\* Only the run that creates the marker goes on to send with it.
LEMMA SoleConfirm ==
  ASSUME TypeOK, Sole, NEW p \in Runs, Confirm(p)
  PROVE  Sole'
  <1>0. mails' = mails
    BY Zenon DEF Confirm
  <1>1. CASE ~marker /\ marker' = TRUE /\ Step(p, "erase", "sendMarked")
    <2>1. \A q \in Runs : run[q].pc # "sendMarked"
      BY <1>1, Zenon DEF Sole
    <2>2. ~(mails["sendMarked"] > 0)
      BY <1>1, Zenon DEF Sole
    <2>3. mails["sendMarked"] = 0
      BY <2>2 DEF TypeOK, Sending
    <2>4. \A q \in Runs : run'[q].pc = "sendMarked" => q = p
      BY <1>1, <2>1 DEF Step, TypeOK
    <2>5. mails'["sendMarked"] <= 1 /\ mails'["sendMarked"] = 0
      BY <1>0, <2>3
    <2>. QED  BY <1>1, <2>4, <2>5, Zenon DEF Sole
  <1>2. CASE marker /\ Finish(p) /\ UNCHANGED marker
    <2>1. \A q \in Runs : run'[q].pc = "sendMarked" => run[q].pc = "sendMarked"
      BY <1>2 DEF Finish, Rest, TypeOK
    <2>. QED  BY <1>0, <1>2, <2>1, SoleQuiet, Zenon
  <1>3. CASE marker' \in {marker, TRUE} /\ Step(p, "erase", "sendUnmarked")
    <2>1. \A q \in Runs : run'[q].pc = "sendMarked" => run[q].pc = "sendMarked"
      BY <1>3 DEF Step, TypeOK
    <2>2. marker => marker'
      BY <1>3, Zenon
    <2>. QED  BY <1>0, <2>1, <2>2, SoleQuiet, Zenon
  <1>. QED  BY <1>1, <1>2, <1>3, Zenon DEF Confirm

\* The sender sends once.
LEMMA SoleSend ==
  ASSUME TypeOK, Sole, NEW p \in Runs, Send(p)
  PROVE  Sole'
  <1>0. run' = [run EXCEPT ![p] = Rest] /\ UNCHANGED marker
    BY Zenon DEF Send, Finish
  <1>1. CASE run[p].pc = "sendMarked"
    <2>1. marker /\ mails["sendMarked"] = 0
      BY <1>1, Zenon DEF Sole
    <2>2. mails'["sendMarked"] <= 1
      BY <1>1, <2>1 DEF Send, TypeOK, Sending
    <2>3. \A q \in Runs : run[q].pc = "sendMarked" => q = p
      BY <1>1, Zenon DEF Sole
    <2>4. \A q \in Runs : run'[q].pc # "sendMarked"
      BY <1>0, <2>3 DEF Rest, TypeOK
    <2>. QED  BY <1>0, <2>1, <2>2, <2>4, Zenon DEF Sole
  <1>2. CASE run[p].pc # "sendMarked"
    <2>1. mails'["sendMarked"] = mails["sendMarked"]
      BY <1>2 DEF Send, TypeOK, Sending
    <2>2. \A q \in Runs : run'[q].pc = "sendMarked" => run[q].pc = "sendMarked"
      BY <1>0 DEF Rest, TypeOK
    <2>. QED  BY <1>0, <2>1, <2>2, SoleQuiet, Zenon
  <1>. QED  BY <1>1, <1>2

\* Every step keeps Sole.
LEMMA SoleStep ==
  ASSUME TypeOK, Sole, [Next]_vars
  PROVE  Sole'
  <1>. DEFINE still == \A p \in Runs : run'[p].pc = "sendMarked" => run[p].pc = "sendMarked"
              quiet == UNCHANGED <<marker, mails>> /\ still
  <1>1. ASSUME UNCHANGED <<run, marker, mails>>  PROVE quiet
    BY <1>1, Zenon
  <1>2. ASSUME NEW d \in Deletes, Handle(d) \/ Abort(d)  PROVE quiet
    BY <1>1, <1>2, Zenon DEF Handle, Read, Mark, Invoke, Abort, purge
  <1>3. ASSUME NEW d \in Deletes, NEW p \in Runs, Start(p, d)  PROVE quiet
    <2>1. still
      BY <1>3 DEF Start, TypeOK
    <2>. QED  BY <1>3, <2>1, Zenon DEF Start
  <1>4. ASSUME NEW p \in Runs, PurgePhone(p) \/ List(p) \/ Forget(p)  PROVE quiet
    <2>1. still
      BY <1>4 DEF PurgePhone, List, Forget, Step, TypeOK
    <2>. QED  BY <1>4, <2>1, Zenon DEF PurgePhone, List, Forget
  <1>5. ASSUME NEW p \in Runs, NEW batch \in SUBSET run[p].listed, Erase(p, batch)  PROVE quiet
    <2>1. still
      BY <1>5 DEF Erase, TypeOK
    <2>. QED  BY <1>5, <2>1, Zenon DEF Erase
  <1>6. ASSUME NEW p \in Runs, Die(p)  PROVE quiet
    <2>1. still
      BY <1>6 DEF Die, Rest, TypeOK
    <2>. QED  BY <1>6, <2>1, Zenon DEF Die
  <1>7. ASSUME NEW w \in Writers, Check(w) \/ CheckSignIn(w) \/ Put(w)  PROVE quiet
    BY <1>1, <1>7, Zenon DEF Check, CheckSignIn, Put, others, purge
  <1>8. ASSUME Suspend \/ Reinstate  PROVE quiet
    BY <1>1, <1>8, Zenon DEF Suspend, Reinstate, others, purge
  <1>9. ASSUME UNCHANGED vars  PROVE quiet
    BY <1>1, <1>9, Zenon DEF vars
  <1>10. quiet \/ (\E p \in Runs : Confirm(p)) \/ (\E p \in Runs : Send(p))
    BY <1>2, <1>3, <1>4, <1>5, <1>6, <1>7, <1>8, <1>9, Zenon DEF Next, Work
  <1>11. ASSUME quiet  PROVE Sole'
    <2>1. marker => marker'
      BY <1>11, Zenon
    <2>2. mails'["sendMarked"] = mails["sendMarked"]
      BY <1>11, Zenon
    <2>. QED  BY <1>11, <2>1, <2>2, SoleQuiet, Zenon
  <1>. QED  BY <1>10, <1>11, SoleConfirm, SoleSend, Zenon

\* The confirmation is sent once at most, however often and wherever purges are
\* started, killed and repeated, not counting the mails that the code prefers to
\* none when the marker cannot be written.
THEOREM ConfirmedAtMostOnce == Spec => []ConfirmedOnce
  <1>1. Init => Sole
    BY DEF Init, Rest, Sole, Sending
  <1>2. TypeOK /\ Sole /\ [Next]_vars => Sole'
    BY SoleStep
  <1>3. Sole => ConfirmedOnce
    BY DEF Sole, ConfirmedOnce
  <1>. QED  BY <1>1, <1>2, <1>3, TypeCorrect, PTL DEF Spec
===============================================================================
