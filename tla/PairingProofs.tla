----------------------------- MODULE PairingProofs -----------------------------
(***************************************************************************)
(* Proofs about Pairing and the sessions and devices it works on.          *)
(*                                                                         *)
(* Tokens.  The token of a live session is one more than the number of its *)
(* exchanges (RowOK), so that two exchanges of one token would be of the   *)
(* same number.  The sessions of a paired device have tokens only through  *)
(* the one claim of its pairing (Owned, DevicesInv).                       *)
(*                                                                         *)
(* Ends.  What a sweep has still to delete is in the X of Dying, Gone and  *)
(* Out: a session outside X cannot be exchanged any more.  A sweep begins  *)
(* with every session in X, and deletes, or finds deleted, one after the   *)
(* other until X is empty.                                                 *)
(*                                                                         *)
(* The steps.  Rows, devices and pairings only go on (Onward), and an      *)
(* invocation that does not move keeps what it relies on whatever the      *)
(* others do; whoever moves shows its own part (Moved).                    *)
(***************************************************************************)
EXTENDS Pairing, FiniteSetTheorems, TLAPS

USE PairingAssumption

-----------------------------------------------------------------------------
(***************************************************************************)
(* The invariant.                                                          *)
(***************************************************************************)
\* The exchanges of a session.
Of(s) == {e \in exchanges : e.id = s}

\* Nothing has been done with a session's tokens.
Bare(s) == Of(s) = {} /\ \A h \in held : h[1] # s

\* No other invocation works on p's session.
Alone(p) == \A q \in Procs \ {p} : proc[q].id # proc[p].id

Doing(pc, s) == \E p \in Procs : proc[p].pc = pc /\ proc[p].id = s

\* A session with a token that a client has, or is about to get.
Tokened(s) == Doing("answer", s) \/ Doing("rotate", s) \/ \E h \in held : h[1] = s

\* What a row of a session says, now or in an old copy.
Copy(s, r) ==
  \/ r = NoRow
  \/ r.cur # 0 /\ (r.family = s \/ (r.family \in Devices /\ r.device = r.family))

\* The tokens of a session of a paired device were granted to a claim.
Claimed(s, n) == s \in granted[n] /\ pair[n].status = "claimed"
Owned(s) ==
  \A f \in Devices : f \in {row[s].family, index[s].family}
    => \E n \in Pairs : Claimed(s, n) /\ pair[n].device = f

RowOK(s) ==
  /\ Copy(s, row[s]) /\ Copy(s, index[s])
  /\ Live(s) /\ index[s].cur # 0 => index[s].family = row[s].family
  /\ Live(s) => row[s].cur = 1 + Cardinality(Of(s))
  /\ Live(s) \/ index[s].cur # 0 \/ Tokened(s) => s \in begun
  /\ s \notin begun => Bare(s) /\ \A p \in Procs : proc[p].id # s
  /\ (\E h \in held : h[1] = s) => Owned(s)

RowsInv ==
  /\ \A s \in Ids : RowOK(s)
  /\ IsFiniteSet(exchanges) /\ ExchangedOnce
  /\ \A e \in exchanges : e.from <= Cardinality(Of(e.id))

\* A device that is paired has its own family, and one pairing.
DevicesInv ==
  /\ \A d \in Devices :
       /\ device[d].status = "none" => device[d] = NoDevice
       /\ device[d].paired => device[d].family = d
  /\ \A n \in Pairs :
       /\ pair[n].status \notin {"bound", "claimed"} => pair[n].device = None
       /\ pair[n].status # "claimed" => granted[n] = {}
       /\ Cardinality(granted[n]) <= 1
       /\ pair[n].device # None =>
            /\ device[pair[n].device].paired
            /\ \A m \in Pairs \ {n} : pair[m].device # pair[n].device

-----------------------------------------------------------------------------
\* What the client of a session gets from a sign-in or from a claim is new.
NewOK(p) ==
  LET s == proc[p].id IN
  /\ proc[p].pc \in {"put", "settle"} => Bare(s) /\ Alone(p)
  /\ proc[p].pc = "put" => row[s] = NoRow /\ index[s] = NoRow
  /\ proc[p].pc = "settle" => {row[s].family, index[s].family} \subseteq {None, proc[p].dev}

\* An exchange is asked for by a client that has a token; the device is the one
\* the session of a paired device has always been bound to.
TokenOK(p) ==
  LET s == proc[p].id IN
  /\ proc[p].pc \in {"answer", "rotate", "adjudicate"} => proc[p].tok > 0 /\ Owned(s)
  /\ proc[p].pc = "rotate" /\ row[s].family \in Devices => proc[p].dev = row[s].family

Holds == {"put", "answer", "rotate", "adjudicate", "drop", "upsertRead", "upsertPut", "bindRead",
          "bind", "detach", "settle"}
Registers == {"upsertRead", "upsertPut", "bindRead", "bind", "detach"}

\* A registration is for a session of its own family.
RegisterOK(p) ==
  LET r == proc[p] IN
  /\ IF r.pc \in Holds THEN r.id \in begun ELSE r.id = None
  /\ r.pc \in Registers => r.dev \in Devices /\ r.family \in Ids /\ row[r.id].family \notin Devices
  /\ r.pc = "flip" => r.dev \in Devices
  /\ r.pc = "upsertPut" =>
       /\ r.found.status # "revoked" /\ ~r.found.paired
       /\ r.found.status = "active" => device[r.dev].status # "none" /\ ~device[r.dev].paired

PairingOK(p) ==
  LET r == proc[p] IN
  /\ r.pc \in {"create", "bindPair", "count", "recount", "cancel", "claim", "settle"} => r.pair \in Pairs
  /\ r.pc = "bindPair" =>
       /\ r.dev \in Devices /\ device[r.dev].paired
       /\ \A n \in Pairs : pair[n].device # r.dev
       /\ \A q \in Procs \ {p} : proc[q].pc = "bindPair" => proc[q].dev # r.dev
  /\ r.pc \in {"claim", "settle"} =>
       /\ r.dev \in Devices /\ pair[r.pair].device = r.dev
       /\ pair[r.pair].status \in {"bound", "claimed"}

-----------------------------------------------------------------------------
\* A family that ends: no session of it gets its first token any more, and those
\* that have one are in X.
Concluded(f) ==
  /\ f \in Ids => f \in begun /\ ~Doing("put", f)
  /\ f \in Devices => \E n \in Pairs : pair[n].device = f /\ pair[n].status = "claimed"
Dying(f, X) == Concluded(f) /\ \A s \in Ids \ X : row[s].family = f => ~Tokened(s)

\* A device that is revoked: the sessions bound to it are in X, or its own.
Gone(d, X) ==
  device[d].status = "revoked" /\ \A s \in Ids \ X : row[s].device = d => Provisioned(row[s])

\* Sessions before a log-out everywhere: those that can still be refreshed are in X.
Out(S, X) == S \subseteq stale /\ \A s \in S \ X : Live(s) => ~Doing("rotate", s)

Plans == {<<"device">>, <<"device", "device">>, <<"family", "device">>,
          <<"device", "family", "device">>}

SweepOK(p) ==
  LET r == proc[p] IN
  r.pc \in {"list", "delete"} =>
    \/ /\ r.dev = None /\ r.plan = <<"family">> /\ r.family \in Families /\ Concluded(r.family)
       /\ r.pc = "delete" => Dying(r.family, r.todo)
    \/ /\ r.dev = None /\ r.plan = <<"all">> /\ r.old \subseteq stale
       /\ r.pc = "delete" => Out(r.old, r.todo)
    \/ /\ r.dev \in Devices /\ r.plan \in Plans /\ device[r.dev].status = "revoked"
       /\ r.pc = "delete" /\ r.plan = <<"device">> => Gone(r.dev, r.todo)

EndInv ==
  /\ \A f \in ended : Dying(f, {})
  /\ \A d \in swept : Gone(d, {})
  /\ Out(allOut, {})

ProcOK(p) == NewOK(p) /\ TokenOK(p) /\ RegisterOK(p) /\ PairingOK(p) /\ SweepOK(p)

PairingIInv ==
  /\ TypeOK /\ RowsInv /\ DevicesInv /\ EndInv
  /\ \A p \in Procs : ProcOK(p)

-----------------------------------------------------------------------------
(***************************************************************************)
(* What a step does to what the invariant speaks of.                       *)
(***************************************************************************)
Settling(s) ==
  \E p \in Procs : /\ proc[p].pc = "settle" /\ proc[p].id = s
                   /\ pair[proc[p].pair].status = "bound"

\* The row of a session: made once, then exchanged, bound, or deleted for good.
Made(s) ==
  \/ s \notin begun /\ Provisioned(row'[s])
  \/ Doing("put", s) /\ ~Doing("put", s)' /\ row'[s].family = s /\ row'[s].device = None
Carried(s) ==
  /\ Live(s) /\ row'[s].family = row[s].family
  /\ row'[s].device = row[s].device \/ Active(row'[s].device)

\* Who has a token of a session, and who is about to.
TokenStep(s) ==
  /\ s \in begun /\ Bare(s) /\ ~Tokened(s) => Bare(s)'
  /\ Tokened(s)' => Tokened(s) \/ Doing("put", s) \/ Settling(s)
  /\ Doing("put", s)' => Doing("put", s) \/ s \notin begun
  /\ Doing("rotate", s)' => Doing("rotate", s) \/ s \notin stale

RowStep(s) ==
  /\ row'[s] \in {row[s], NoRow} \/ Made(s) \/ Carried(s)
  /\ index'[s] \in {index[s], row[s]}
  /\ TokenStep(s)

DeviceStep(d) ==
  /\ device[d].status = "revoked" => device'[d].status = "revoked"
  /\ device[d].status # "none" =>
       device'[d].status # "none" /\ device'[d].paired = device[d].paired

PairStep(n) ==
  /\ granted[n] \subseteq granted'[n]
  /\ pair[n].status = "claimed" => pair'[n].status = "claimed"
  /\ pair[n].status = "bound" => pair'[n].status \in {"bound", "claimed"}
  /\ pair[n].device # None => pair'[n].device = pair[n].device
  /\ pair[n].device = None /\ pair'[n].device # None =>
       \E p \in Procs : /\ proc[p].pc = "bindPair" /\ proc[p].dev = pair'[n].device
                        /\ proc'[p].pc # "bindPair"

Onward ==
  /\ begun \subseteq begun' /\ stale \subseteq stale'
  /\ \A s \in Ids : RowStep(s)
  /\ \A d \in Devices : DeviceStep(d)
  /\ \A n \in Pairs : PairStep(n)

-----------------------------------------------------------------------------
LEMMA Disjoint ==
  /\ \A s \in Ids : s \notin Devices /\ s # None
  /\ \A d \in Devices : d \notin Ids /\ d # None
  /\ NoRow.cur = 0 /\ NoRow.family = None /\ NoRow.device = None
  BY DEF NoRow

LEMMA RowFacts ==
  ASSUME PairingIInv, NEW s \in Ids
  PROVE  /\ row[s] \in Row /\ index[s] \in Row /\ RowOK(s)
         /\ s \notin begun => row[s] = NoRow /\ index[s] = NoRow /\ ~Tokened(s)
         /\ s \notin begun => \A p \in Procs : proc[p].id # s
         /\ ~Live(s) => row[s] = NoRow
  <1>1. row[s] \in Row /\ index[s] \in Row
    BY DEF PairingIInv, TypeOK, SessionsTypeOK
  <1>2. RowOK(s)
    BY DEF PairingIInv, RowsInv
  <1> QED
    BY <1>1, <1>2 DEF RowOK, Copy, Live

LEMMA ProcFacts ==
  ASSUME PairingIInv, NEW p \in Procs
  PROVE  proc[p] \in Proc /\ NewOK(p) /\ TokenOK(p) /\ RegisterOK(p) /\ PairingOK(p) /\ SweepOK(p)
  BY DEF PairingIInv, ProcOK, TypeOK, SessionsTypeOK

LEMMA BegunTyped == PairingIInv => begun \subseteq Ids /\ stale \subseteq begun
  BY DEF PairingIInv, TypeOK, SessionsTypeOK

LEMMA PairFacts ==
  ASSUME PairingIInv, NEW n \in Pairs
  PROVE  /\ pair[n].device \in Devices \cup {None}
         /\ pair[n].status \notin {"bound", "claimed"} => pair[n].device = None
         /\ pair[n].status \in {"bound", "claimed"} => pair[n].device \in Devices
         /\ pair[n].status # "claimed" => granted[n] = {}
         /\ pair[n].device # None => device[pair[n].device].paired
         /\ pair[n].device # None => \A m \in Pairs \ {n} : pair[m].device # pair[n].device
  <1>1. /\ pair[n].device \in Devices \cup {None}
        /\ pair[n].status \in {"bound", "claimed"} => pair[n].device # None
    BY DEF PairingIInv, TypeOK
  <1> QED
    BY <1>1 DEF PairingIInv, DevicesInv

\* A session with a token is begun, and nobody gives it its first.
LEMMA TokenedFacts ==
  ASSUME PairingIInv, NEW s \in Ids, Tokened(s)
  PROVE  s \in begun /\ ~Doing("put", s) /\ Owned(s)
  <1>1. RowOK(s)
    BY RowFacts
  <1>2. s \in begun
    BY <1>1 DEF RowOK
  <1>3. ASSUME NEW p \in Procs, proc[p].pc = "put", proc[p].id = s PROVE FALSE
    <2>1. Bare(s) /\ Alone(p)
      BY <1>3, ProcFacts DEF NewOK
    <2> QED
      BY <1>3, <2>1 DEF Tokened, Doing, Bare, Alone
  <1>4. Owned(s)
    <2>1. \A p \in Procs : proc[p].pc \in {"answer", "rotate"} /\ proc[p].id = s => Owned(s)
      BY ProcFacts DEF TokenOK
    <2> QED
      BY <1>1, <2>1 DEF Tokened, Doing, RowOK
  <1> QED
    BY <1>2, <1>3, <1>4 DEF Doing

\* A family that ends goes on to end.
LEMMA DyingStays ==
  ASSUME PairingIInv, Onward, NEW f \in Families, NEW X, Dying(f, X)
  PROVE  Dying(f, X)'
  <1>1. Concluded(f)'
    <2>1. ASSUME f \in Ids PROVE f \in begun' /\ ~Doing("put", f)'
      <3>1. f \in begun /\ ~Doing("put", f)
        BY <2>1 DEF Dying, Concluded
      <3> QED
        BY <2>1, <3>1 DEF Onward, RowStep, TokenStep
    <2>2. ASSUME f \in Devices PROVE \E n \in Pairs : pair'[n].device = f /\ pair'[n].status = "claimed"
      <3>1. PICK n \in Pairs : pair[n].device = f /\ pair[n].status = "claimed"
        BY <2>2 DEF Dying, Concluded
      <3> QED
        BY <2>2, <3>1, Disjoint DEF Onward, PairStep
    <2> QED
      BY <2>1, <2>2 DEF Concluded
  <1>2. ASSUME NEW s \in Ids \ X, row'[s].family = f, Tokened(s)' PROVE FALSE
    <2>1. RowStep(s) /\ f # None
      BY Disjoint DEF Onward, Families
    <2>2. Tokened(s) \/ Doing("put", s) \/ Settling(s)
      BY <1>2, <2>1 DEF RowStep, TokenStep
    <2>3. s \in begun
      <3>1. \A p \in Procs : proc[p].pc \in {"put", "settle"} => proc[p].id \in begun
        BY ProcFacts DEF RegisterOK, Holds
      <3> QED
        BY <2>2, <3>1, TokenedFacts DEF Doing, Settling
    <2>4. CASE row[s].family = f
      <3>1. ~Tokened(s)
        BY <2>4 DEF Dying
      <3>2. CASE Doing("put", s)
        <4>1. row[s] = NoRow
          BY <3>2, ProcFacts DEF Doing, NewOK
        <4> QED
          BY <2>1, <2>4, <4>1, Disjoint
      <3>3. CASE Settling(s)
        <4>1. PICK p \in Procs : /\ proc[p].pc = "settle" /\ proc[p].id = s
                                 /\ pair[proc[p].pair].status = "bound"
          BY <3>3 DEF Settling
        <4>2. /\ row[s].family \in {None, proc[p].dev} /\ proc[p].pair \in Pairs
              /\ pair[proc[p].pair].device = proc[p].dev /\ proc[p].dev \in Devices
          BY <4>1, ProcFacts DEF NewOK, PairingOK
        <4>3. f \in Devices /\ pair[proc[p].pair].device = f
          BY <2>1, <2>4, <4>2
        <4>4. PICK n \in Pairs : pair[n].device = f /\ pair[n].status = "claimed"
          BY <4>3 DEF Dying, Concluded
        <4> QED
          BY <4>1, <4>2, <4>3, <4>4, PairFacts, Disjoint
      <3> QED
        BY <2>2, <3>1, <3>2, <3>3
    <2>5. CASE row[s].family # f
      <3>1. Made(s)
        BY <1>2, <2>1, <2>5, Disjoint DEF RowStep, Carried
      <3>2. Doing("put", s) /\ f = s
        BY <1>2, <2>3, <3>1 DEF Made
      <3> QED
        BY <3>2 DEF Dying, Concluded
    <2> QED
      BY <2>4, <2>5
  <1> QED
    BY <1>1, <1>2 DEF Dying

LEMMA GoneStays ==
  ASSUME PairingIInv, Onward, NEW d \in Devices, NEW X, Gone(d, X)
  PROVE  Gone(d, X)'
  <1>1. device'[d].status = "revoked"
    BY DEF Gone, Onward, DeviceStep
  <1>2. ASSUME NEW s \in Ids \ X, row'[s].device = d PROVE Provisioned(row'[s])
    <2>1. RowStep(s) /\ d # None /\ ~Active(d)
      BY Disjoint DEF Onward, Gone, Active
    <2>2. row[s].device = d => Provisioned(row[s])
      BY DEF Gone
    <2>3. CASE row'[s] \in {row[s], NoRow}
      BY <1>2, <2>1, <2>2, <2>3, Disjoint
    <2>4. CASE Made(s)
      BY <1>2, <2>1, <2>4 DEF Made
    <2>5. CASE Carried(s)
      BY <1>2, <2>1, <2>2, <2>5 DEF Carried, Provisioned
    <2> QED
      BY <2>1, <2>3, <2>4, <2>5 DEF RowStep, TokenStep
  <1> QED
    BY <1>1, <1>2 DEF Gone

LEMMA OutStays ==
  ASSUME PairingIInv, Onward, NEW S, NEW X, Out(S, X)
  PROVE  Out(S, X)'
  <1>1. S \subseteq stale /\ S \subseteq stale' /\ S \subseteq begun /\ S \subseteq Ids
    BY BegunTyped DEF Out, Onward
  <1>2. ASSUME NEW s \in S \ X, Live(s)', Doing("rotate", s)' PROVE FALSE
    <2>1. s \in Ids /\ s \in begun /\ RowStep(s) /\ Doing("rotate", s)
      BY <1>1, <1>2 DEF Onward, RowStep, TokenStep
    <2>2. ~Live(s)
      BY <2>1 DEF Out
    <2>3. ~Doing("put", s)
      BY <2>1, TokenedFacts DEF Tokened
    <2>4. row[s] = NoRow
      BY <2>1, <2>2, RowFacts
    <2> QED
      BY <1>2, <2>1, <2>2, <2>3, <2>4, Disjoint DEF RowStep, Made, Carried, Live
  <1> QED
    BY <1>1, <1>2 DEF Out

-----------------------------------------------------------------------------
(***************************************************************************)
(* What the other invocations rely on.                                     *)
(***************************************************************************)
\* The session r turns to: none, its own, one whose token it was given, one of
\* its own family, or a new one.
Turns(r) ==
  LET s == proc'[r].id IN
  \/ s \in {None, proc[r].id}
  \/ s \in Ids /\ \E h \in held : h[1] = s
  \/ s \in Ids /\ Live(s) /\ ~Provisioned(row[s])
  \/ s \in Ids \ begun

\* Whoever moves, moves by a step that keeps what it relies on itself.
Moved == \A r \in Procs : proc'[r] = proc[r] \/ (Turns(r) /\ ProcOK(r)')

LEMMA OwnedStays ==
  ASSUME PairingIInv, Onward, NEW s \in Ids, s \in begun, Owned(s)
  PROVE  Owned(s)'
  <1> SUFFICES ASSUME NEW f \in Devices, f \in {row'[s].family, index'[s].family}
               PROVE  \E n \in Pairs : Claimed(s, n)' /\ pair'[n].device = f
    BY DEF Owned
  <1>1. RowStep(s)
    BY DEF Onward
  <1>2. f \in {row[s].family, index[s].family}
    <2>1. row'[s].family \in {row[s].family, None, s}
      BY <1>1, Disjoint DEF RowStep, Made, Carried
    <2> QED
      BY <1>1, <2>1, Disjoint DEF RowStep, TokenStep
  <1>3. PICK n \in Pairs : Claimed(s, n) /\ pair[n].device = f
    BY <1>2 DEF Owned
  <1> QED
    BY <1>3, Disjoint DEF Onward, PairStep, Claimed

LEMMA NewStays ==
  ASSUME PairingIInv, Onward, Moved, NEW q \in Procs, proc'[q] = proc[q]
  PROVE  NewOK(q)'
  <1> DEFINE s == proc[q].id
  <1> SUFFICES ASSUME proc[q].pc \in {"put", "settle"} PROVE NewOK(q)'
    BY DEF NewOK
  <1>1. s \in begun /\ s \in Ids /\ Bare(s) /\ Alone(q)
    BY ProcFacts, BegunTyped DEF RegisterOK, Holds, NewOK
  <1>2. ~Tokened(s)
    BY <1>1 DEF Tokened, Doing, Alone, Bare
  <1>3. RowStep(s)
    BY <1>1 DEF Onward
  <1>4. Bare(s)'
    BY <1>1, <1>2, <1>3 DEF RowStep, TokenStep
  <1>5. proc[q].pc = "settle" => {row[s].family, index[s].family} \subseteq {None, proc[q].dev}
    BY ProcFacts DEF NewOK
  <1>6. proc[q].pc = "settle" => proc[q].dev \in Devices
    BY ProcFacts DEF PairingOK
  <1>7. proc[q].pc = "put" => row[s] = NoRow /\ index[s] = NoRow
    BY ProcFacts DEF NewOK
  <1>8. ASSUME NEW r \in Procs \ {q} PROVE proc'[r].id # s
    <2>1. proc[r].id # s
      BY <1>1 DEF Alone
    <2>2. ~(Live(s) /\ ~Provisioned(row[s]))
      <3>1. Live(s) => s = row[s].family \/ row[s].family \in Devices
        BY <1>1, RowFacts, Disjoint DEF RowOK, Copy, Live
      <3> QED
        BY <1>1, <1>5, <1>6, <1>7, <3>1, Disjoint DEF Live, Provisioned
    <2>3. proc'[r] = proc[r] \/ Turns(r)
      BY DEF Moved
    <2> HIDE DEF s
    <2> QED
      BY <1>1, <2>1, <2>2, <2>3, Disjoint DEF Turns, Bare
  <1>9. ~Made(s)
    BY <1>1, <1>2 DEF Made, Doing, Alone
  <1>10. proc[q].pc = "put" => row'[s] = NoRow /\ index'[s] = NoRow
    BY <1>3, <1>7, <1>9, Disjoint DEF RowStep, Carried, Live
  <1>11. proc[q].pc = "settle" => {row'[s].family, index'[s].family} \subseteq {None, proc[q].dev}
    BY <1>3, <1>5, <1>9, Disjoint DEF RowStep, Carried
  <1> QED
    BY <1>4, <1>8, <1>10, <1>11 DEF NewOK, Alone

LEMMA TokenStays ==
  ASSUME PairingIInv, Onward, NEW q \in Procs, proc'[q] = proc[q]
  PROVE  TokenOK(q)'
  <1> DEFINE s == proc[q].id
  <1>1. TokenOK(q) /\ RegisterOK(q)
    BY ProcFacts
  <1>2. proc[q].pc \in {"answer", "rotate", "adjudicate"} => s \in begun /\ s \in Ids
    BY <1>1, BegunTyped DEF RegisterOK, Holds
  <1>3. proc[q].pc \in {"answer", "rotate", "adjudicate"} => Owned(s)'
    BY <1>1, <1>2, OwnedStays DEF TokenOK
  <1>4. ASSUME proc[q].pc = "rotate", row'[s].family \in Devices PROVE row'[s].family = row[s].family
    <2>1. RowStep(s) /\ s \in begun /\ s \in Ids
      BY <1>2, <1>4 DEF Onward
    <2> QED
      BY <1>4, <2>1, Disjoint DEF RowStep, Made, Carried
  <1> QED
    BY <1>1, <1>3, <1>4 DEF TokenOK

LEMMA RegisterStays ==
  ASSUME PairingIInv, Onward, NEW q \in Procs, proc'[q] = proc[q]
  PROVE  RegisterOK(q)'
  <1> DEFINE s == proc[q].id
  <1>1. RegisterOK(q)
    BY ProcFacts
  <1>2. proc[q].pc \in Holds => s \in begun'
    BY <1>1 DEF RegisterOK, Onward
  <1>3. proc[q].pc \in Registers => row'[s].family \notin Devices
    <2> SUFFICES ASSUME proc[q].pc \in Registers PROVE row'[s].family \notin Devices
      OBVIOUS
    <2>1. s \in begun /\ s \in Ids /\ row[s].family \notin Devices
      BY <1>1, BegunTyped DEF RegisterOK, Holds, Registers
    <2>2. RowStep(s)
      BY <2>1 DEF Onward
    <2> QED
      BY <2>1, <2>2, Disjoint DEF RowStep, Made, Carried
  <1>4. proc[q].pc = "upsertPut" /\ proc[q].found.status = "active" =>
          device'[proc[q].dev].status # "none" /\ ~device'[proc[q].dev].paired
    BY <1>1 DEF RegisterOK, Registers, Onward, DeviceStep
  <1> QED
    BY <1>1, <1>2, <1>3, <1>4 DEF RegisterOK

LEMMA PairedStays ==
  ASSUME PairingIInv, Onward, NEW d \in Devices, device[d].paired
  PROVE  device'[d].paired
  <1>1. device[d].status # "none"
    BY DEF PairingIInv, DevicesInv, NoDevice
  <1> QED
    BY <1>1 DEF Onward, DeviceStep

LEMMA PairingStays ==
  ASSUME PairingIInv, Onward, Moved, NEW q \in Procs, proc'[q] = proc[q]
  PROVE  PairingOK(q)'
  <1>1. PairingOK(q)
    BY ProcFacts
  <1>2. ASSUME proc[q].pc = "bindPair"
        PROVE  /\ device'[proc[q].dev].paired
               /\ \A n \in Pairs : pair'[n].device # proc[q].dev
               /\ \A r \in Procs \ {q} : proc'[r].pc = "bindPair" => proc'[r].dev # proc[q].dev
    <2>1. /\ proc[q].dev \in Devices /\ device[proc[q].dev].paired
          /\ \A n \in Pairs : pair[n].device # proc[q].dev
          /\ \A r \in Procs \ {q} : proc[r].pc = "bindPair" => proc[r].dev # proc[q].dev
      BY <1>1, <1>2 DEF PairingOK
    <2>2. ASSUME NEW n \in Pairs, pair'[n].device = proc[q].dev PROVE FALSE
      <3>1. PairStep(n) /\ proc[q].dev # None
        BY <2>1, Disjoint DEF Onward
      <3>2. pair[n].device = None /\ pair'[n].device # None
        BY <2>1, <2>2, <3>1 DEF PairStep
      <3>3. PICK p \in Procs : /\ proc[p].pc = "bindPair" /\ proc[p].dev = pair'[n].device
                               /\ proc'[p].pc # "bindPair"
        BY <3>1, <3>2 DEF PairStep
      <3> QED
        BY <1>2, <2>1, <2>2, <3>3
    <2>3. ASSUME NEW r \in Procs \ {q}, proc'[r].pc = "bindPair" PROVE proc'[r].dev # proc[q].dev
      <3>1. CASE proc'[r] = proc[r]
        BY <2>1, <2>3, <3>1
      <3>2. CASE PairingOK(r)'
        BY <1>2, <2>3, <3>2 DEF PairingOK
      <3> QED
        BY <3>1, <3>2 DEF Moved, ProcOK
    <2> QED
      BY <2>1, <2>2, <2>3, PairedStays
  <1>3. proc[q].pc \in {"claim", "settle"} =>
          /\ pair'[proc[q].pair].device = proc[q].dev
          /\ pair'[proc[q].pair].status \in {"bound", "claimed"}
    BY <1>1, Disjoint DEF PairingOK, Onward, PairStep
  <1> QED
    BY <1>1, <1>2, <1>3 DEF PairingOK

LEMMA SweepStays ==
  ASSUME PairingIInv, Onward, NEW q \in Procs, proc'[q] = proc[q]
  PROVE  SweepOK(q)'
  <1> DEFINE r == proc[q]
  <1> SUFFICES ASSUME r.pc \in {"list", "delete"} PROVE SweepOK(q)'
    BY DEF SweepOK
  <1>1. CASE /\ r.dev = None /\ r.plan = <<"family">> /\ r.family \in Families /\ Concluded(r.family)
             /\ r.pc = "delete" => Dying(r.family, r.todo)
    <2>1. Dying(r.family, Ids)
      BY <1>1 DEF Dying
    <2>2. Dying(r.family, Ids)' /\ (r.pc = "delete" => Dying(r.family, r.todo)')
      BY <1>1, <2>1, DyingStays
    <2>3. Concluded(r.family)'
      BY <2>2 DEF Dying
    <2> QED
      BY <1>1, <2>2, <2>3 DEF SweepOK
  <1>2. CASE /\ r.dev = None /\ r.plan = <<"all">> /\ r.old \subseteq stale
             /\ r.pc = "delete" => Out(r.old, r.todo)
    BY <1>2, OutStays DEF SweepOK, Onward
  <1>3. CASE /\ r.dev \in Devices /\ r.plan \in Plans /\ device[r.dev].status = "revoked"
             /\ r.pc = "delete" /\ r.plan = <<"device">> => Gone(r.dev, r.todo)
    BY <1>3, GoneStays DEF SweepOK, Onward, DeviceStep
  <1> QED
    BY <1>1, <1>2, <1>3, ProcFacts DEF SweepOK

LEMMA AllKept ==
  ASSUME PairingIInv, Onward, Moved
  PROVE  \A q \in Procs : ProcOK(q)'
  <1> SUFFICES ASSUME NEW q \in Procs, proc'[q] = proc[q] PROVE ProcOK(q)'
    BY DEF Moved
  <1> QED
    BY NewStays, TokenStays, RegisterStays, PairingStays, SweepStays DEF ProcOK

\* What has ended stays ended; what is added to it has ended before the step.
LEMMA EndStays ==
  ASSUME PairingIInv, Onward,
         \A f \in ended' \ ended : f \in Families /\ Dying(f, {}),
         \A d \in swept' \ swept : d \in Devices /\ Gone(d, {}),
         NEW S, Out(S, {}), allOut' \subseteq allOut \cup S
  PROVE  EndInv'
  <1>1. ended \subseteq Families /\ swept \subseteq Devices /\ EndInv
    BY DEF PairingIInv, TypeOK, SessionsTypeOK
  <1>2. \A f \in ended' : Dying(f, {})'
    <2>1. \A f \in ended' : f \in Families /\ Dying(f, {})
      BY <1>1 DEF EndInv
    <2> QED
      BY <2>1, DyingStays
  <1>3. \A d \in swept' : Gone(d, {})'
    <2>1. \A d \in swept' : d \in Devices /\ Gone(d, {})
      BY <1>1 DEF EndInv
    <2> QED
      BY <2>1, GoneStays
  <1>4. Out(allOut, {})'
    <2> DEFINE T == allOut \cup S
    <2>1. Out(T, {})
      BY <1>1 DEF EndInv, Out
    <2>2. \A x : Out(T, {}) /\ x = T => Out(x, {})
      OBVIOUS
    <2>3. PICK x : x = T
      OBVIOUS
    <2>4. Out(x, {})'
      BY <2>1, <2>3, OutStays
    <2>5. allOut' \subseteq x
      BY <2>3
    <2> QED
      BY <2>4, <2>5 DEF Out
  <1> QED
    BY <1>2, <1>3, <1>4 DEF EndInv

-----------------------------------------------------------------------------
(***************************************************************************)
(* Assembling a step.                                                      *)
(***************************************************************************)
LEMMA RowsStay ==
  ASSUME PairingIInv, Onward, Moved, UNCHANGED <<begun, exchanges>>,
         \A s \in Ids : row'[s] \in {row[s], NoRow}
                          \/ (Carried(s) /\ Copy(s, row'[s]) /\ row'[s].cur = row[s].cur),
         \A h \in held' \ held : h[1] \in Ids /\ Doing("answer", h[1])
  PROVE  RowsInv'
  <1>1. \A r \in Procs : ProcOK(r)'
    BY AllKept
  <1>2. \A r \in Procs : proc'[r].id \in begun \cup {None}
                         /\ (proc'[r].pc \in Holds => proc'[r].id \in begun)
    BY <1>1 DEF ProcOK, RegisterOK
  <1>3. ASSUME NEW s \in Ids PROVE RowOK(s)'
    <2>1. RowOK(s) /\ RowStep(s) /\ Of(s)' = Of(s)
      BY RowFacts DEF Onward, Of
    <2>2. Copy(s, row'[s]) /\ Copy(s, index'[s])
      BY <2>1 DEF RowOK, RowStep, Copy
    <2>3. Live(s)' => Live(s) /\ row'[s].family = row[s].family /\ row'[s].cur = row[s].cur
      BY Disjoint DEF Carried, Live
    <2>4. /\ Live(s)' /\ index'[s].cur # 0 => index'[s].family = row'[s].family
          /\ Live(s)' => row'[s].cur = 1 + Cardinality(Of(s)')
      BY <2>1, <2>3 DEF RowOK, RowStep, Live
    <2>5. \A h \in held' : h[1] = s => s \in begun /\ Owned(s)
      BY <2>1, TokenedFacts DEF RowOK, Tokened
    <2>6. Tokened(s)' => s \in begun
      BY <1>2, <2>5 DEF Tokened, Doing, Holds
    <2>7. Live(s)' \/ index'[s].cur # 0 => s \in begun
      BY <2>1, <2>3 DEF RowOK, RowStep, Live
    <2>8. s \notin begun => Bare(s)' /\ \A p \in Procs : proc'[p].id # s
      BY <1>2, <2>1, <2>5, Disjoint DEF RowOK, Bare
    <2>9. (\E h \in held' : h[1] = s) => Owned(s)'
      BY <2>5, OwnedStays
    <2> QED
      BY <2>2, <2>4, <2>6, <2>7, <2>8, <2>9 DEF RowOK
  <1>4. /\ IsFiniteSet(exchanges)' /\ ExchangedOnce'
        /\ \A e \in exchanges' : e.from <= Cardinality(Of(e.id)')
    BY DEF PairingIInv, RowsInv, ExchangedOnce, Of
  <1> QED
    BY <1>3, <1>4 DEF RowsInv

LEMMA DevicesStay ==
  ASSUME PairingIInv, UNCHANGED <<device, pair, granted>>
  PROVE  /\ DevicesInv' /\ \A d \in Devices : DeviceStep(d)
         /\ \A n \in Pairs : PairStep(n)
  BY DEF PairingIInv, DevicesInv, DeviceStep, PairStep

LEMMA EndRests ==
  ASSUME PairingIInv, Onward, UNCHANGED history
  PROVE  EndInv'
  <1>1. Out({}, {})
    BY DEF Out
  <1> QED
    BY <1>1, EndStays DEF history

LEMMA Together ==
  ASSUME PairingIInv, TypeOK', Onward, Moved, RowsInv', DevicesInv', EndInv'
  PROVE  PairingIInv'
  BY AllKept DEF PairingIInv

\* p moves, starts no session and gets no token that its session had not.
QuietMove(p) ==
  LET r == proc'[p] IN
  /\ Turns(p) /\ \A q \in Procs \ {p} : proc'[q] = proc[q]
  /\ r.pc # "put"
  /\ r.pc \in {"answer", "rotate"} => Tokened(r.id)
  /\ r.pc = "rotate" => Doing("rotate", r.id) \/ r.id \notin stale

LEMMA TokensQuiet ==
  ASSUME PairingIInv, UNCHANGED <<held, exchanges>>, NEW p \in Procs, QuietMove(p), NEW s \in Ids
  PROVE  TokenStep(s)
  BY DEF TokenStep, QuietMove, Tokened, Doing, Bare, Of

LEMMA TokensStill ==
  ASSUME UNCHANGED <<held, exchanges, proc>>, NEW s \in Ids
  PROVE  TokenStep(s)
  BY DEF TokenStep, Tokened, Doing, Bare, Of

RowsTyped ==
  /\ row \in [Ids -> Row] /\ index \in [Ids -> Row]
  /\ begun \subseteq Ids /\ stale \subseteq begun
TokensTyped ==
  /\ held \subseteq Ids \X (1..MaxTokens)
  /\ exchanges \subseteq [id : Ids, from : 1..MaxTokens, to : 1..MaxTokens]
EndTyped == ended \subseteq Families /\ swept \subseteq Devices /\ allOut \subseteq Ids
DevicesTyped == device \in [Devices -> Device]
ProcsTyped == proc \in [Procs -> Proc]
PairsTyped ==
  /\ pair \in [Pairs -> [status : {"none", "pending", "bound", "claimed", "failed"},
                         device : Devices \cup {None}, codes : Nat, expired : BOOLEAN]]
  /\ \A n \in Pairs : pair[n].status \in {"bound", "claimed"} => pair[n].device # None
  /\ granted \in [Pairs -> SUBSET Ids]
  /\ lost \subseteq Pairs
TypeParts ==
  RowsTyped /\ TokensTyped /\ EndTyped /\ DevicesTyped /\ ProcsTyped /\ PairsTyped

LEMMA TypeSplit == TypeOK => TypeParts
  BY DEF TypeOK, SessionsTypeOK, TypeParts, RowsTyped, TokensTyped, EndTyped, DevicesTyped,
         ProcsTyped, PairsTyped

LEMMA TypeJoin == TypeParts' => TypeOK'
  BY DEF TypeOK, SessionsTypeOK, TypeParts, RowsTyped, TokensTyped, EndTyped, DevicesTyped,
         ProcsTyped, PairsTyped

LEMMA InvTyped == PairingIInv => TypeParts
  BY TypeSplit DEF PairingIInv

\* A step that changes nothing but what p does.
LEMMA QuietStep ==
  ASSUME PairingIInv, NEW p \in Procs, UNCHANGED <<rows, device, tokens, history, pairing>>,
         ProcsTyped', QuietMove(p), ProcOK(p)'
  PROVE  PairingIInv'
  <1>1. \A s \in Ids : TokenStep(s)
    BY TokensQuiet DEF tokens
  <1>2. Onward
    BY <1>1, DevicesStay DEF Onward, RowStep, rows, pairing
  <1>3. Moved
    BY DEF Moved, QuietMove
  <1>4. RowsInv' /\ DevicesInv' /\ EndInv'
    BY <1>2, <1>3, RowsStay, DevicesStay, EndRests DEF rows, tokens, pairing
  <1>5. TypeParts'
    BY InvTyped DEF TypeParts, RowsTyped, TokensTyped, EndTyped, DevicesTyped, PairsTyped, rows,
                    tokens, history, pairing
  <1> QED
    BY <1>2, <1>3, <1>4, <1>5, TypeJoin, Together

-----------------------------------------------------------------------------
(***************************************************************************)
(* How an invocation moves on.                                             *)
(***************************************************************************)
LEMMA SetProc ==
  ASSUME ProcsTyped, NEW p \in Procs, NEW k, proc' = [proc EXCEPT ![p] = k]
  PROVE  /\ proc'[p] = k /\ \A q \in Procs \ {p} : proc'[q] = proc[q]
         /\ k \in Proc => ProcsTyped'
  BY DEF ProcsTyped

LEMMA IdleTyped ==
  /\ Idle \in Proc /\ NoDevice \in Device
  /\ Idle.pc = "idle" /\ Idle.id = None /\ Idle.dev = None
  BY DEF Idle, Proc, NoDevice, Device

LEMMA Returns ==
  ASSUME PairingIInv, NEW p \in Procs, Return(p)
  PROVE  ProcsTyped' /\ QuietMove(p) /\ ProcOK(p)' /\ proc'[p] = Idle
  <1>1. ProcsTyped' /\ proc'[p] = Idle /\ \A q \in Procs \ {p} : proc'[q] = proc[q]
    BY InvTyped, SetProc, IdleTyped DEF TypeParts, Return, Become
  <1>2. QuietMove(p)
    BY <1>1, IdleTyped DEF QuietMove, Turns
  <1>3. NewOK(p)' /\ TokenOK(p)' /\ PairingOK(p)' /\ SweepOK(p)'
    BY <1>1, IdleTyped DEF NewOK, TokenOK, PairingOK, SweepOK
  <1>4. RegisterOK(p)'
    BY <1>1, IdleTyped DEF RegisterOK, Holds, Registers
  <1> QED
    BY <1>1, <1>2, <1>3, <1>4 DEF ProcOK


\* p turns to k, and no other invocation moves.
LEMMA Becomes ==
  ASSUME PairingIInv, NEW p \in Procs, NEW k \in Proc, proc' = [proc EXCEPT ![p] = k]
  PROVE  ProcsTyped' /\ proc'[p] = k /\ \A q \in Procs \ {p} : proc'[q] = proc[q]
  BY InvTyped, SetProc DEF TypeParts

PcNames == {"idle", "put", "rotate", "adjudicate", "answer", "drop", "list", "delete", "upsertRead",
            "upsertPut", "bindRead", "bind", "detach", "flip", "create", "bindPair", "count",
            "recount", "cancel", "claim", "settle"}

LEMMA PcTyped ==
  ASSUME NEW r \in Proc, NEW c \in PcNames
  PROVE  [r EXCEPT !.pc = c] \in Proc
  BY DEF Proc, PcNames

LEMMA Goes ==
  ASSUME PairingIInv, NEW p \in Procs, NEW c \in PcNames, GoTo(p, c), c \notin {"put", "answer", "rotate"}
  PROVE  /\ proc'[p] = [proc[p] EXCEPT !.pc = c] /\ ProcsTyped' /\ QuietMove(p)
         /\ proc'[p].pc = c /\ \A q \in Procs \ {p} : proc'[q] = proc[q]
  <1> DEFINE k == [proc[p] EXCEPT !.pc = c]
  <1>1. proc[p] \in Proc /\ proc \in [Procs -> Proc]
    BY ProcFacts, InvTyped DEF TypeParts, ProcsTyped
  <1>2. k \in Proc
    BY <1>1, PcTyped
  <1>6. k.pc = c /\ k.id = proc[p].id
    BY <1>1 DEF Proc
  <1>3. proc' = [proc EXCEPT ![p] = k]
    BY <1>1 DEF GoTo
  <1> HIDE DEF k
  <1>4. ProcsTyped' /\ proc'[p] = k /\ \A q \in Procs \ {p} : proc'[q] = proc[q]
    BY <1>2, <1>3, SetProc, InvTyped DEF TypeParts
  <1>5. QuietMove(p)
    BY <1>6, <1>4 DEF QuietMove, Turns
  <1> QED
    BY <1>6, <1>4, <1>5 DEF k


-----------------------------------------------------------------------------
(***************************************************************************)
(* The steps that change nothing but what an invocation does.              *)
(***************************************************************************)
Rests == UNCHANGED <<rows, device, tokens, history, pairing>>

\* Any family that a copy of a row names can be ended.
LEMMA CopyFamily ==
  ASSUME PairingIInv, NEW s \in Ids, NEW r, r \in {row[s], index[s]}, r.cur # 0, s \in begun,
         ~Doing("put", s), Owned(s)
  PROVE  r.family \in Families /\ Concluded(r.family)
  <1>1. r.family = s \/ (r.family \in Devices /\ r.device = r.family)
    BY RowFacts, Disjoint DEF RowOK, Copy
  <1>2. r.family \in Families
    BY <1>1 DEF Families
  <1>3. r.family \in Ids => r.family \in begun /\ ~Doing("put", r.family)
    BY <1>1, Disjoint
  <1>4. r.family \in Devices => \E n \in Pairs : pair[n].device = r.family /\ pair[n].status = "claimed"
    BY DEF Owned, Claimed
  <1> QED
    BY <1>2, <1>3, <1>4 DEF Concluded

LEMMA PlansTyped ==
  /\ <<"family">> \in Seq(Sweeps) /\ <<"all">> \in Seq(Sweeps) /\ <<"device">> \in Seq(Sweeps)
  /\ <<"device", "device">> \in Seq(Sweeps) /\ <<"family", "device">> \in Seq(Sweeps)
  /\ <<"device", "family", "device">> \in Seq(Sweeps)
  BY DEF Sweeps

LEMMA EndsFamily ==
  ASSUME PairingIInv, NEW p \in Procs, NEW f \in Families, Concluded(f), EndFamily(p, f), Rests
  PROVE  PairingIInv'
  <1> DEFINE k == [Idle EXCEPT !.pc = "list", !.plan = <<"family">>, !.family = f]
  <1>1. k \in Proc /\ k.pc = "list" /\ k.plan = <<"family">> /\ k.family = f /\ k.dev = None
                   /\ k.id = None
    BY IdleTyped, PlansTyped DEF Proc, Idle
  <1>2. proc' = [proc EXCEPT ![p] = k]
    BY DEF EndFamily, Become
  <1> HIDE DEF k
  <1>3. ProcsTyped' /\ proc'[p] = k /\ \A q \in Procs \ {p} : proc'[q] = proc[q]
    BY <1>1, <1>2, Becomes
  <1>4. QuietMove(p)
    BY <1>1, <1>3 DEF QuietMove, Turns
  <1>5. NewOK(p)' /\ TokenOK(p)' /\ PairingOK(p)'
    BY <1>1, <1>3 DEF NewOK, TokenOK, PairingOK
  <1>6. RegisterOK(p)'
    BY <1>1, <1>3 DEF RegisterOK, Holds, Registers
  <1>7. Concluded(f)'
    BY <1>1, <1>3 DEF Concluded, Doing, Rests, rows, pairing
  <1>8. SweepOK(p)'
    BY <1>1, <1>3, <1>7 DEF SweepOK
  <1>9. ProcOK(p)'
    BY <1>5, <1>6, <1>8 DEF ProcOK
  <1> QED
    BY <1>3, <1>4, <1>9, QuietStep DEF Rests

LEMMA DropsSession ==
  ASSUME PairingIInv, NEW p \in Procs, NEW s \in Ids, s \in begun,
         s = proc[p].id \/ \E h \in held : h[1] = s, DropSession(p, s), Rests
  PROVE  PairingIInv'
  <1> DEFINE k == [Idle EXCEPT !.pc = "drop", !.id = s]
  <1>1. k \in Proc /\ k.pc = "drop" /\ k.id = s
    BY IdleTyped DEF Proc, Idle
  <1>2. proc' = [proc EXCEPT ![p] = k]
    BY DEF DropSession, Become
  <1> HIDE DEF k
  <1>3. ProcsTyped' /\ proc'[p] = k /\ \A q \in Procs \ {p} : proc'[q] = proc[q]
    BY <1>1, <1>2, Becomes
  <1>4. QuietMove(p)
    BY <1>1, <1>3 DEF QuietMove, Turns
  <1>5. NewOK(p)' /\ TokenOK(p)' /\ PairingOK(p)' /\ SweepOK(p)'
    BY <1>1, <1>3 DEF NewOK, TokenOK, PairingOK, SweepOK
  <1>6. RegisterOK(p)'
    BY <1>1, <1>3 DEF RegisterOK, Holds, Registers, Rests, rows
  <1>7. ProcOK(p)'
    BY <1>5, <1>6 DEF ProcOK
  <1> QED
    BY <1>3, <1>4, <1>7, QuietStep DEF Rests

LEMMA RefreshKeeps ==
  ASSUME PairingIInv, NEW p \in Procs, NEW s \in Ids, NEW t \in 1..MaxTokens, Refresh(p, s, t),
         UNCHANGED pairing
  PROVE  PairingIInv'
  <1> DEFINE c == index[s]
  <1>1. Rests
    BY DEF Rests, Refresh
  <1>2. (\E h \in held : h[1] = s) /\ c.cur # 0
    BY DEF Refresh
  <1>3. Tokened(s)
    BY <1>2 DEF Tokened
  <1>4. s \in begun /\ ~Doing("put", s) /\ Owned(s)
    BY <1>3, TokenedFacts
  <1>5. CASE s \in stale /\ DropSession(p, s)
    BY <1>1, <1>2, <1>4, <1>5, DropsSession
  <1>6. CASE EndFamily(p, c.family)
    <2>1. c.family \in Families /\ Concluded(c.family)
      BY <1>2, <1>4, CopyFamily
    <2> QED
      BY <1>1, <1>6, <2>1, EndsFamily
  <1>7. CASE DropSession(p, s)
    BY <1>1, <1>2, <1>4, <1>7, DropsSession
  <1>8. CASE /\ s \notin stale
             /\ Become(p, [Idle EXCEPT !.pc = "rotate", !.id = s, !.tok = t, !.dev = c.device])
    <2> DEFINE k == [Idle EXCEPT !.pc = "rotate", !.id = s, !.tok = t, !.dev = c.device]
    <2>1. c.device \in Devices \cup {None} /\ t \in 0..MaxTokens /\ t > 0
      BY RowFacts, PairingAssumption DEF Row
    <2>2. k \in Proc /\ k.pc = "rotate" /\ k.id = s /\ k.tok = t /\ k.dev = c.device
      BY <2>1, IdleTyped DEF Proc, Idle
    <2>3. proc' = [proc EXCEPT ![p] = k]
      BY <1>8 DEF Become
    <2> HIDE DEF k
    <2>4. ProcsTyped' /\ proc'[p] = k /\ \A q \in Procs \ {p} : proc'[q] = proc[q]
      BY <2>2, <2>3, Becomes
    <2>5. QuietMove(p)
      BY <1>2, <1>3, <1>8, <2>2, <2>4 DEF QuietMove, Turns
    <2>6. NewOK(p)' /\ PairingOK(p)' /\ SweepOK(p)'
      BY <2>2, <2>4 DEF NewOK, PairingOK, SweepOK
    <2>7. RegisterOK(p)'
      BY <1>1, <1>4, <2>2, <2>4 DEF RegisterOK, Holds, Registers, Rests, rows
    <2>8. Owned(s)'
      BY <1>1, <1>4 DEF Owned, Claimed, Rests, rows, pairing
    <2>9. row[s].family \in Devices => c.device = row[s].family
      <3>1. RowOK(s) /\ (~Live(s) => row[s] = NoRow)
        BY RowFacts
      <3> QED
        BY <1>2, <3>1, Disjoint DEF RowOK, Copy
    <2>10. TokenOK(p)'
      BY <1>1, <2>1, <2>2, <2>4, <2>8, <2>9 DEF TokenOK, Rests, rows
    <2>11. ProcOK(p)'
      BY <2>6, <2>7, <2>10 DEF ProcOK
    <2> QED
      BY <1>1, <2>4, <2>5, <2>11, QuietStep DEF Rests
  <1> QED
    BY <1>5, <1>6, <1>7, <1>8 DEF Refresh


LEMMA GivesUp ==
  ASSUME PairingIInv, NEW p \in Procs, Return(p), Rests
  PROVE  PairingIInv'
  BY Returns, QuietStep DEF Rests

LEMMA AdjudicateKeeps ==
  ASSUME PairingIInv, NEW p \in Procs, Adjudicate(p), UNCHANGED pairing
  PROVE  PairingIInv'
  <1> DEFINE s == proc[p].id
  <1>1. Rests
    BY DEF Rests, Adjudicate
  <1>2. s \in begun /\ s \in Ids /\ Owned(s)
    BY ProcFacts, BegunTyped DEF Adjudicate, RegisterOK, Holds, TokenOK
  <1>3. CASE row[s].prev # 0 /\ EndFamily(p, row[s].family)
    <2>1. row[s].cur # 0
      BY <1>2, <1>3, RowFacts DEF Live, NoRow
    <2>2. ASSUME NEW q \in Procs, proc[q].pc = "put", proc[q].id = s PROVE FALSE
      BY <2>1, <2>2, ProcFacts, Disjoint DEF NewOK
    <2>3. row[s].family \in Families /\ Concluded(row[s].family)
      BY <1>2, <2>1, <2>2, CopyFamily DEF Doing
    <2> QED
      BY <1>1, <1>3, <2>3, EndsFamily
  <1>4. CASE Return(p)
    BY <1>1, <1>4, GivesUp
  <1> QED
    BY <1>3, <1>4 DEF Adjudicate

LEMMA ListKeeps ==
  ASSUME PairingIInv, NEW p \in Procs, List(p), UNCHANGED pairing
  PROVE  PairingIInv'
  <1> DEFINE r == proc[p]
  <1>0. PICK T : T = {s \in Ids : Live(s) /\ Matches(p, s)}
    OBVIOUS
  <1> DEFINE k == [r EXCEPT !.pc = "delete", !.todo = T]
  <1>1. Rests
    BY DEF Rests, List
  <1>2. r \in Proc /\ proc \in [Procs -> Proc] /\ r.pc = "list" /\ SweepOK(p) /\ RegisterOK(p)
    BY ProcFacts, InvTyped DEF TypeParts, ProcsTyped, List
  <1>3. T \in SUBSET Ids
    BY <1>0
  <1>4. k \in Proc /\ k.pc = "delete" /\ k.todo = T /\ k.id = r.id /\ k.dev = r.dev
        /\ k.plan = r.plan /\ k.family = r.family /\ k.old = r.old
    BY <1>2, <1>3 DEF Proc
  <1>5. proc' = [proc EXCEPT ![p] = k]
    BY <1>0, <1>2 DEF List
  <1>6. r.id = None
    BY <1>2 DEF RegisterOK, Holds
  <1> HIDE DEF k
  <1>7. ProcsTyped' /\ proc'[p] = k /\ \A q \in Procs \ {p} : proc'[q] = proc[q]
    BY <1>4, <1>5, Becomes
  <1>8. QuietMove(p)
    BY <1>4, <1>6, <1>7 DEF QuietMove, Turns
  <1>9. NewOK(p)' /\ TokenOK(p)' /\ PairingOK(p)'
    BY <1>4, <1>7 DEF NewOK, TokenOK, PairingOK
  <1>10. RegisterOK(p)'
    BY <1>4, <1>6, <1>7 DEF RegisterOK, Holds, Registers
  <1>11. \A s \in Ids : row'[s] = row[s] /\ (row[s] # NoRow => Live(s))
    BY <1>1, RowFacts DEF Rests, rows
  <1>12. SweepOK(p)'
    <2>1. CASE r.dev = None /\ r.plan = <<"family">> /\ r.family \in Families /\ Concluded(r.family)
      <3>1. PICK f : f = r.family
        OBVIOUS
      <3>2. \A s \in Ids \ T : row[s].family # f
        <4>1. Head(r.plan) = "family"
          BY <2>1
        <4>2. \A s \in Ids \ T : Live(s) => row[s].family # f
          BY <1>0, <3>1, <4>1 DEF Matches
        <4> QED
          BY <2>1, <1>11, <3>1, <4>2, Disjoint DEF Families
      <3>3. Concluded(f)'
        BY <2>1, <3>1, <1>1, <1>4, <1>7 DEF Concluded, Doing, Rests, rows, pairing
      <3>4. Dying(f, T)'
        BY <1>11, <3>2, <3>3 DEF Dying
      <3> QED
        BY <2>1, <1>4, <1>7, <3>1, <3>3, <3>4 DEF SweepOK
    <2>2. CASE r.dev = None /\ r.plan = <<"all">> /\ r.old \subseteq stale
      <3>1. PICK S : S = r.old
        OBVIOUS
      <3>2. \A s \in Ids \ T : ~Live(s)
        <4>1. Head(r.plan) = "all"
          BY <2>2
        <4> QED
          BY <1>0, <4>1 DEF Matches
      <3>3. Out(S, T)'
        BY <2>2, <1>1, <1>11, <3>1, <3>2, BegunTyped DEF Out, Live, Rests, rows
      <3> QED
        BY <2>2, <1>1, <1>4, <1>7, <3>1, <3>3 DEF SweepOK, Rests, rows
    <2>3. CASE r.dev \in Devices /\ r.plan \in Plans /\ device[r.dev].status = "revoked"
      <3>1. PICK d : d = r.dev
        OBVIOUS
      <3>2. ASSUME r.plan = <<"device">> PROVE Gone(d, T)'
        <4>1. Head(r.plan) = "device"
          BY <3>2
        <4>2. \A s \in Ids \ T : Live(s) => row[s].device # d
          BY <1>0, <3>1, <4>1 DEF Matches
        <4>3. \A s \in Ids \ T : row[s].device # d
          BY <2>3, <1>11, <3>1, <4>2, Disjoint
        <4> QED
          BY <2>3, <1>1, <1>11, <3>1, <4>3 DEF Gone, Rests
      <3> QED
        BY <2>3, <1>1, <1>4, <1>7, <3>1, <3>2 DEF SweepOK, Rests
    <2> QED
      BY <1>2, <2>1, <2>2, <2>3 DEF SweepOK
  <1>13. ProcOK(p)'
    BY <1>9, <1>10, <1>12 DEF ProcOK
  <1> QED
    BY <1>1, <1>7, <1>8, <1>13, QuietStep DEF Rests

LEMMA PlanTails ==
  ASSUME NEW pl \in Plans
  PROVE  /\ pl \in Seq(Sweeps) /\ pl # <<>>
         /\ Len(pl) > 1 => Tail(pl) \in Plans
         /\ ~(Len(pl) > 1) => pl = <<"device">>
  <1>1. CASE pl = <<"device">>
    BY <1>1, PlansTyped
  <1>2. CASE pl = <<"device", "device">>
    <2>1. Len(pl) = 2 /\ Tail(pl) = <<"device">>
      BY <1>2
    <2> QED
      BY <1>2, <2>1, PlansTyped DEF Plans
  <1>3. CASE pl = <<"family", "device">>
    <2>1. Len(pl) = 2 /\ Tail(pl) = <<"device">>
      BY <1>3
    <2> QED
      BY <1>3, <2>1, PlansTyped DEF Plans
  <1>4. CASE pl = <<"device", "family", "device">>
    <2>1. Len(pl) = 3 /\ Tail(pl) = <<"family", "device">>
      BY <1>4
    <2> QED
      BY <1>4, <2>1, PlansTyped DEF Plans
  <1> QED
    BY <1>1, <1>2, <1>3, <1>4 DEF Plans

LEMMA OnePlans ==
  ASSUME NEW pl, pl = <<"family">> \/ pl = <<"all">>
  PROVE  ~(Len(pl) > 1)
  <1>1. Len(pl) = 1
    <2>1. CASE pl = <<"family">>
      BY <2>1
    <2>2. CASE pl = <<"all">>
      BY <2>2
    <2> QED
      BY <2>1, <2>2
  <1> QED
    BY <1>1

\* A revocation goes on to its next sweep.
LEMMA NextSweep ==
  ASSUME PairingIInv, NEW p \in Procs, proc[p].pc \in {"list", "delete"}, proc[p].dev # None,
         Len(proc[p].plan) > 1, Rests,
         proc' = [proc EXCEPT ![p].pc = "list", ![p].plan = Tail(@), ![p].todo = {}]
  PROVE  PairingIInv'
  <1> DEFINE r == proc[p]
             k == [r EXCEPT !.pc = "list", !.plan = Tail(@), !.todo = {}]
  <1>1. r \in Proc /\ proc \in [Procs -> Proc] /\ SweepOK(p) /\ RegisterOK(p)
    BY ProcFacts, InvTyped DEF TypeParts, ProcsTyped
  <1>2. r.dev \in Devices /\ r.plan \in Plans /\ device[r.dev].status = "revoked"
    BY <1>1 DEF SweepOK
  <1>3. Tail(r.plan) \in Plans /\ Tail(r.plan) \in Seq(Sweeps)
    BY <1>2, PlanTails
  <1>4. k \in Proc /\ k.pc = "list" /\ k.id = r.id /\ k.dev = r.dev /\ k.plan = Tail(r.plan)
    BY <1>1, <1>3 DEF Proc
  <1>5. proc' = [proc EXCEPT ![p] = k]
    BY <1>1
  <1>6. r.id = None
    BY <1>1 DEF RegisterOK, Holds
  <1> HIDE DEF k
  <1>7. ProcsTyped' /\ proc'[p] = k /\ \A q \in Procs \ {p} : proc'[q] = proc[q]
    BY <1>4, <1>5, Becomes
  <1>8. QuietMove(p)
    BY <1>4, <1>6, <1>7 DEF QuietMove, Turns
  <1>9. NewOK(p)' /\ TokenOK(p)' /\ PairingOK(p)'
    BY <1>4, <1>7 DEF NewOK, TokenOK, PairingOK
  <1>10. RegisterOK(p)'
    BY <1>4, <1>6, <1>7 DEF RegisterOK, Holds, Registers
  <1>11. SweepOK(p)'
    BY <1>2, <1>3, <1>4, <1>7 DEF SweepOK, Rests
  <1>12. ProcOK(p)'
    BY <1>9, <1>10, <1>11 DEF ProcOK
  <1> QED
    BY <1>7, <1>8, <1>12, QuietStep DEF Rests

LEMMA SweepFailsKeeps ==
  ASSUME PairingIInv, NEW p \in Procs, SweepFails(p), UNCHANGED pairing
  PROVE  PairingIInv'
  <1>1. Rests
    BY DEF Rests, SweepFails
  <1>2. CASE /\ Kind(p) = "revoke" /\ Len(proc[p].plan) > 1
             /\ proc' = [proc EXCEPT ![p].pc = "list", ![p].plan = Tail(@), ![p].todo = {}]
    <2>1. proc[p].pc \in {"list", "delete"}
      BY DEF SweepFails
    <2>2. proc[p].dev # None
      <3>1. proc[p].dev = None => proc[p].plan \in {<<"family">>, <<"all">>}
        BY <2>1, ProcFacts, Disjoint DEF SweepOK
      <3> QED
        BY <1>2, <3>1 DEF Kind
    <2> QED
      BY <1>1, <1>2, <2>1, <2>2, NextSweep
  <1>3. CASE Return(p)
    BY <1>1, <1>3, GivesUp
  <1> QED
    BY <1>2, <1>3 DEF SweepFails


\* A registration goes on with the session, the device and the family it has.
LEMMA Registering ==
  ASSUME PairingIInv, NEW p \in Procs, proc[p].pc \in Registers, NEW k \in Proc,
         k.pc \in {"upsertRead", "bindRead", "bind", "detach"},
         k.id = proc[p].id, k.dev = proc[p].dev, k.family = proc[p].family,
         proc' = [proc EXCEPT ![p] = k],
         UNCHANGED begun, \A s \in Ids : row'[s].family = row[s].family
  PROVE  ProcsTyped' /\ QuietMove(p) /\ ProcOK(p)'
  <1>1. ProcsTyped' /\ proc'[p] = k /\ \A q \in Procs \ {p} : proc'[q] = proc[q]
    BY Becomes
  <1>2. QuietMove(p)
    BY <1>1 DEF QuietMove, Turns
  <1>3. NewOK(p)' /\ TokenOK(p)' /\ PairingOK(p)' /\ SweepOK(p)'
    BY <1>1 DEF NewOK, TokenOK, PairingOK, SweepOK
  <1>4. k.id \in begun /\ k.id \in Ids /\ k.dev \in Devices /\ k.family \in Ids
        /\ row[k.id].family \notin Devices
    BY ProcFacts, BegunTyped DEF RegisterOK, Registers, Holds
  <1>5. row'[k.id].family \notin Devices
    BY <1>4
  <1>6. RegisterOK(p)'
    BY <1>1, <1>4, <1>5 DEF RegisterOK, Registers, Holds
  <1> QED
    BY <1>1, <1>2, <1>3, <1>6 DEF ProcOK

\* The last step of a registration that changes no session's family.
LEMMA ToDetach ==
  ASSUME PairingIInv, NEW p \in Procs, proc[p].pc \in Registers, GoTo(p, "detach"),
         UNCHANGED begun, \A s \in Ids : row'[s].family = row[s].family
  PROVE  ProcsTyped' /\ QuietMove(p) /\ ProcOK(p)'
  <1> DEFINE k == [proc[p] EXCEPT !.pc = "detach"]
  <1>1. proc[p] \in Proc /\ proc \in [Procs -> Proc]
    BY ProcFacts, InvTyped DEF TypeParts, ProcsTyped
  <1>2. k \in Proc /\ k.pc = "detach" /\ k.id = proc[p].id /\ k.dev = proc[p].dev
        /\ k.family = proc[p].family
    BY <1>1 DEF Proc
  <1>3. proc' = [proc EXCEPT ![p] = k]
    BY <1>1 DEF GoTo
  <1> HIDE DEF k
  <1> QED
    BY <1>2, <1>3, Registering

LEMMA RegisterKeeps ==
  ASSUME PairingIInv, NEW p \in Procs, NEW s \in Ids, NEW d \in Devices, Register(p, s, d),
         UNCHANGED pairing
  PROVE  PairingIInv'
  <1> DEFINE k == [Idle EXCEPT !.pc = "upsertRead", !.id = s, !.dev = d, !.left = row[s].device,
                               !.family = row[s].family]
  <1>1. Rests /\ Live(s) /\ ~Provisioned(row[s])
    BY DEF Rests, Register
  <1>2. RowOK(s) /\ row[s] \in Row
    BY RowFacts
  <1>3. row[s].family = s /\ s \in begun /\ row[s].device \in Devices \cup {None}
    BY <1>1, <1>2, Disjoint DEF RowOK, Copy, Live, Provisioned, Row
  <1>4. k \in Proc /\ k.pc = "upsertRead" /\ k.id = s /\ k.dev = d /\ k.family = s
    BY <1>3, IdleTyped DEF Proc, Families, Idle
  <1>5. proc' = [proc EXCEPT ![p] = k]
    BY DEF Register, Become
  <1> HIDE DEF k
  <1>6. ProcsTyped' /\ proc'[p] = k /\ \A q \in Procs \ {p} : proc'[q] = proc[q]
    BY <1>4, <1>5, Becomes
  <1>7. QuietMove(p)
    BY <1>1, <1>4, <1>6 DEF QuietMove, Turns
  <1>8. NewOK(p)' /\ TokenOK(p)' /\ PairingOK(p)' /\ SweepOK(p)'
    BY <1>4, <1>6 DEF NewOK, TokenOK, PairingOK, SweepOK
  <1>9. RegisterOK(p)'
    BY <1>1, <1>3, <1>4, <1>6, Disjoint DEF RegisterOK, Registers, Holds, Rests, rows
  <1>10. ProcOK(p)'
    BY <1>8, <1>9 DEF ProcOK
  <1> QED
    BY <1>1, <1>6, <1>7, <1>10, QuietStep DEF Rests

LEMMA UpsertReadKeeps ==
  ASSUME PairingIInv, NEW p \in Procs, UpsertRead(p), UNCHANGED pairing
  PROVE  PairingIInv'
  <1> DEFINE r == proc[p]
             d == device[r.dev]
  <1>1. Rests
    BY DEF Rests, UpsertRead
  <1>2. r \in Proc /\ proc \in [Procs -> Proc] /\ device \in [Devices -> Device] /\ RegisterOK(p)
    BY ProcFacts, InvTyped DEF TypeParts, ProcsTyped, DevicesTyped
  <1>3. r.id \in begun /\ r.dev \in Devices /\ r.family \in Ids /\ row[r.id].family \notin Devices
    BY <1>2 DEF RegisterOK, Registers, Holds, UpsertRead
  <1>4. ASSUME d.status # "revoked", ~d.paired,
               proc' = [proc EXCEPT ![p].pc = "upsertPut", ![p].found = d]
        PROVE  PairingIInv'
    <2> DEFINE k == [r EXCEPT !.pc = "upsertPut", !.found = d]
    <2>1. d \in Device
      BY <1>2, <1>3
    <2>2. k \in Proc /\ k.pc = "upsertPut" /\ k.id = r.id /\ k.dev = r.dev /\ k.family = r.family
          /\ k.found = d
      BY <1>2, <2>1 DEF Proc
    <2>3. proc' = [proc EXCEPT ![p] = k]
      BY <1>2, <1>4
    <2> HIDE DEF k
    <2>4. ProcsTyped' /\ proc'[p] = k /\ \A q \in Procs \ {p} : proc'[q] = proc[q]
      BY <2>2, <2>3, Becomes
    <2>5. QuietMove(p)
      BY <2>2, <2>4 DEF QuietMove, Turns
    <2>6. NewOK(p)' /\ TokenOK(p)' /\ PairingOK(p)' /\ SweepOK(p)'
      BY <2>2, <2>4 DEF NewOK, TokenOK, PairingOK, SweepOK
    <2>7. RegisterOK(p)'
      BY <1>1, <1>3, <1>4, <2>2, <2>4 DEF RegisterOK, Registers, Holds, Rests, rows
    <2>8. ProcOK(p)'
      BY <2>6, <2>7 DEF ProcOK
    <2> QED
      BY <1>1, <2>4, <2>5, <2>8, QuietStep DEF Rests
  <1>5. CASE Return(p)
    BY <1>1, <1>5, GivesUp
  <1> QED
    BY <1>4, <1>5 DEF UpsertRead

LEMMA UpsertAgain ==
  ASSUME PairingIInv, NEW p \in Procs, proc[p].pc = "upsertPut", proc[p].tries < MaxUpserts - 1,
         proc' = [proc EXCEPT ![p].pc = "upsertRead", ![p].tries = @ + 1], Rests
  PROVE  PairingIInv'
  <1> DEFINE r == proc[p]
             k == [r EXCEPT !.pc = "upsertRead", !.tries = @ + 1]
  <1>1. r \in Proc /\ proc \in [Procs -> Proc]
    BY ProcFacts, InvTyped DEF TypeParts, ProcsTyped
  <1>2. r.tries + 1 \in 0..MaxUpserts
    BY <1>1, PairingAssumption DEF Proc
  <1>3. k \in Proc /\ k.pc = "upsertRead" /\ k.id = r.id /\ k.dev = r.dev /\ k.family = r.family
    BY <1>1, <1>2 DEF Proc
  <1>4. proc' = [proc EXCEPT ![p] = k]
    BY <1>1
  <1> HIDE DEF k
  <1>5. ProcsTyped' /\ QuietMove(p) /\ ProcOK(p)'
    BY <1>3, <1>4, Registering DEF Registers, Rests, rows
  <1> QED
    BY <1>5, QuietStep DEF Rests

LEMMA BindReadKeeps ==
  ASSUME PairingIInv, NEW p \in Procs, BindRead(p), UNCHANGED pairing
  PROVE  PairingIInv'
  <1> DEFINE r == proc[p]
             old == row[r.id].device
  <1>1. Rests /\ r.pc = "bindRead"
    BY DEF Rests, BindRead
  <1>2. r \in Proc /\ proc \in [Procs -> Proc] /\ r.id \in Ids
    BY <1>1, ProcFacts, InvTyped, BegunTyped DEF TypeParts, ProcsTyped, RegisterOK, Holds
  <1>3. CASE GoTo(p, "detach")
    <2>1. ProcsTyped' /\ QuietMove(p) /\ ProcOK(p)'
      BY <1>1, <1>3, ToDetach DEF Registers, Rests, rows
    <2> QED
      BY <1>1, <2>1, QuietStep DEF Rests
  <1>4. CASE proc' = [proc EXCEPT ![p].pc = "bind", ![p].from = old]
    <2> DEFINE k == [r EXCEPT !.pc = "bind", !.from = old]
    <2>1. old \in Devices \cup {None}
      BY <1>2, RowFacts DEF Row
    <2>2. k \in Proc /\ k.pc = "bind" /\ k.id = r.id /\ k.dev = r.dev /\ k.family = r.family
      BY <1>2, <2>1 DEF Proc
    <2>3. proc' = [proc EXCEPT ![p] = k]
      BY <1>2, <1>4
    <2> HIDE DEF k
    <2>4. ProcsTyped' /\ QuietMove(p) /\ ProcOK(p)'
      BY <1>1, <2>2, <2>3, Registering DEF Registers, Rests, rows
    <2> QED
      BY <1>1, <2>4, QuietStep DEF Rests
  <1>5. CASE Return(p)
    BY <1>1, <1>5, GivesUp
  <1> QED
    BY <1>3, <1>4, <1>5 DEF BindRead

LEMMA RevokeKeeps ==
  ASSUME PairingIInv, NEW p \in Procs, NEW d \in Devices, Revoke(p, d), UNCHANGED pairing
  PROVE  PairingIInv'
  <1> DEFINE k == [Idle EXCEPT !.pc = "flip", !.dev = d, !.family = device[d].family]
  <1>1. Rests
    BY DEF Rests, Revoke
  <1>2. device[d].family \in Families \cup {None}
    BY InvTyped DEF TypeParts, DevicesTyped, Device
  <1>3. k \in Proc /\ k.pc = "flip" /\ k.id = None /\ k.dev = d
    BY <1>2, IdleTyped DEF Proc, Idle
  <1>4. proc' = [proc EXCEPT ![p] = k]
    BY DEF Revoke, Become
  <1> HIDE DEF k
  <1>5. ProcsTyped' /\ proc'[p] = k /\ \A q \in Procs \ {p} : proc'[q] = proc[q]
    BY <1>3, <1>4, Becomes
  <1>6. QuietMove(p)
    BY <1>3, <1>5 DEF QuietMove, Turns
  <1>7. NewOK(p)' /\ TokenOK(p)' /\ PairingOK(p)' /\ SweepOK(p)'
    BY <1>3, <1>5 DEF NewOK, TokenOK, PairingOK, SweepOK
  <1>8. RegisterOK(p)'
    BY <1>3, <1>5 DEF RegisterOK, Registers, Holds
  <1>9. ProcOK(p)'
    BY <1>7, <1>8 DEF ProcOK
  <1> QED
    BY <1>1, <1>5, <1>6, <1>9, QuietStep DEF Rests


LEMMA ConfirmKeeps ==
  ASSUME PairingIInv, NEW p \in Procs, NEW n \in Pairs, NEW c \in {"create", "count"},
         Confirm(p, n, c)
  PROVE  PairingIInv'
  <1> DEFINE k == [Idle EXCEPT !.pc = c, !.pair = n]
  <1>1. Rests
    BY DEF Rests, Confirm
  <1>2. k \in Proc /\ k.pc = c /\ k.id = None /\ k.pair = n
    BY IdleTyped DEF Proc, Idle
  <1>3. proc' = [proc EXCEPT ![p] = k]
    BY DEF Confirm
  <1> HIDE DEF k
  <1>4. ProcsTyped' /\ proc'[p] = k /\ \A q \in Procs \ {p} : proc'[q] = proc[q]
    BY <1>2, <1>3, Becomes
  <1>5. QuietMove(p)
    BY <1>2, <1>4 DEF QuietMove, Turns
  <1>6. NewOK(p)' /\ TokenOK(p)' /\ PairingOK(p)' /\ SweepOK(p)'
    BY <1>2, <1>4 DEF NewOK, TokenOK, PairingOK, SweepOK
  <1>7. RegisterOK(p)'
    BY <1>2, <1>4 DEF RegisterOK, Registers, Holds
  <1>8. ProcOK(p)'
    BY <1>6, <1>7 DEF ProcOK
  <1> QED
    BY <1>1, <1>4, <1>5, <1>8, QuietStep DEF Rests

LEMMA PollKeeps ==
  ASSUME PairingIInv, NEW p \in Procs, NEW n \in Pairs, Poll(p, n)
  PROVE  PairingIInv'
  <1> DEFINE d == pair[n].device
             k == [Idle EXCEPT !.pc = "claim", !.pair = n, !.dev = d]
  <1>1. Rests /\ pair[n].status = "bound"
    BY DEF Rests, Poll, Open
  <1>2. d \in Devices
    BY <1>1, PairFacts
  <1>3. k \in Proc /\ k.pc = "claim" /\ k.id = None /\ k.pair = n /\ k.dev = d
    BY <1>2, IdleTyped DEF Proc, Idle
  <1>4. proc' = [proc EXCEPT ![p] = k]
    BY DEF Poll
  <1> HIDE DEF k
  <1>5. ProcsTyped' /\ proc'[p] = k /\ \A q \in Procs \ {p} : proc'[q] = proc[q]
    BY <1>3, <1>4, Becomes
  <1>6. QuietMove(p)
    BY <1>3, <1>5 DEF QuietMove, Turns
  <1>7. NewOK(p)' /\ TokenOK(p)' /\ SweepOK(p)'
    BY <1>3, <1>5 DEF NewOK, TokenOK, SweepOK
  <1>8. RegisterOK(p)'
    BY <1>3, <1>5 DEF RegisterOK, Registers, Holds
  <1>9. PairingOK(p)'
    BY <1>1, <1>2, <1>3, <1>5 DEF PairingOK, Rests, pairing
  <1>10. ProcOK(p)'
    BY <1>7, <1>8, <1>9 DEF ProcOK
  <1> QED
    BY <1>1, <1>5, <1>6, <1>10, QuietStep DEF Rests

\* A handler that counts a wrong code goes on, whatever happened to the pairing.
LEMMA Counting ==
  ASSUME PairingIInv, NEW p \in Procs, proc[p].pc \in {"count", "recount"}, NEW c \in {"recount", "cancel"},
         GoTo(p, c)
  PROVE  ProcsTyped' /\ QuietMove(p) /\ ProcOK(p)'
  <1> DEFINE k == [proc[p] EXCEPT !.pc = c]
  <1>1. proc'[p] = k /\ ProcsTyped' /\ QuietMove(p)
    BY Goes DEF PcNames
  <1>2. proc[p] \in Proc /\ proc[p].id = None /\ proc[p].pair \in Pairs
    BY ProcFacts DEF RegisterOK, Holds, PairingOK
  <1>3. k.pc = c /\ k.id = None /\ k.pair = proc[p].pair
    BY <1>2 DEF Proc
  <1> HIDE DEF k
  <1>4. NewOK(p)' /\ TokenOK(p)' /\ PairingOK(p)' /\ SweepOK(p)'
    BY <1>1, <1>2, <1>3 DEF NewOK, TokenOK, PairingOK, SweepOK
  <1>5. RegisterOK(p)'
    BY <1>1, <1>3 DEF RegisterOK, Registers, Holds
  <1> QED
    BY <1>1, <1>4, <1>5 DEF ProcOK

LEMMA RecountKeeps ==
  ASSUME PairingIInv, NEW p \in Procs, Recount(p)
  PROVE  PairingIInv'
  <1>1. Rests /\ proc[p].pc = "recount"
    BY DEF Rests, Recount
  <1>2. CASE GoTo(p, "cancel")
    BY <1>1, <1>2, Counting, QuietStep DEF Rests
  <1>3. CASE Return(p)
    BY <1>1, <1>3, GivesUp
  <1> QED
    BY <1>2, <1>3 DEF Recount

-----------------------------------------------------------------------------
(***************************************************************************)
(* The steps on the rows of the pairings.                                  *)
(***************************************************************************)
\* A step on the pairings that starts no session.
LEMMA PairMove ==
  ASSUME PairingIInv, UNCHANGED <<rows, tokens, history, device>>,
         \A n \in Pairs : PairStep(n), PairsTyped', ProcsTyped', DevicesInv',
         UNCHANGED proc \/ \E p \in Procs : QuietMove(p) /\ ProcOK(p)'
  PROVE  PairingIInv'
  <1>1. \A s \in Ids : TokenStep(s)
    BY TokensQuiet, TokensStill DEF tokens
  <1>2. Onward
    BY <1>1 DEF Onward, RowStep, DeviceStep, rows
  <1>3. Moved
    BY DEF Moved, QuietMove
  <1>4. RowsInv' /\ EndInv'
    BY <1>2, <1>3, RowsStay, EndRests DEF rows, tokens
  <1>5. TypeParts'
    BY InvTyped DEF TypeParts, RowsTyped, TokensTyped, EndTyped, DevicesTyped, rows, tokens, history
  <1> QED
    BY <1>2, <1>3, <1>4, <1>5, TypeJoin, Together

LEMMA CountCodeKeeps ==
  ASSUME PairingIInv, NEW p \in Procs, CountCode(p)
  PROVE  PairingIInv'
  <1> DEFINE m == proc[p].pair
  <1>1. m \in Pairs
    BY ProcFacts DEF CountCode, PairingOK
  <1>2. CASE Open(m, "pending") /\ pair' = [pair EXCEPT ![m].codes = @ + 1] /\ GoTo(p, "recount")
    <2>1. PairsTyped /\ DevicesInv
      BY InvTyped DEF TypeParts, PairingIInv
    <2>2. UNCHANGED <<rows, tokens, history, device, granted, lost>>
      BY DEF CountCode
    <2>3. PairsTyped'
      BY <1>1, <1>2, <2>1, <2>2 DEF PairsTyped
    <2>4. \A n \in Pairs : pair'[n].status = pair[n].status /\ pair'[n].device = pair[n].device
      BY <1>1, <1>2, <2>1 DEF PairsTyped
    <2>5. \A n \in Pairs : PairStep(n)
      BY <2>2, <2>4 DEF PairStep
    <2>6. DevicesInv'
      BY <2>1, <2>2, <2>4 DEF DevicesInv
    <2>7. ProcsTyped' /\ QuietMove(p) /\ ProcOK(p)'
      BY <1>2, Counting DEF CountCode
    <2> QED
      BY <2>2, <2>3, <2>5, <2>6, <2>7, PairMove
  <1>3. CASE UNCHANGED pair /\ Return(p)
    BY <1>3, GivesUp DEF CountCode, Rests, pairing
  <1> QED
    BY <1>2, <1>3 DEF CountCode

LEMMA RegisterPairingKeeps ==
  ASSUME PairingIInv, NEW n \in Pairs, RegisterPairing(n)
  PROVE  PairingIInv'
  <1>1. PairsTyped /\ DevicesInv /\ ProcsTyped
    BY InvTyped DEF TypeParts, PairingIInv
  <1>2. UNCHANGED <<rows, tokens, history, device, proc, granted, lost>>
    BY DEF RegisterPairing, vars
  <1>3. PairsTyped'
    BY <1>1, <1>2 DEF RegisterPairing, PairsTyped
  <1>4. /\ \A m \in Pairs : pair'[m].device = pair[m].device
        /\ \A m \in Pairs \ {n} : pair'[m].status = pair[m].status
        /\ pair[n].status = "none" /\ pair'[n].status = "pending"
    BY <1>1 DEF RegisterPairing, PairsTyped, NoPair
  <1>5. \A m \in Pairs : PairStep(m)
    BY <1>2, <1>4 DEF PairStep
  <1>6. DevicesInv'
    BY <1>1, <1>2, <1>4 DEF DevicesInv
  <1> QED
    BY <1>1, <1>2, <1>3, <1>5, <1>6, PairMove DEF ProcsTyped

LEMMA ExpireKeeps ==
  ASSUME PairingIInv, NEW n \in Pairs, Expire(n)
  PROVE  PairingIInv'
  <1>1. PairsTyped /\ DevicesInv /\ ProcsTyped
    BY InvTyped DEF TypeParts, PairingIInv
  <1>2. UNCHANGED <<rows, tokens, history, device, proc, granted, lost>>
    BY DEF Expire, vars
  <1>3. PairsTyped'
    BY <1>1, <1>2 DEF Expire, PairsTyped
  <1>4. \A m \in Pairs : pair'[m].status = pair[m].status /\ pair'[m].device = pair[m].device
    BY <1>1 DEF Expire, PairsTyped
  <1>5. \A m \in Pairs : PairStep(m)
    BY <1>2, <1>4 DEF PairStep
  <1>6. DevicesInv'
    BY <1>1, <1>2, <1>4 DEF DevicesInv
  <1> QED
    BY <1>1, <1>2, <1>3, <1>5, <1>6, PairMove DEF ProcsTyped

LEMMA CancelKeeps ==
  ASSUME PairingIInv, NEW p \in Procs, Cancel(p)
  PROVE  PairingIInv'
  <1> DEFINE m == proc[p].pair
  <1>1. m \in Pairs
    BY ProcFacts DEF Cancel, PairingOK
  <1>2. PairsTyped /\ DevicesInv
    BY InvTyped DEF TypeParts, PairingIInv
  <1>3. UNCHANGED <<rows, tokens, history, device, granted, lost>>
    BY DEF Cancel
  <1>4. PairsTyped'
    BY <1>1, <1>2, <1>3 DEF Cancel, PairsTyped
  <1>5. /\ \A n \in Pairs : pair'[n].device = pair[n].device
        /\ \A n \in Pairs : \/ pair'[n].status = pair[n].status
                            \/ pair[n].status = "pending" /\ pair'[n].status = "failed"
    BY <1>1, <1>2 DEF Cancel, PairsTyped, Open
  <1>6. \A n \in Pairs : PairStep(n)
    BY <1>3, <1>5 DEF PairStep
  <1>7. DevicesInv'
    BY <1>2, <1>3, <1>5 DEF DevicesInv
  <1>8. ProcsTyped' /\ QuietMove(p) /\ ProcOK(p)'
    BY Returns DEF Cancel
  <1> QED
    BY <1>3, <1>4, <1>6, <1>7, <1>8, PairMove

LEMMA PairCrashKeeps ==
  ASSUME PairingIInv, NEW p \in Procs, PairCrash(p)
  PROVE  PairingIInv'
  <1>1. PairsTyped /\ DevicesInv
    BY InvTyped DEF TypeParts, PairingIInv
  <1>2. UNCHANGED <<rows, tokens, history, device, pair, granted>> /\ Return(p)
    BY DEF PairCrash, Crash
  <1>3. proc[p].pc \in {"recount", "cancel"} => proc[p].pair \in Pairs
    BY ProcFacts DEF PairingOK
  <1>4. PairsTyped'
    BY <1>1, <1>2, <1>3 DEF PairCrash, PairsTyped
  <1>5. DevicesInv' /\ \A n \in Pairs : PairStep(n)
    BY <1>2, DevicesStay
  <1>6. ProcsTyped' /\ QuietMove(p) /\ ProcOK(p)'
    BY <1>2, Returns
  <1> QED
    BY <1>2, <1>4, <1>5, <1>6, PairMove


LEMMA BindPairKeeps ==
  ASSUME PairingIInv, NEW p \in Procs, BindPair(p)
  PROVE  PairingIInv'
  <1> DEFINE m == proc[p].pair
             d == proc[p].dev
  <1>1. /\ m \in Pairs /\ d \in Devices /\ device[d].paired
        /\ \A n \in Pairs : pair[n].device # d
    BY ProcFacts DEF BindPair, PairingOK
  <1>2. PairsTyped /\ DevicesInv
    BY InvTyped DEF TypeParts, PairingIInv
  <1>3. UNCHANGED <<rows, tokens, history, device, granted, lost>>
    BY DEF BindPair
  <1>4. ProcsTyped' /\ QuietMove(p) /\ ProcOK(p)' /\ proc'[p].pc # "bindPair"
    BY Returns, IdleTyped DEF BindPair
  <1>5. CASE Open(m, "pending")
    <2>1. pair' = [pair EXCEPT ![m].status = "bound", ![m].device = d]
      BY <1>5 DEF BindPair
    <2>2. PairsTyped'
      BY <1>1, <1>2, <1>3, <2>1, Disjoint DEF PairsTyped
    <2>3. /\ pair[m].status = "pending" /\ pair'[m].status = "bound" /\ pair'[m].device = d
          /\ \A n \in Pairs \ {m} : pair'[n] = pair[n]
      BY <1>1, <1>2, <1>5, <2>1 DEF PairsTyped, Open
    <2>4. PairStep(m)
      <3>1. pair[m].device = None
        BY <1>1, <2>3, PairFacts
      <3> QED
        BY <1>3, <1>4, <2>3, <3>1 DEF PairStep, BindPair
    <2>5. \A n \in Pairs : PairStep(n)
      BY <1>3, <2>3, <2>4 DEF PairStep
    <2>6. DevicesInv'
      <3>1. /\ \A x \in Devices : device'[x] = device[x]
            /\ \A n \in Pairs : granted'[n] = granted[n]
        BY <1>3
      <3>2. granted[m] = {}
        BY <1>1, <2>3, PairFacts
      <3> QED
        BY <1>1, <1>2, <1>3, <2>3, <3>1, <3>2 DEF DevicesInv
    <2> QED
      BY <1>3, <1>4, <2>2, <2>5, <2>6, PairMove
  <1>6. CASE ~Open(m, "pending")
    BY <1>6, GivesUp DEF BindPair, Rests, pairing
  <1> QED
    BY <1>5, <1>6

LEMMA OneIsOne == \A x : Cardinality({x}) <= 1
  <1> TAKE x
  <1>1. Cardinality({x}) = 1
    BY FS_Singleton, Zenon
  <1> QED
    BY <1>1

\* The poll that claims the pairing takes the first token of its session along.
LEMMA SettleKeeps ==
  ASSUME PairingIInv, NEW p \in Procs, Settle(p)
  PROVE  PairingIInv'
  <1> DEFINE r == proc[p]
             m == r.pair
             s == r.id
             d == r.dev
  <1>1. /\ m \in Pairs /\ d \in Devices /\ pair[m].device = d
        /\ s \in begun /\ s \in Ids /\ Bare(s) /\ Alone(p)
        /\ {row[s].family, index[s].family} \subseteq {None, d}
        /\ r.pc = "settle"
    BY ProcFacts, BegunTyped DEF Settle, PairingOK, NewOK, RegisterOK, Holds
  <1>2. PairsTyped /\ DevicesInv /\ r \in Proc /\ proc \in [Procs -> Proc]
    BY InvTyped, ProcFacts DEF TypeParts, PairingIInv, ProcsTyped
  <1>3. UNCHANGED <<rows, tokens, history, device, lost>>
    BY DEF Settle
  <1>4. CASE /\ Open(m, "bound") /\ pair' = [pair EXCEPT ![m].status = "claimed"]
             /\ granted' = [granted EXCEPT ![m] = @ \cup {s}]
             /\ proc' = [proc EXCEPT ![p].pc = "answer", ![p].tok = 1]
    <2> DEFINE k == [r EXCEPT !.pc = "answer", !.tok = 1]
    <2>1. k \in Proc /\ k.pc = "answer" /\ k.id = s /\ k.tok = 1
      <3>1. 1 \in 0..MaxTokens
        BY PairingAssumption
      <3> QED
        BY <1>2, <3>1 DEF Proc
    <2>2. proc' = [proc EXCEPT ![p] = k]
      BY <1>2, <1>4
    <2> HIDE DEF k
    <2>3. ProcsTyped' /\ proc'[p] = k /\ \A q \in Procs \ {p} : proc'[q] = proc[q]
      BY <2>1, <2>2, Becomes
    <2>4. PairsTyped'
      BY <1>1, <1>2, <1>3, <1>4 DEF PairsTyped
    <2>5. /\ pair[m].status = "bound" /\ pair'[m].status = "claimed" /\ pair'[m].device = d
          /\ granted'[m] = granted[m] \cup {s}
          /\ \A n \in Pairs \ {m} : pair'[n] = pair[n] /\ granted'[n] = granted[n]
      BY <1>1, <1>2, <1>4 DEF PairsTyped, Open
    <2>6. granted[m] = {}
      BY <1>1, <2>5, PairFacts
    <2>7. \A n \in Pairs : PairStep(n)
      BY <1>1, <2>5 DEF PairStep
    <2>8. DevicesInv'
      <3>1. \A x \in Devices : device'[x] = device[x]
        BY <1>3
      <3>2. Cardinality(granted'[m]) <= 1
        <4>1. granted'[m] = {s}
          BY <2>5, <2>6
        <4> QED
          BY <4>1, OneIsOne
      <3>3. ASSUME NEW n \in Pairs
            PROVE  /\ pair'[n].status \notin {"bound", "claimed"} => pair'[n].device = None
                   /\ pair'[n].status # "claimed" => granted'[n] = {}
                   /\ Cardinality(granted'[n]) <= 1
        <4>1. CASE n = m
          BY <2>5, <3>2, <4>1
        <4>2. CASE n # m
          BY <1>2, <2>5, <4>2 DEF DevicesInv
        <4> QED
          BY <4>1, <4>2
      <3>4. \A n \in Pairs : pair'[n].device = pair[n].device
        BY <1>1, <2>5
      <3> QED
        <4>1. \A x \in Devices : device[x].status = "none" => device[x] = NoDevice
          BY <1>2 DEF DevicesInv
        <4>2. \A x \in Devices : device[x].paired => device[x].family = x
          BY <1>2 DEF DevicesInv
        <4>3. \A n \in Pairs : pair[n].device # None =>
                 /\ pair[n].device \in Devices /\ device[pair[n].device].paired
                 /\ \A o \in Pairs \ {n} : pair[o].device # pair[n].device
          BY PairFacts
        <4> QED
          BY <3>1, <3>3, <3>4, <4>1, <4>2, <4>3 DEF DevicesInv
    <2>9. \A x \in Ids : TokenStep(x)
      <3> TAKE x \in Ids
      <3>1. (\A q \in Procs : proc'[q].id = proc[q].id) /\ Bare(x)' = Bare(x)
        BY <1>3, <2>1, <2>3 DEF Bare, Of, tokens
      <3>2. Doing("put", x)' => Doing("put", x)
        BY <2>1, <2>3 DEF Doing
      <3>3. Doing("rotate", x)' => Doing("rotate", x)
        BY <2>1, <2>3 DEF Doing
      <3>4. Doing("answer", x)' => Doing("answer", x) \/ Settling(x)
        BY <1>1, <2>1, <2>3, <2>5 DEF Doing, Settling
      <3>5. held' = held
        BY <1>3 DEF tokens
      <3> QED
        BY <3>1, <3>2, <3>3, <3>4, <3>5 DEF TokenStep, Tokened
    <2>10. Onward
      BY <1>3, <2>7, <2>9 DEF Onward, RowStep, DeviceStep, rows
    <2>11. ProcOK(p)'
      <3>1. NewOK(p)' /\ PairingOK(p)' /\ SweepOK(p)'
        BY <2>1, <2>3 DEF NewOK, PairingOK, SweepOK
      <3>2. RegisterOK(p)'
        BY <1>1, <1>3, <2>1, <2>3 DEF RegisterOK, Holds, Registers, rows
      <3>3. Owned(s)'
        BY <1>1, <1>3, <2>1, <2>3, <2>5, Disjoint DEF Owned, Claimed, rows
      <3>4. TokenOK(p)'
        BY <2>1, <2>3, <3>3 DEF TokenOK
      <3> QED
        BY <3>1, <3>2, <3>4 DEF ProcOK
    <2>12. Turns(p)
      BY <2>1, <2>3 DEF Turns
    <2>13. Moved
      BY <2>3, <2>11, <2>12 DEF Moved
    <2>14. RowsInv' /\ EndInv'
      BY <1>3, <2>10, <2>13, RowsStay, EndRests DEF rows, tokens
    <2>15. TypeParts'
      BY <1>3, <2>3, <2>4, InvTyped DEF TypeParts, RowsTyped, TokensTyped, EndTyped, DevicesTyped,
         rows, tokens, history
    <2> QED
      BY <2>8, <2>10, <2>13, <2>14, <2>15, TypeJoin, Together
  <1>5. CASE Return(p) /\ UNCHANGED <<pair, granted>>
    BY <1>3, <1>5, GivesUp DEF Rests, pairing
  <1> QED
    BY <1>4, <1>5 DEF Settle

-----------------------------------------------------------------------------
(***************************************************************************)
(* The steps on the devices.                                               *)
(***************************************************************************)
LEMMA DeviceMove ==
  ASSUME PairingIInv, UNCHANGED <<rows, tokens, history, pairing>>,
         \A d \in Devices : DeviceStep(d), DevicesTyped', ProcsTyped', DevicesInv',
         UNCHANGED proc \/ \E p \in Procs : QuietMove(p) /\ ProcOK(p)'
  PROVE  PairingIInv'
  <1>1. \A s \in Ids : TokenStep(s)
    BY TokensQuiet, TokensStill DEF tokens
  <1>2. Onward
    BY <1>1 DEF Onward, RowStep, PairStep, rows, pairing
  <1>3. Moved
    BY DEF Moved, QuietMove
  <1>4. RowsInv' /\ EndInv'
    BY <1>2, <1>3, RowsStay, EndRests DEF rows, tokens
  <1>5. TypeParts'
    BY InvTyped DEF TypeParts, RowsTyped, TokensTyped, EndTyped, PairsTyped, rows, tokens, history,
                    pairing
  <1> QED
    BY <1>2, <1>3, <1>4, <1>5, TypeJoin, Together

LEMMA CreateDeviceKeeps ==
  ASSUME PairingIInv, NEW p \in Procs, NEW d \in Devices, CreateDevice(p, d)
  PROVE  PairingIInv'
  <1> DEFINE r == proc[p]
             v == [NoDevice EXCEPT !.status = "active", !.family = d, !.paired = TRUE]
             k == [r EXCEPT !.pc = "bindPair", !.dev = d]
  <1>0. r \in Proc /\ proc \in [Procs -> Proc]
    BY InvTyped, ProcFacts DEF TypeParts, ProcsTyped
  <1>1. r.pair \in Pairs /\ r.id = None /\ DevicesInv /\ device \in [Devices -> Device]
    BY InvTyped, ProcFacts DEF TypeParts, DevicesTyped, PairingIInv, PairingOK, RegisterOK, Holds,
                               CreateDevice
  <1>2. UNCHANGED <<rows, tokens, history, pairing>> /\ device[d] = NoDevice
        /\ device' = [device EXCEPT ![d] = v]
    BY DEF CreateDevice
  <1>3. k \in Proc /\ k.pc = "bindPair" /\ k.dev = d /\ k.id = r.id /\ k.pair = r.pair
    BY <1>0 DEF Proc
  <1>4. proc' = [proc EXCEPT ![p] = k]
    BY <1>0 DEF CreateDevice
  <1>5. v \in Device /\ v.status = "active" /\ v.family = d /\ v.paired
    BY IdleTyped DEF Device, NoDevice, Families
  <1> HIDE DEF k, v
  <1>6. ProcsTyped' /\ proc'[p] = k /\ \A q \in Procs \ {p} : proc'[q] = proc[q]
    BY <1>3, <1>4, Becomes
  <1>7. QuietMove(p)
    BY <1>1, <1>3, <1>6 DEF QuietMove, Turns
  <1>8. DevicesTyped' /\ device'[d] = v /\ \A x \in Devices \ {d} : device'[x] = device[x]
    BY <1>1, <1>2, <1>5 DEF DevicesTyped
  <1>9. device[d].status = "none" /\ ~device[d].paired
    BY <1>2 DEF NoDevice
  <1>10. \A x \in Devices : DeviceStep(x)
    BY <1>8, <1>9 DEF DeviceStep
  <1>11. \A n \in Pairs : pair[n].device # d
    BY <1>9, PairFacts, Disjoint
  <1>12. DevicesInv'
    <2>1. \A n \in Pairs : pair'[n] = pair[n] /\ granted'[n] = granted[n]
      BY <1>2 DEF pairing
    <2> QED
      BY <1>1, <1>5, <1>8, <1>11, <2>1, PairFacts DEF DevicesInv
  <1>13. ProcOK(p)'
    <2>1. NewOK(p)' /\ TokenOK(p)' /\ SweepOK(p)'
      BY <1>3, <1>6 DEF NewOK, TokenOK, SweepOK
    <2>2. RegisterOK(p)'
      BY <1>1, <1>3, <1>6 DEF RegisterOK, Holds, Registers
    <2>3. \A q \in Procs : proc[q].pc = "bindPair" => proc[q].dev # d
      BY <1>9, ProcFacts DEF PairingOK
    <2>4. PairingOK(p)'
      BY <1>1, <1>2, <1>3, <1>5, <1>6, <1>8, <1>11, <2>3 DEF PairingOK, pairing
    <2> QED
      BY <2>1, <2>2, <2>4 DEF ProcOK
  <1> QED
    BY <1>2, <1>6, <1>7, <1>8, <1>10, <1>12, <1>13, DeviceMove


\* A device changes that is not paired, or keeps its family and being paired.
LEMMA DevicesChange ==
  ASSUME PairingIInv, NEW d \in Devices, NEW v, device' = [device EXCEPT ![d] = v],
         UNCHANGED pairing, v.status # "none",
         v.paired = device[d].paired,
         v.paired => v.family = device[d].family
  PROVE  DevicesInv'
  <1>1. device \in [Devices -> Device] /\ DevicesInv
    BY InvTyped DEF TypeParts, DevicesTyped, PairingIInv
  <1>2. device'[d] = v /\ \A x \in Devices \ {d} : device'[x] = device[x]
    BY <1>1
  <1>3. \A n \in Pairs : pair'[n] = pair[n] /\ granted'[n] = granted[n]
    BY DEF pairing
  <1>4. \A x \in Devices : /\ device'[x].status = "none" => device'[x] = NoDevice
                           /\ device'[x].paired => device'[x].family = x
    BY <1>1, <1>2 DEF DevicesInv
  <1>5. \A n \in Pairs : pair[n].device # None =>
           /\ device'[pair[n].device].paired
           /\ \A m \in Pairs \ {n} : pair[m].device # pair[n].device
    BY <1>2, PairFacts
  <1> QED
    BY <1>1, <1>3, <1>4, <1>5 DEF DevicesInv

LEMMA UpsertPutKeeps ==
  ASSUME PairingIInv, NEW p \in Procs, UpsertPut(p), UNCHANGED pairing
  PROVE  PairingIInv'
  <1> DEFINE r == proc[p]
             d == r.dev
  <1>1. r \in Proc /\ proc \in [Procs -> Proc]
    BY ProcFacts, InvTyped DEF TypeParts, ProcsTyped
  <1>2. /\ d \in Devices /\ r.family \in Ids /\ r.pc = "upsertPut"
        /\ r.found.status # "revoked" /\ ~r.found.paired
        /\ r.found.status = "active" => device[d].status # "none" /\ ~device[d].paired
    BY ProcFacts DEF RegisterOK, Registers, UpsertPut
  <1>3. UNCHANGED <<rows, tokens, history, pairing>>
    BY DEF UpsertPut
  <1>4. device \in [Devices -> Device]
    BY InvTyped DEF TypeParts, DevicesTyped
  <1>5. CASE /\ SameDevice(d, r.found) /\ device' = [device EXCEPT ![d] = Refreshed(p)] /\ ToBind(p)
    <2> DEFINE v == Refreshed(p)
               k == [r EXCEPT !.pc = "bindRead", !.found = NoDevice, !.tries = 0]
    <2>1. v \in Device /\ v.status = "active" /\ ~v.paired
      <3>1. r.found \in Device
        BY <1>1 DEF Proc
      <3> QED
        BY <1>2, <3>1 DEF Refreshed, Device, Families
    <2>2. k \in Proc /\ k.pc = "bindRead" /\ k.id = r.id /\ k.dev = d /\ k.family = r.family
      <3>1. 0 \in 0..MaxUpserts
        BY PairingAssumption
      <3> QED
        BY <1>1, <3>1, IdleTyped DEF Proc
    <2>3. proc' = [proc EXCEPT ![p] = k]
      BY <1>5 DEF ToBind, Become
    <2> HIDE DEF k, v
    <2>4. ProcsTyped' /\ QuietMove(p) /\ ProcOK(p)'
      BY <1>2, <1>3, <2>2, <2>3, Registering DEF Registers, rows
    <2>5. DevicesTyped' /\ device'[d] = v /\ \A x \in Devices \ {d} : device'[x] = device[x]
      BY <1>2, <1>4, <1>5, <2>1 DEF DevicesTyped, v
    <2>6. device[d].status # "revoked" /\ ~device[d].paired
      <3>1. device[d].status = r.found.status
        BY <1>5 DEF SameDevice
      <3>2. device[d].status \in {"none", "active", "revoked"}
        BY <1>2, <1>4 DEF Device
      <3>3. device[d].status = "none" => ~device[d].paired
        BY <1>2 DEF PairingIInv, DevicesInv, NoDevice
      <3> QED
        BY <1>2, <3>1, <3>2, <3>3
    <2>9. v.paired = device[d].paired
      <3>1. v.paired \in BOOLEAN /\ device[d].paired \in BOOLEAN
        BY <1>2, <1>4, <2>1 DEF Device
      <3> QED
        BY <2>1, <2>6, <3>1
    <2>7. \A x \in Devices : DeviceStep(x)
      BY <2>1, <2>5, <2>6, <2>9 DEF DeviceStep
    <2>8. DevicesInv'
      <3>2. device' = [device EXCEPT ![d] = v] /\ UNCHANGED pairing /\ v.status # "none"
            /\ (v.paired => v.family = device[d].family)
        BY <1>3, <1>5, <2>1 DEF v
      <3> QED
        BY <1>2, <2>9, <3>2, DevicesChange
    <2> QED
      BY <1>3, <2>4, <2>5, <2>7, <2>8, DeviceMove
  <1>6. CASE /\ r.tries < MaxUpserts - 1 /\ UNCHANGED device
             /\ proc' = [proc EXCEPT ![p].pc = "upsertRead", ![p].tries = @ + 1]
    BY <1>2, <1>3, <1>6, UpsertAgain DEF Rests
  <1>7. CASE Return(p) /\ UNCHANGED device
    BY <1>3, <1>7, GivesUp DEF Rests
  <1> QED
    BY <1>5, <1>6, <1>7 DEF UpsertPut

LEMMA DetachKeeps ==
  ASSUME PairingIInv, NEW p \in Procs, Detach(p), UNCHANGED pairing
  PROVE  PairingIInv'
  <1> DEFINE d == proc[p].left
  <1>1. proc[p].family \in Ids /\ d \in Devices \cup {None}
    BY ProcFacts DEF RegisterOK, Registers, Detach, Proc
  <1>2. UNCHANGED <<rows, tokens, history, pairing>>
    BY DEF Detach
  <1>3. ProcsTyped' /\ QuietMove(p) /\ ProcOK(p)'
    BY Returns DEF Detach
  <1>4. device \in [Devices -> Device]
    BY InvTyped DEF TypeParts, DevicesTyped
  <1>5. CASE d # None /\ device[d].family = proc[p].family /\ device' = [device EXCEPT ![d].family = None]
    <2> DEFINE v == [device[d] EXCEPT !.family = None]
    <2>1. d \in Devices /\ device[d] \in Device
      BY <1>1, <1>4, <1>5
    <2>2. v \in Device /\ v.status = device[d].status /\ v.paired = device[d].paired
      BY <2>1 DEF Device
    <2>3. device' = [device EXCEPT ![d] = v]
      BY <1>4, <1>5, <2>1
    <2>4. device[d].status # "none" /\ ~device[d].paired
      <3>1. device[d].family # d /\ device[d].family # None
        BY <1>1, <1>5, <2>1, Disjoint
      <3> QED
        BY <2>1, <3>1 DEF PairingIInv, DevicesInv, NoDevice
    <2> HIDE DEF v
    <2>5. DevicesTyped' /\ device'[d] = v /\ \A x \in Devices \ {d} : device'[x] = device[x]
      BY <1>4, <2>1, <2>2, <2>3 DEF DevicesTyped
    <2>6. \A x \in Devices : DeviceStep(x)
      BY <2>2, <2>5 DEF DeviceStep
    <2>7. DevicesInv'
      BY <1>2, <2>1, <2>2, <2>3, <2>4, DevicesChange
    <2> QED
      BY <1>2, <1>3, <2>5, <2>6, <2>7, DeviceMove
  <1>6. CASE UNCHANGED device
    BY <1>2, <1>6, GivesUp DEF Rests, Detach
  <1> QED
    BY <1>5, <1>6 DEF Detach

LEMMA RenameKeeps ==
  ASSUME PairingIInv, NEW d \in Devices, Rename(d), UNCHANGED pairing
  PROVE  PairingIInv'
  <1> DEFINE v == [device[d] EXCEPT !.name = @ + 1, !.custom = TRUE]
  <1>1. device \in [Devices -> Device] /\ device[d] \in Device
    BY InvTyped DEF TypeParts, DevicesTyped
  <1>2. UNCHANGED <<rows, tokens, history, pairing, proc>> /\ device[d].status = "active"
    BY DEF Rename, Active
  <1>3. device[d].name + 1 \in 0..MaxNames
    BY <1>1, PairingAssumption DEF Rename, Device
  <1>4. v \in Device /\ v.status = device[d].status /\ v.paired = device[d].paired
        /\ v.family = device[d].family
    BY <1>1, <1>3 DEF Device
  <1>5. device' = [device EXCEPT ![d] = v]
    BY <1>1 DEF Rename
  <1> HIDE DEF v
  <1>6. DevicesTyped' /\ device'[d] = v /\ \A x \in Devices \ {d} : device'[x] = device[x]
    BY <1>1, <1>4, <1>5 DEF DevicesTyped
  <1>7. \A x \in Devices : DeviceStep(x)
    BY <1>4, <1>6 DEF DeviceStep
  <1>8. DevicesInv'
    BY <1>2, <1>4, <1>5, DevicesChange
  <1>9. ProcsTyped'
    BY <1>2, InvTyped DEF TypeParts, ProcsTyped
  <1> QED
    BY <1>2, <1>6, <1>7, <1>8, <1>9, DeviceMove

LEMMA FlipKeeps ==
  ASSUME PairingIInv, NEW p \in Procs, Flip(p), UNCHANGED pairing
  PROVE  PairingIInv'
  <1> DEFINE r == proc[p]
             d == r.dev
             pl == IF r.family = None THEN <<"device", "device">> ELSE <<"device", "family", "device">>
             k == [r EXCEPT !.pc = "list", !.plan = pl]
             v == [device[d] EXCEPT !.status = "revoked"]
  <1>1. r \in Proc /\ proc \in [Procs -> Proc]
    BY ProcFacts, InvTyped DEF TypeParts, ProcsTyped
  <1>2. d \in Devices /\ r.id = None
    BY ProcFacts DEF RegisterOK, Holds, Flip
  <1>3. UNCHANGED <<rows, tokens, history, pairing>>
    BY DEF Flip
  <1>4. device \in [Devices -> Device] /\ device[d] \in Device
    BY <1>2, InvTyped DEF TypeParts, DevicesTyped
  <1>5. pl \in Plans /\ pl \in Seq(Sweeps)
    BY PlansTyped DEF Plans
  <1>6. proc' = [proc EXCEPT ![p] = k] /\ device' = [device EXCEPT ![d] = v]
    BY <1>1, <1>2, <1>4 DEF Flip
  <1> HIDE DEF pl
  <1>7. k \in Proc /\ k.pc = "list" /\ k.plan = pl /\ k.dev = d /\ k.id = r.id
    BY <1>1, <1>5 DEF Proc
  <1>8. v \in Device /\ v.status = "revoked" /\ v.paired = device[d].paired /\ v.family = device[d].family
    BY <1>4 DEF Device
  <1> HIDE DEF k, v
  <1>9. ProcsTyped' /\ proc'[p] = k /\ \A q \in Procs \ {p} : proc'[q] = proc[q]
    BY <1>6, <1>7, Becomes
  <1>10. QuietMove(p)
    BY <1>2, <1>7, <1>9 DEF QuietMove, Turns
  <1>11. DevicesTyped' /\ device'[d] = v /\ \A x \in Devices \ {d} : device'[x] = device[x]
    BY <1>2, <1>4, <1>6, <1>8 DEF DevicesTyped
  <1>12. \A x \in Devices : DeviceStep(x)
    BY <1>8, <1>11 DEF DeviceStep
  <1>13. DevicesInv'
    BY <1>2, <1>3, <1>6, <1>8, DevicesChange
  <1>14. ProcOK(p)'
    <2>1. NewOK(p)' /\ TokenOK(p)' /\ PairingOK(p)'
      BY <1>7, <1>9 DEF NewOK, TokenOK, PairingOK
    <2>2. RegisterOK(p)'
      BY <1>2, <1>7, <1>9 DEF RegisterOK, Holds, Registers
    <2>3. SweepOK(p)'
      BY <1>2, <1>5, <1>7, <1>8, <1>9, <1>11 DEF SweepOK
    <2> QED
      BY <2>1, <2>2, <2>3 DEF ProcOK
  <1> QED
    BY <1>3, <1>9, <1>10, <1>11, <1>12, <1>13, <1>14, DeviceMove


-----------------------------------------------------------------------------
(***************************************************************************)
(* The steps on the rows of the sessions.                                  *)
(***************************************************************************)
LEMMA RowMove ==
  ASSUME PairingIInv, UNCHANGED <<begun, stale, device, tokens, history, pairing>>,
         RowsTyped', ProcsTyped',
         \A s \in Ids : /\ \/ row'[s] \in {row[s], NoRow}
                           \/ Carried(s) /\ Copy(s, row'[s]) /\ row'[s].cur = row[s].cur
                        /\ index'[s] \in {index[s], row[s]},
         UNCHANGED proc \/ \E p \in Procs : QuietMove(p) /\ ProcOK(p)'
  PROVE  PairingIInv'
  <1>1. \A s \in Ids : TokenStep(s)
    BY TokensQuiet, TokensStill DEF tokens
  <1>2. Onward
    BY <1>1, DevicesStay DEF Onward, RowStep, pairing
  <1>3. Moved
    BY DEF Moved, QuietMove
  <1>4. RowsInv' /\ DevicesInv' /\ EndInv'
    BY <1>2, <1>3, RowsStay, DevicesStay, EndRests DEF tokens, pairing
  <1>5. TypeParts'
    BY InvTyped DEF TypeParts, TokensTyped, EndTyped, DevicesTyped, PairsTyped, tokens, history, pairing
  <1> QED
    BY <1>2, <1>3, <1>4, <1>5, TypeJoin, Together

LEMMA ReplicateKeeps ==
  ASSUME PairingIInv, NEW s \in Ids, Replicate(s), UNCHANGED pairing
  PROVE  PairingIInv'
  <1>1. RowsTyped /\ ProcsTyped
    BY InvTyped DEF TypeParts
  <1>2. UNCHANGED <<row, begun, stale, device, proc, tokens, history, pairing>>
        /\ index' = [index EXCEPT ![s] = row[s]]
    BY DEF Replicate
  <1>3. RowsTyped' /\ ProcsTyped' /\ \A x \in Ids : row'[x] = row[x] /\ index'[x] \in {index[x], row[x]}
    BY <1>1, <1>2 DEF RowsTyped, ProcsTyped
  <1> QED
    BY <1>2, <1>3, RowMove

LEMMA Deletes ==
  ASSUME PairingIInv, NEW s, s \in Ids \cup {None}, Delete(s), UNCHANGED <<index, begun, stale>>
  PROVE  /\ RowsTyped'
         /\ \A x \in Ids : row'[x] \in {row[x], NoRow} /\ index'[x] \in {index[x], row[x]}
  <1>1. RowsTyped
    BY InvTyped DEF TypeParts
  <1>2. NoRow \in Row
    BY PairingAssumption DEF NoRow, Row
  <1> QED
    BY <1>1, <1>2 DEF Delete, RowsTyped

LEMMA LogoutKeeps ==
  ASSUME PairingIInv, NEW p \in Procs, NEW s \in Ids, Logout(p, s), UNCHANGED pairing
  PROVE  PairingIInv'
  <1>1. ProcsTyped /\ UNCHANGED <<index, begun, stale, device, proc, tokens, history, pairing>> /\ Delete(s)
    BY InvTyped DEF TypeParts, Logout
  <1>2. ProcsTyped'
    BY <1>1 DEF ProcsTyped
  <1> QED
    BY <1>1, <1>2, Deletes, RowMove

LEMMA DropKeeps ==
  ASSUME PairingIInv, NEW p \in Procs, Drop(p), UNCHANGED pairing
  PROVE  PairingIInv'
  <1> DEFINE s == proc[p].id
  <1>1. /\ UNCHANGED <<index, begun, stale, device, tokens, history, pairing>>
        /\ Delete(s) /\ Return(p)
    BY DEF Drop
  <1>2. s \in Ids \cup {None}
    BY ProcFacts DEF Proc
  <1> QED
    BY <1>1, <1>2, Deletes, Returns, RowMove

LEMMA DeleteOneKeeps ==
  ASSUME PairingIInv, NEW p \in Procs, NEW s \in Ids, DeleteOne(p, s), UNCHANGED pairing
  PROVE  PairingIInv'
  <1> DEFINE r == proc[p]
             k == [r EXCEPT !.todo = @ \ {s}]
  <1>1. /\ UNCHANGED <<index, begun, stale, device, tokens, history, pairing>> /\ Delete(s)
        /\ r.pc = "delete"
    BY DEF DeleteOne
  <1>2. r \in Proc /\ proc \in [Procs -> Proc]
    BY ProcFacts, InvTyped DEF TypeParts, ProcsTyped
  <1>3. k \in Proc /\ k.pc = "delete" /\ k.id = r.id /\ k.dev = r.dev /\ k.plan = r.plan
        /\ k.family = r.family /\ k.old = r.old /\ k.todo = r.todo \ {s}
    BY <1>1, <1>2 DEF Proc
  <1>4. proc' = [proc EXCEPT ![p] = k]
    BY <1>2 DEF DeleteOne
  <1>5. RowsTyped' /\ \A x \in Ids : row'[x] \in {row[x], NoRow} /\ index'[x] \in {index[x], row[x]}
    BY <1>1, Deletes
  <1>6. row'[s] = NoRow
    BY <1>1, InvTyped DEF TypeParts, RowsTyped, Delete
  <1>7. SweepOK(p) /\ r.id = None
    BY <1>1, ProcFacts DEF RegisterOK, Holds
  <1> HIDE DEF k
  <1>8. ProcsTyped' /\ proc'[p] = k /\ \A q \in Procs \ {p} : proc'[q] = proc[q]
    BY <1>3, <1>4, Becomes
  <1>9. QuietMove(p)
    BY <1>3, <1>7, <1>8 DEF QuietMove, Turns
  <1>10. \A x \in Ids : Tokened(x)' => Tokened(x)
    BY <1>1, <1>3, <1>8 DEF Tokened, Doing, tokens
  <1>11. \A x \in Ids : Doing("rotate", x)' => Doing("rotate", x)
    BY <1>3, <1>8 DEF Doing
  <1>12. SweepOK(p)'
    <2>1. CASE /\ r.dev = None /\ r.plan = <<"family">> /\ r.family \in Families /\ Concluded(r.family)
               /\ Dying(r.family, r.todo)
      <3>1. PICK f, T : f = r.family /\ T = r.todo
        OBVIOUS
      <3>2. Concluded(f)'
        BY <2>1, <3>1, <1>1, <1>3, <1>8 DEF Concluded, Doing, pairing
      <3>3. Dying(f, T \ {s})'
        BY <2>1, <3>1, <3>2, <1>5, <1>6, <1>10, Disjoint DEF Dying, Families
      <3> QED
        BY <2>1, <3>1, <3>2, <3>3, <1>3, <1>8 DEF SweepOK
    <2>2. CASE r.dev = None /\ r.plan = <<"all">> /\ r.old \subseteq stale /\ Out(r.old, r.todo)
      <3>1. PICK S, T : S = r.old /\ T = r.todo
        OBVIOUS
      <3>2. S \subseteq Ids
        BY <2>2, <3>1, BegunTyped
      <3>3. Out(S, T \ {s})'
        BY <2>2, <3>1, <3>2, <1>1, <1>5, <1>6, <1>11, Disjoint DEF Out, Live
      <3> QED
        BY <2>2, <3>1, <3>3, <1>1, <1>3, <1>8 DEF SweepOK
    <2>3. CASE /\ r.dev \in Devices /\ r.plan \in Plans /\ device[r.dev].status = "revoked"
               /\ r.plan = <<"device">> => Gone(r.dev, r.todo)
      <3>1. PICK d, T : d = r.dev /\ T = r.todo
        OBVIOUS
      <3>2. r.plan = <<"device">> => Gone(d, T \ {s})'
        BY <2>3, <3>1, <1>1, <1>5, <1>6, Disjoint DEF Gone
      <3> QED
        BY <2>3, <3>1, <3>2, <1>1, <1>3, <1>8 DEF SweepOK
    <2> QED
      BY <1>1, <1>7, <2>1, <2>2, <2>3 DEF SweepOK
  <1>13. ProcOK(p)'
    <2>1. NewOK(p)' /\ TokenOK(p)' /\ PairingOK(p)'
      BY <1>3, <1>8 DEF NewOK, TokenOK, PairingOK
    <2>2. RegisterOK(p)'
      BY <1>3, <1>7, <1>8 DEF RegisterOK, Holds, Registers
    <2> QED
      BY <1>12, <2>1, <2>2 DEF ProcOK
  <1> QED
    BY <1>1, <1>5, <1>8, <1>9, <1>13, RowMove

LEMMA BindKeeps ==
  ASSUME PairingIInv, NEW p \in Procs, Bind(p), UNCHANGED pairing
  PROVE  PairingIInv'
  <1> DEFINE s == proc[p].id
             d == proc[p].dev
  <1>1. /\ UNCHANGED <<index, begun, stale, device, tokens, history, pairing>>
        /\ proc[p].pc = "bind"
    BY DEF Bind
  <1>2. /\ s \in Ids /\ s \in begun /\ d \in Devices /\ row[s].family \notin Devices
        /\ row[s] \in Row /\ RowOK(s)
    BY <1>1, ProcFacts, BegunTyped, RowFacts DEF RegisterOK, Holds, Registers
  <1>3. CASE Live(s) /\ Active(d) /\ row' = [row EXCEPT ![s].device = d] /\ GoTo(p, "detach")
    <2> DEFINE v == [row[s] EXCEPT !.device = d]
    <2>1. RowsTyped
      BY InvTyped DEF TypeParts
    <2>2. v \in Row /\ v.family = row[s].family /\ v.device = d /\ v.cur = row[s].cur
      BY <1>2 DEF Row
    <2>3. row' = [row EXCEPT ![s] = v]
      BY <1>2, <1>3, <2>1 DEF RowsTyped
    <2> HIDE DEF v
    <2>4. RowsTyped' /\ row'[s] = v /\ \A x \in Ids \ {s} : row'[x] = row[x]
      BY <1>1, <1>2, <2>1, <2>2, <2>3 DEF RowsTyped
    <2>5. row[s].family = s /\ row[s].cur # 0
      BY <1>2, <1>3, Disjoint DEF RowOK, Copy, Live
    <2>6. Copy(s, v)
      BY <2>2, <2>5 DEF Copy
    <2>7. device' = device
      BY <1>1
    <2>8. Carried(s)
      BY <1>2, <1>3, <2>2, <2>4 DEF Carried
    <2>9. \A x \in Ids : row'[x].family = row[x].family
      BY <2>2, <2>4
    <2>10. ProcsTyped' /\ QuietMove(p) /\ ProcOK(p)'
      BY <1>1, <1>3, <2>9, ToDetach DEF Registers
    <2>11. \A x \in Ids : /\ \/ row'[x] \in {row[x], NoRow}
                             \/ Carried(x) /\ Copy(x, row'[x]) /\ row'[x].cur = row[x].cur
                          /\ index'[x] \in {index[x], row[x]}
      BY <1>1, <2>2, <2>4, <2>6, <2>8
    <2> QED
      BY <1>1, <2>4, <2>10, <2>11, RowMove
  <1>4. CASE UNCHANGED row /\ GoTo(p, "detach")
    <2>1. ProcsTyped' /\ QuietMove(p) /\ ProcOK(p)'
      BY <1>1, <1>4, ToDetach DEF Registers
    <2> QED
      BY <1>1, <1>4, <2>1, QuietStep DEF rows
  <1>5. CASE UNCHANGED row /\ Return(p)
    BY <1>1, <1>5, GivesUp DEF Rests, rows
  <1> QED
    BY <1>3, <1>4, <1>5 DEF Bind


\* The answer reaches the client.
LEMMA AnswerKeeps ==
  ASSUME PairingIInv, NEW p \in Procs, Answer(p), UNCHANGED pairing
  PROVE  PairingIInv'
  <1> DEFINE s == proc[p].id
             t == proc[p].tok
  <1>1. /\ UNCHANGED <<rows, device, exchanges, history, pairing>>
        /\ held' = held \cup {<<s, t>>} /\ proc[p].pc = "answer" /\ Return(p)
    BY DEF Answer
  <1>2. s \in begun /\ s \in Ids /\ t \in 1..MaxTokens
    <2>1. t > 0 /\ s \in begun
      BY <1>1, ProcFacts DEF TokenOK, RegisterOK, Holds
    <2>2. t \in 0..MaxTokens
      BY ProcFacts DEF Proc
    <2>3. s \in Ids
      BY <2>1, BegunTyped
    <2> QED
      BY <2>1, <2>2, <2>3, PairingAssumption
  <1>3. ProcsTyped' /\ QuietMove(p) /\ ProcOK(p)' /\ proc'[p] = Idle
    BY <1>1, Returns
  <1>4. \A q \in Procs \ {p} : proc'[q] = proc[q]
    BY <1>3 DEF QuietMove
  <1>5. Doing("answer", s)
    BY <1>1 DEF Doing
  <1>6. ASSUME NEW x \in Ids PROVE TokenStep(x)
    <2>1. /\ Doing("put", x)' => Doing("put", x)
          /\ Doing("rotate", x)' => Doing("rotate", x)
          /\ Doing("answer", x)' => Doing("answer", x)
      BY <1>3, <1>4, IdleTyped DEF Doing
    <2>2. Tokened(x)' => Tokened(x)
      BY <1>1, <1>5, <2>1 DEF Tokened
    <2>3. Bare(x) /\ ~Tokened(x) => Bare(x)'
      BY <1>1, <1>5 DEF Tokened, Bare, Of
    <2> QED
      BY <2>1, <2>2, <2>3 DEF TokenStep
  <1>7. Onward
    BY <1>1, <1>6, DevicesStay DEF Onward, RowStep, rows, pairing
  <1>8. Moved
    BY <1>3 DEF Moved, QuietMove
  <1>9. \A h \in held' \ held : h[1] \in Ids /\ Doing("answer", h[1])
    BY <1>1, <1>2, <1>5
  <1>10. RowsInv' /\ DevicesInv' /\ EndInv'
    BY <1>1, <1>7, <1>8, <1>9, RowsStay, DevicesStay, EndRests DEF rows, pairing
  <1>11. TypeParts'
    BY <1>1, <1>2, <1>3, InvTyped DEF TypeParts, RowsTyped, TokensTyped, EndTyped, DevicesTyped,
       PairsTyped, rows, history, pairing
  <1> QED
    BY <1>7, <1>8, <1>10, <1>11, TypeJoin, Together

\* Log-out everywhere dates the sessions it finds.
LEMMA LogoutAllKeeps ==
  ASSUME PairingIInv, NEW p \in Procs, NEW S \in SUBSET begun, LogoutAll(p, S), UNCHANGED pairing
  PROVE  PairingIInv'
  <1>0. PICK T : T = stale \cup S
    OBVIOUS
  <1> DEFINE k == [Idle EXCEPT !.pc = "list", !.plan = <<"all">>, !.old = T]
  <1>1. UNCHANGED <<row, index, begun, device, tokens, history, pairing>> /\ stale' = T
    BY <1>0 DEF LogoutAll
  <1>2. T \subseteq begun /\ T \subseteq Ids
    BY <1>0, BegunTyped
  <1>3. k \in Proc /\ k.pc = "list" /\ k.plan = <<"all">> /\ k.old = T /\ k.dev = None /\ k.id = None
    BY <1>2, IdleTyped, PlansTyped DEF Proc, Idle
  <1>4. proc' = [proc EXCEPT ![p] = k]
    BY <1>1 DEF LogoutAll, Become
  <1> HIDE DEF k
  <1>5. ProcsTyped' /\ proc'[p] = k /\ \A q \in Procs \ {p} : proc'[q] = proc[q]
    BY <1>3, <1>4, Becomes
  <1>6. QuietMove(p)
    BY <1>3, <1>5 DEF QuietMove, Turns
  <1>7. ProcOK(p)'
    <2>1. NewOK(p)' /\ TokenOK(p)' /\ PairingOK(p)'
      BY <1>3, <1>5 DEF NewOK, TokenOK, PairingOK
    <2>2. RegisterOK(p)'
      BY <1>3, <1>5 DEF RegisterOK, Holds, Registers
    <2>3. SweepOK(p)'
      BY <1>1, <1>3, <1>5 DEF SweepOK
    <2> QED
      BY <2>1, <2>2, <2>3 DEF ProcOK
  <1>8. \A x \in Ids : TokenStep(x)
    BY <1>1, <1>6, TokensQuiet DEF tokens
  <1>9. Onward
    BY <1>0, <1>1, <1>8, DevicesStay DEF Onward, RowStep, pairing
  <1>10. Moved
    BY <1>6, <1>7 DEF Moved, QuietMove
  <1>11. RowsInv' /\ DevicesInv' /\ EndInv'
    BY <1>1, <1>9, <1>10, RowsStay, DevicesStay, EndRests DEF tokens, pairing
  <1>12. TypeParts'
    BY <1>1, <1>2, <1>5, InvTyped DEF TypeParts, RowsTyped, TokensTyped, EndTyped, DevicesTyped,
       PairsTyped, tokens, history, pairing
  <1> QED
    BY <1>9, <1>10, <1>11, <1>12, TypeJoin, Together

\* What the answered sweep has listed and deleted has ended.
LEMMA SweptKeeps ==
  ASSUME PairingIInv, NEW p \in Procs, Swept(p), UNCHANGED pairing
  PROVE  PairingIInv'
  <1> DEFINE r == proc[p]
  <1>1. UNCHANGED <<rows, device, tokens, pairing>> /\ r.pc = "delete" /\ r.todo = {}
    BY DEF Swept
  <1>2. SweepOK(p) /\ r \in Proc
    BY ProcFacts
  <1>3. CASE Len(r.plan) > 1
    <2>1. /\ proc' = [proc EXCEPT ![p].pc = "list", ![p].plan = Tail(@), ![p].todo = {}]
          /\ UNCHANGED history
      BY <1>3 DEF Swept, Sweep
    <2>2. r.dev # None
      BY <1>1, <1>2, <1>3, OnePlans, Disjoint DEF SweepOK
    <2> QED
      BY <1>1, <1>3, <2>1, <2>2, NextSweep DEF Rests
  <1>4. CASE ~(Len(r.plan) > 1)
    <2>1. /\ Return(p)
          /\ ended' = IF Kind(p) = "family" THEN ended \cup {r.family} ELSE ended
          /\ swept' = IF Kind(p) = "revoke" THEN swept \cup {r.dev} ELSE swept
          /\ allOut' = IF Kind(p) = "all" THEN allOut \cup r.old ELSE allOut
      BY <1>4 DEF Swept, Sweep
    <2>2. ProcsTyped' /\ QuietMove(p) /\ ProcOK(p)'
      BY <2>1, Returns
    <2>3. \A x \in Ids : TokenStep(x)
      BY <1>1, <2>2, TokensQuiet DEF tokens
    <2>4. Onward
      BY <1>1, <2>3, DevicesStay DEF Onward, RowStep, rows, pairing
    <2>5. Moved
      BY <2>2 DEF Moved, QuietMove
    <2>6. /\ Kind(p) = "family" => r.family \in Families /\ Dying(r.family, {})
          /\ Kind(p) = "revoke" => r.dev \in Devices /\ Gone(r.dev, {})
          /\ Kind(p) = "all" => Out(r.old, {}) /\ r.old \subseteq Ids
      <3>1. CASE /\ r.dev = None /\ r.plan = <<"family">> /\ r.family \in Families
                 /\ Dying(r.family, r.todo)
        BY <1>1, <3>1 DEF Kind
      <3>2. CASE r.dev = None /\ r.plan = <<"all">> /\ r.old \subseteq stale /\ Out(r.old, r.todo)
        BY <1>1, <3>2, BegunTyped DEF Kind
      <3>3. CASE /\ r.dev \in Devices /\ r.plan \in Plans
                 /\ r.plan = <<"device">> => Gone(r.dev, r.todo)
        <4>1. Kind(p) = "revoke"
          BY <3>3, Disjoint DEF Kind
        <4>2. r.plan = <<"device">>
          BY <1>4, <3>3, PlanTails
        <4> QED
          BY <1>1, <3>3, <4>1, <4>2
      <3> QED
        BY <1>1, <1>2, <3>1, <3>2, <3>3 DEF SweepOK
    <2>7. PICK S : S = IF Kind(p) = "all" THEN r.old ELSE {}
      OBVIOUS
    <2>8. Out(S, {}) /\ S \subseteq Ids /\ allOut' \subseteq allOut \cup S
      BY <2>1, <2>6, <2>7 DEF Out
    <2>9. /\ \A f \in ended' \ ended : f \in Families /\ Dying(f, {})
          /\ \A d \in swept' \ swept : d \in Devices /\ Gone(d, {})
      BY <2>1, <2>6
    <2>10. EndInv'
      BY <2>4, <2>8, <2>9, EndStays
    <2>11. EndTyped'
      <3>1. EndTyped
        BY InvTyped DEF TypeParts
      <3> QED
        BY <2>8, <2>9, <3>1 DEF EndTyped
    <2>12. RowsInv' /\ DevicesInv'
      BY <1>1, <2>4, <2>5, RowsStay, DevicesStay DEF rows, tokens, pairing
    <2>13. TypeParts'
      BY <1>1, <2>2, <2>11, InvTyped DEF TypeParts, RowsTyped, TokensTyped, DevicesTyped, PairsTyped,
         rows, tokens, pairing
    <2> QED
      BY <2>4, <2>5, <2>10, <2>12, <2>13, TypeJoin, Together
  <1> QED
    BY <1>3, <1>4


-----------------------------------------------------------------------------
(***************************************************************************)
(* The steps that start a session.                                         *)
(***************************************************************************)
LEMMA RowsBegin ==
  ASSUME PairingIInv, Onward, Moved, UNCHANGED tokens,
         \A s \in Ids : \/ row'[s] = row[s]
                        \/ /\ row[s] = NoRow /\ index[s] = NoRow /\ Of(s) = {}
                           /\ s \in begun' /\ Copy(s, row'[s]) /\ row'[s].cur = 1
  PROVE  RowsInv'
  <1>1. \A r \in Procs : ProcOK(r)'
    BY AllKept
  <1>2. \A r \in Procs : proc'[r].id \in begun' \cup {None}
                         /\ (proc'[r].pc \in Holds => proc'[r].id \in begun')
    BY <1>1 DEF ProcOK, RegisterOK
  <1>3. ASSUME NEW s \in Ids PROVE RowOK(s)'
    <2>1. RowOK(s) /\ RowStep(s) /\ Of(s)' = Of(s) /\ (s \in begun => s \in begun')
      BY RowFacts DEF Onward, Of, tokens
    <2>2. Copy(s, row'[s]) /\ Copy(s, index'[s])
      BY <2>1 DEF RowOK, RowStep, Copy
    <2>3. /\ Live(s)' /\ index'[s].cur # 0 => index'[s].family = row'[s].family
          /\ Live(s)' => row'[s].cur = 1 + Cardinality(Of(s)')
      <3>1. CASE row'[s] = row[s]
        BY <2>1, <3>1 DEF RowOK, RowStep, Live
      <3>2. CASE /\ row[s] = NoRow /\ index[s] = NoRow /\ Of(s) = {} /\ row'[s].cur = 1
        <4>1. index'[s] = NoRow
          BY <2>1, <3>2 DEF RowStep
        <4>2. Cardinality(Of(s)') = 0
          BY <2>1, <3>2, FS_EmptySet
        <4> QED
          BY <3>2, <4>1, <4>2, Disjoint
      <3> QED
        BY <3>1, <3>2
    <2>4. \A h \in held' : h[1] = s => s \in begun /\ Owned(s)
      BY <2>1, TokenedFacts DEF RowOK, Tokened, tokens
    <2>5. Tokened(s)' => s \in begun'
      BY <1>2, <2>1, <2>4 DEF Tokened, Doing, Holds
    <2>6. Live(s)' \/ index'[s].cur # 0 => s \in begun'
      BY <2>1, Disjoint DEF RowOK, RowStep, Live
    <2>7. s \notin begun' => Bare(s)' /\ \A p \in Procs : proc'[p].id # s
      BY <1>2, <2>1, <2>4, Disjoint DEF RowOK, Bare
    <2>8. (\E h \in held' : h[1] = s) => Owned(s)'
      BY <2>4, OwnedStays
    <2> QED
      BY <2>2, <2>3, <2>5, <2>6, <2>7, <2>8 DEF RowOK
  <1>4. /\ IsFiniteSet(exchanges)' /\ ExchangedOnce'
        /\ \A e \in exchanges' : e.from <= Cardinality(Of(e.id)')
    BY DEF PairingIInv, RowsInv, ExchangedOnce, Of, tokens
  <1> QED
    BY <1>3, <1>4 DEF RowsInv

LEMMA SignInKeeps ==
  ASSUME PairingIInv, NEW p \in Procs, NEW s \in Ids, SignIn(p, s), UNCHANGED pairing
  PROVE  PairingIInv'
  <1> DEFINE k == [Idle EXCEPT !.pc = "put", !.id = s]
  <1>1. /\ UNCHANGED <<row, index, stale, device, tokens, history, pairing>>
        /\ begun' = begun \cup {s} /\ s \notin begun
    BY DEF SignIn
  <1>2. k \in Proc /\ k.pc = "put" /\ k.id = s
    BY IdleTyped DEF Proc, Idle
  <1>3. proc' = [proc EXCEPT ![p] = k]
    BY DEF SignIn, Become
  <1> HIDE DEF k
  <1>4. ProcsTyped' /\ proc'[p] = k /\ \A q \in Procs \ {p} : proc'[q] = proc[q]
    BY <1>2, <1>3, Becomes
  <1>5. /\ row[s] = NoRow /\ index[s] = NoRow /\ ~Tokened(s) /\ Bare(s)
        /\ \A q \in Procs : proc[q].id # s
    BY <1>1, RowFacts DEF RowOK
  <1>6. ASSUME NEW x \in Ids PROVE TokenStep(x)
    <2>1. /\ Doing("rotate", x)' => Doing("rotate", x)
          /\ Doing("answer", x)' => Doing("answer", x)
          /\ Doing("put", x)' => Doing("put", x) \/ x = s
      BY <1>2, <1>4 DEF Doing
    <2>2. Bare(x)' = Bare(x) /\ held' = held
      BY <1>1 DEF Bare, Of, tokens
    <2>3. Tokened(x)' => Tokened(x)
      BY <2>1, <2>2 DEF Tokened
    <2> QED
      BY <1>1, <2>1, <2>2, <2>3 DEF TokenStep
  <1>7. Onward
    BY <1>1, <1>6, DevicesStay DEF Onward, RowStep, pairing
  <1>8. ProcOK(p)'
    <2>1. TokenOK(p)' /\ PairingOK(p)' /\ SweepOK(p)'
      BY <1>2, <1>4 DEF TokenOK, PairingOK, SweepOK
    <2>2. RegisterOK(p)'
      BY <1>1, <1>2, <1>4 DEF RegisterOK, Holds, Registers
    <2>3. NewOK(p)'
      <3>1. Bare(s)' /\ Alone(p)'
        BY <1>1, <1>2, <1>4, <1>5 DEF Bare, Of, Alone, tokens
      <3> QED
        BY <1>1, <1>2, <1>4, <1>5, <3>1 DEF NewOK
    <2> QED
      BY <2>1, <2>2, <2>3 DEF ProcOK
  <1>9. Moved
    BY <1>1, <1>2, <1>4, <1>8 DEF Moved, Turns
  <1>10. RowsInv' /\ DevicesInv' /\ EndInv'
    BY <1>1, <1>7, <1>9, RowsBegin, DevicesStay, EndRests DEF pairing
  <1>11. TypeParts'
    BY <1>1, <1>4, InvTyped DEF TypeParts, RowsTyped, TokensTyped, EndTyped, DevicesTyped, PairsTyped,
       tokens, history, pairing
  <1> QED
    BY <1>7, <1>9, <1>10, <1>11, TypeJoin, Together

LEMMA PutKeeps ==
  ASSUME PairingIInv, NEW p \in Procs, Put(p), UNCHANGED pairing
  PROVE  PairingIInv'
  <1>0. PICK s : s = proc[p].id
    OBVIOUS
  <1> DEFINE k == [Idle EXCEPT !.pc = "answer", !.id = s, !.tok = 1]
             v == [family |-> s, device |-> None, cur |-> 1, prev |-> 0]
  <1>1. /\ UNCHANGED <<index, begun, stale, device, tokens, history, pairing>>
        /\ proc[p].pc = "put" /\ row' = [row EXCEPT ![s] = v]
    BY <1>0 DEF Put
  <1>2. /\ s \in Ids /\ s \in begun /\ Bare(s) /\ Alone(p)
        /\ row[s] = NoRow /\ index[s] = NoRow
    BY <1>0, <1>1, ProcFacts, BegunTyped DEF NewOK, RegisterOK, Holds
  <1>3. 1 \in 0..MaxTokens /\ 0 \in 0..MaxTokens
    BY PairingAssumption
  <1>4. k \in Proc /\ k.pc = "answer" /\ k.id = s /\ k.tok = 1
    BY <1>2, <1>3, IdleTyped DEF Proc, Idle
  <1>5. v \in Row /\ v.family = s /\ v.device = None /\ v.cur = 1
    BY <1>2, <1>3 DEF Row, Families
  <1>6. proc' = [proc EXCEPT ![p] = k]
    BY <1>0 DEF Put, Become
  <1> HIDE DEF k, v
  <1>7. ProcsTyped' /\ proc'[p] = k /\ \A q \in Procs \ {p} : proc'[q] = proc[q]
    BY <1>4, <1>6, Becomes
  <1>8. RowsTyped' /\ row'[s] = v /\ \A x \in Ids \ {s} : row'[x] = row[x]
    BY <1>1, <1>2, <1>5, InvTyped DEF TypeParts, RowsTyped
  <1>9. Doing("put", s) /\ ~Doing("put", s)'
    BY <1>0, <1>1, <1>2, <1>4, <1>7 DEF Doing, Alone
  <1>10. ASSUME NEW x \in Ids PROVE TokenStep(x)
    <2>1. /\ Doing("rotate", x)' => Doing("rotate", x)
          /\ Doing("answer", x)' => Doing("answer", x) \/ x = s
          /\ Doing("put", x)' => Doing("put", x)
      BY <1>4, <1>7 DEF Doing
    <2>2. Bare(x)' = Bare(x) /\ held' = held
      BY <1>1 DEF Bare, Of, tokens
    <2>3. Tokened(x)' => Tokened(x) \/ Doing("put", x)
      BY <1>9, <2>1, <2>2 DEF Tokened
    <2> QED
      BY <2>1, <2>2, <2>3 DEF TokenStep
  <1>11. \A x \in Ids : row'[x] = row[x] \/ Made(x)
    BY <1>5, <1>8, <1>9 DEF Made
  <1>12. Onward
    BY <1>1, <1>10, <1>11, DevicesStay DEF Onward, RowStep, pairing
  <1>13. ProcOK(p)'
    <2>1. NewOK(p)' /\ PairingOK(p)' /\ SweepOK(p)'
      BY <1>4, <1>7 DEF NewOK, PairingOK, SweepOK
    <2>2. RegisterOK(p)'
      BY <1>1, <1>2, <1>4, <1>7 DEF RegisterOK, Holds, Registers
    <2>3. Owned(s)'
      <3>1. row'[s].family \notin Devices /\ index'[s].family \notin Devices
        BY <1>1, <1>2, <1>5, <1>8, Disjoint
      <3> QED
        BY <3>1 DEF Owned
    <2>4. TokenOK(p)'
      BY <1>4, <1>7, <2>3 DEF TokenOK
    <2> QED
      BY <2>1, <2>2, <2>4 DEF ProcOK
  <1>14. Moved
    BY <1>0, <1>4, <1>7, <1>13 DEF Moved, Turns
  <1>15. Copy(s, v)
    BY <1>5 DEF Copy
  <1>16. \A x \in Ids : \/ row'[x] = row[x]
                        \/ /\ row[x] = NoRow /\ index[x] = NoRow /\ Of(x) = {}
                           /\ x \in begun' /\ Copy(x, row'[x]) /\ row'[x].cur = 1
    BY <1>1, <1>2, <1>5, <1>8, <1>15 DEF Bare
  <1>17. RowsInv' /\ DevicesInv' /\ EndInv'
    BY <1>1, <1>12, <1>14, <1>16, RowsBegin, DevicesStay, EndRests DEF pairing
  <1>18. TypeParts'
    BY <1>1, <1>7, <1>8, InvTyped DEF TypeParts, TokensTyped, EndTyped, DevicesTyped, PairsTyped,
       tokens, history, pairing
  <1> QED
    BY <1>12, <1>14, <1>17, <1>18, TypeJoin, Together

\* A poll that finds the pairing bound puts a session, whose token it has yet to get.
LEMMA ClaimSessionKeeps ==
  ASSUME PairingIInv, NEW p \in Procs, NEW s \in Ids, ClaimSession(p, s)
  PROVE  PairingIInv'
  <1>0. PICK d : d = proc[p].dev
    OBVIOUS
  <1> DEFINE r == proc[p]
             k == [r EXCEPT !.pc = "settle", !.id = s]
             v == [family |-> device[d].family, device |-> d, cur |-> 1, prev |-> 0]
  <1>1. /\ UNCHANGED <<index, stale, device, tokens, history, pairing>>
        /\ r.pc = "claim" /\ row' = [row EXCEPT ![s] = v] /\ s \notin begun
        /\ begun' = begun \cup {s}
    BY <1>0 DEF ClaimSession
  <1>2. /\ r.pair \in Pairs /\ d \in Devices /\ pair[r.pair].device = d
        /\ pair[r.pair].status \in {"bound", "claimed"}
    BY <1>0, <1>1, ProcFacts DEF PairingOK
  <1>3. device[d].family = d
    BY <1>2, PairFacts, Disjoint DEF PairingIInv, DevicesInv
  <1>4. 1 \in 0..MaxTokens /\ 0 \in 0..MaxTokens
    BY PairingAssumption
  <1>5. r \in Proc /\ proc \in [Procs -> Proc]
    BY ProcFacts, InvTyped DEF TypeParts, ProcsTyped
  <1>6. k \in Proc /\ k.pc = "settle" /\ k.id = s /\ k.pair = r.pair /\ k.dev = r.dev
    BY <1>5 DEF Proc
  <1>7. v \in Row /\ v.family = d /\ v.device = d /\ v.cur = 1
    BY <1>2, <1>3, <1>4 DEF Row, Families
  <1>8. proc' = [proc EXCEPT ![p] = k]
    BY <1>5 DEF ClaimSession
  <1> HIDE DEF k, v
  <1>9. ProcsTyped' /\ proc'[p] = k /\ \A q \in Procs \ {p} : proc'[q] = proc[q]
    BY <1>6, <1>8, Becomes
  <1>10. RowsTyped' /\ row'[s] = v /\ \A x \in Ids \ {s} : row'[x] = row[x]
    BY <1>1, <1>7, InvTyped DEF TypeParts, RowsTyped
  <1>11. /\ row[s] = NoRow /\ index[s] = NoRow /\ ~Tokened(s) /\ Bare(s)
         /\ \A q \in Procs : proc[q].id # s
    BY <1>1, RowFacts DEF RowOK
  <1>12. ASSUME NEW x \in Ids PROVE TokenStep(x)
    <2>1. /\ Doing("rotate", x)' => Doing("rotate", x)
          /\ Doing("answer", x)' => Doing("answer", x)
          /\ Doing("put", x)' => Doing("put", x)
      BY <1>6, <1>9 DEF Doing
    <2>2. Bare(x)' = Bare(x) /\ held' = held
      BY <1>1 DEF Bare, Of, tokens
    <2>3. Tokened(x)' => Tokened(x)
      BY <2>1, <2>2 DEF Tokened
    <2> QED
      BY <2>1, <2>2, <2>3 DEF TokenStep
  <1>13. \A x \in Ids : row'[x] = row[x] \/ Made(x)
    BY <1>1, <1>2, <1>7, <1>10 DEF Made, Provisioned
  <1>14. Onward
    BY <1>1, <1>12, <1>13, DevicesStay DEF Onward, RowStep, pairing
  <1>15. ProcOK(p)'
    <2>1. TokenOK(p)' /\ SweepOK(p)'
      BY <1>6, <1>9 DEF TokenOK, SweepOK
    <2>2. RegisterOK(p)'
      BY <1>1, <1>6, <1>9 DEF RegisterOK, Holds, Registers
    <2>3. NewOK(p)'
      <3>1. Bare(s)' /\ Alone(p)'
        BY <1>1, <1>6, <1>9, <1>11 DEF Bare, Of, Alone, tokens
      <3>2. row'[s].family = d /\ index'[s].family = None
        BY <1>1, <1>7, <1>10, <1>11, Disjoint
      <3> QED
        BY <1>0, <1>6, <1>9, <3>1, <3>2 DEF NewOK
    <2>4. PairingOK(p)'
      BY <1>0, <1>1, <1>2, <1>6, <1>9 DEF PairingOK, pairing
    <2> QED
      BY <2>1, <2>2, <2>3, <2>4 DEF ProcOK
  <1>16. Moved
    BY <1>1, <1>6, <1>9, <1>15 DEF Moved, Turns
  <1>17. Copy(s, v)
    BY <1>2, <1>7 DEF Copy
  <1>18. \A x \in Ids : \/ row'[x] = row[x]
                        \/ /\ row[x] = NoRow /\ index[x] = NoRow /\ Of(x) = {}
                           /\ x \in begun' /\ Copy(x, row'[x]) /\ row'[x].cur = 1
    BY <1>1, <1>7, <1>10, <1>11, <1>17 DEF Bare
  <1>19. RowsInv' /\ DevicesInv' /\ EndInv'
    BY <1>1, <1>14, <1>16, <1>18, RowsBegin, DevicesStay, EndRests DEF pairing
  <1>21. TypeParts'
    BY <1>1, <1>9, <1>10, InvTyped DEF TypeParts, TokensTyped, EndTyped, DevicesTyped, PairsTyped,
       tokens, history, pairing
  <1> QED
    BY <1>14, <1>16, <1>19, <1>21, TypeJoin, Together


-----------------------------------------------------------------------------
(***************************************************************************)
(* The exchange of a token.                                                *)
(***************************************************************************)
\* The exchanges of a session are counted in its token, so that a new one is of a
\* token that no exchange was of.
LEMMA OneMore ==
  ASSUME PairingIInv, NEW s \in Ids, NEW t, t = row[s].cur, t # 0
  PROVE  LET e == [id |-> s, from |-> t, to |-> NewToken(s)] IN
         /\ t = 1 + Cardinality(Of(s)) /\ NewToken(s) = t + 1 /\ t \in Nat
         /\ e \notin exchanges
         /\ exchanges' = exchanges \cup {e} =>
              /\ Of(s)' = Of(s) \cup {e} /\ \A x \in Ids \ {s} : Of(x)' = Of(x)
              /\ IsFiniteSet(exchanges') /\ ExchangedOnce'
              /\ Cardinality(Of(s)') = t
              /\ \A f \in exchanges' : f.from <= Cardinality(Of(f.id)')
  <1> DEFINE e == [id |-> s, from |-> t, to |-> NewToken(s)]
             n == Cardinality(Of(s))
  <1>1. IsFiniteSet(exchanges) /\ ExchangedOnce
        /\ \A f \in exchanges : f.from <= Cardinality(Of(f.id))
    BY DEF PairingIInv, RowsInv
  <1>2. exchanges \subseteq [id : Ids, from : 1..MaxTokens, to : 1..MaxTokens]
    BY InvTyped DEF TypeParts, TokensTyped
  <1>3. IsFiniteSet(Of(s)) /\ n \in Nat
    <2>1. Of(s) \subseteq exchanges
      BY DEF Of
    <2>2. IsFiniteSet(Of(s))
      BY <1>1, <2>1, FS_Subset
    <2> QED
      BY <2>2, FS_CardinalityType
  <1>4. t = 1 + n
    BY RowFacts DEF RowOK, Live
  <1>5. NewToken(s) = 2 + n
    BY DEF NewToken, Of
  <1>6. NewToken(s) = t + 1 /\ t \in Nat
    BY <1>3, <1>4, <1>5
  <1>7. \A f \in exchanges : f.id = s => f.from # t
    <2> TAKE f \in exchanges
    <2>1. f.from \in Nat
      BY <1>2, PairingAssumption
    <2>2. f.id = s => f.from <= n
      BY <1>1
    <2> QED
      BY <1>3, <1>4, <2>1, <2>2
  <1>8. e.id = s /\ e.from = t
    OBVIOUS
  <1>9. e \notin exchanges
    BY <1>7, <1>8
  <1> HIDE DEF e, n
  <1>10. ASSUME exchanges' = exchanges \cup {e}
         PROVE  /\ Of(s)' = Of(s) \cup {e} /\ \A x \in Ids \ {s} : Of(x)' = Of(x)
                /\ IsFiniteSet(exchanges') /\ ExchangedOnce'
                /\ Cardinality(Of(s)') = t
                /\ \A f \in exchanges' : f.from <= Cardinality(Of(f.id)')
    <2>1. Of(s)' = Of(s) \cup {e} /\ \A x \in Ids \ {s} : Of(x)' = Of(x)
      BY <1>8, <1>10 DEF Of
    <2>2. IsFiniteSet(exchanges')
      BY <1>1, <1>10, FS_AddElement
    <2>3. ExchangedOnce'
      BY <1>1, <1>7, <1>8, <1>10 DEF ExchangedOnce
    <2>4. Cardinality(Of(s)') = n + 1
      <3>1. e \notin Of(s)
        BY <1>9 DEF Of
      <3> QED
        BY <1>3, <2>1, <3>1, FS_AddElement DEF n
    <2>5. Cardinality(Of(s)') = t
      BY <1>3, <1>4, <2>4 DEF n
    <2>6. ASSUME NEW f \in exchanges' PROVE f.from <= Cardinality(Of(f.id)')
      <3>1. CASE f = e
        BY <1>6, <1>8, <2>5, <3>1
      <3>2. CASE f \in exchanges /\ f.id = s
        <4>1. f.from \in Nat
          BY <1>2, <3>2, PairingAssumption
        <4>2. f.from <= n
          BY <1>1, <3>2 DEF n
        <4> QED
          BY <1>3, <2>4, <3>2, <4>1, <4>2
      <3>3. CASE f \in exchanges /\ f.id # s
        BY <1>1, <1>2, <2>1, <3>3
      <3> QED
        BY <1>10, <3>1, <3>2, <3>3
    <2> QED
      BY <2>1, <2>2, <2>3, <2>5, <2>6
  <1> QED
    BY <1>4, <1>6, <1>9, <1>10 DEF e, n


LEMMA ExchangeKeeps ==
  ASSUME PairingIInv, NEW p \in Procs, proc[p].pc = "rotate", NewToken(proc[p].id) <= MaxTokens,
         row[proc[p].id].cur = proc[p].tok, Exchange(p),
         UNCHANGED <<index, begun, stale, device, held, history, pairing>>
  PROVE  PairingIInv'
  <1>0. PICK s, t, u : s = proc[p].id /\ t = proc[p].tok /\ u = NewToken(s)
    OBVIOUS
  <1> DEFINE v == [row[s] EXCEPT !.prev = t, !.cur = u]
             k == [Idle EXCEPT !.pc = "answer", !.id = s, !.tok = u]
             e == [id |-> s, from |-> t, to |-> u]
  <1>1. s \in begun /\ s \in Ids /\ t # 0 /\ Owned(s) /\ t \in 0..MaxTokens
    <2>1. RegisterOK(p) /\ TokenOK(p) /\ proc[p] \in Proc
      BY ProcFacts
    <2>2. s \in begun /\ t > 0 /\ Owned(s)
      BY <1>0, <2>1 DEF RegisterOK, Holds, TokenOK
    <2>3. t \in 0..MaxTokens
      BY <1>0, <2>1 DEF Proc
    <2> QED
      BY <2>2, <2>3, BegunTyped, PairingAssumption
  <1>2. t = row[s].cur /\ u = t + 1 /\ t \in 1..MaxTokens /\ u \in 1..MaxTokens /\ row[s] \in Row
    <2>1. t = row[s].cur /\ row[s] \in Row
      BY <1>0, <1>1, RowFacts
    <2>2. u = t + 1 /\ t \in Nat
      BY <1>0, <1>1, <2>1, OneMore
    <2> QED
      BY <1>0, <1>1, <2>1, <2>2, PairingAssumption
  <1>3. /\ exchanges' = exchanges \cup {e}
        /\ proc' = [proc EXCEPT ![p] = k]
    BY <1>0 DEF Exchange, Become
  <1>4. v \in Row /\ v.cur = u /\ v.family = row[s].family /\ v.device = row[s].device
    <2>1. u \in 0..MaxTokens /\ t \in 0..MaxTokens
      BY <1>2, PairingAssumption
    <2>2. row[s] \in Row
      BY <1>2
    <2> QED
      BY <2>1, <2>2 DEF Row
  <1>5. row' = [row EXCEPT ![s] = v]
    BY <1>0, <1>1, InvTyped DEF TypeParts, RowsTyped, Exchange
  <1>6. k \in Proc /\ k.pc = "answer" /\ k.id = s /\ k.tok = u
    <2>1. u \in 0..MaxTokens
      BY <1>2, PairingAssumption
    <2> QED
      BY <1>1, <2>1, IdleTyped DEF Proc, Idle
  <1>7. e \in [id : Ids, from : 1..MaxTokens, to : 1..MaxTokens]
    BY <1>1, <1>2
  <1>8. /\ Of(s)' = Of(s) \cup {e} /\ \A x \in Ids \ {s} : Of(x)' = Of(x)
        /\ IsFiniteSet(exchanges') /\ ExchangedOnce'
        /\ Cardinality(Of(s)') = t
        /\ \A f \in exchanges' : f.from <= Cardinality(Of(f.id)')
    <2>1. t # 0
      BY <1>1
    <2>2. exchanges' = exchanges \cup {[id |-> s, from |-> t, to |-> NewToken(s)]}
      BY <1>0, <1>3
    <2>3. [id |-> s, from |-> t, to |-> NewToken(s)] = e
      BY <1>0
    <2> HIDE DEF e
    <2> QED
      BY <1>1, <1>2, <2>1, <2>2, <2>3, OneMore
  <1> HIDE DEF v, k, e
  <1>9. ProcsTyped' /\ proc'[p] = k /\ \A q \in Procs \ {p} : proc'[q] = proc[q]
    BY <1>3, <1>6, Becomes
  <1>10. RowsTyped' /\ row'[s] = v /\ \A x \in Ids \ {s} : row'[x] = row[x]
    BY <1>1, <1>4, <1>5, InvTyped DEF TypeParts, RowsTyped
  <1>11. Tokened(s)
    BY <1>0 DEF Tokened, Doing
  <1>12. ASSUME NEW x \in Ids PROVE TokenStep(x)
    <2>1. /\ Doing("rotate", x)' => Doing("rotate", x)
          /\ Doing("answer", x)' => Doing("answer", x) \/ x = s
          /\ Doing("put", x)' => Doing("put", x)
      BY <1>6, <1>9 DEF Doing
    <2>2. x # s => Bare(x)' = Bare(x)
      BY <1>8 DEF Bare
    <2>3. Tokened(x)' => Tokened(x)
      BY <1>11, <2>1 DEF Tokened
    <2> QED
      BY <1>11, <2>1, <2>2, <2>3 DEF TokenStep
  <1>13. Carried(s)
    BY <1>1, <1>2, <1>4, <1>10 DEF Carried, Live
  <1>14. Onward
    BY <1>10, <1>12, <1>13, DevicesStay DEF Onward, RowStep, pairing
  <1>15. ProcOK(p)'
    <2>1. NewOK(p)' /\ PairingOK(p)' /\ SweepOK(p)'
      BY <1>6, <1>9 DEF NewOK, PairingOK, SweepOK
    <2>2. RegisterOK(p)'
      BY <1>1, <1>6, <1>9 DEF RegisterOK, Holds, Registers
    <2>3. Owned(s)'
      BY <1>1, <1>14, OwnedStays
    <2>4. TokenOK(p)'
      BY <1>2, <1>6, <1>9, <2>3 DEF TokenOK
    <2> QED
      BY <2>1, <2>2, <2>4 DEF ProcOK
  <1>16. Moved
    BY <1>0, <1>6, <1>9, <1>15 DEF Moved, Turns
  <1>17. \A r \in Procs : proc'[r].id \in begun \cup {None}
                          /\ (proc'[r].pc \in Holds => proc'[r].id \in begun)
    <2>1. \A r \in Procs : ProcOK(r)'
      BY <1>14, <1>16, AllKept
    <2> QED
      BY <2>1 DEF ProcOK, RegisterOK
  <1>18. ASSUME NEW x \in Ids, x # s PROVE RowOK(x)'
    <2>1. RowOK(x) /\ row'[x] = row[x] /\ index'[x] = index[x] /\ Of(x)' = Of(x)
      BY <1>8, <1>10, <1>18, RowFacts
    <2>2. /\ Copy(x, row[x])' /\ Copy(x, index[x])'
          /\ Live(x)' /\ index'[x].cur # 0 => index'[x].family = row'[x].family
          /\ Live(x)' => row'[x].cur = 1 + Cardinality(Of(x)')
      BY <2>1 DEF RowOK, Copy, Live
    <2>3. /\ Live(x)' \/ index'[x].cur # 0 \/ Tokened(x)' => x \in begun
          /\ x \notin begun => Bare(x)' /\ \A r \in Procs : proc'[r].id # x
      <3>1. Tokened(x)' => x \in begun
        BY <1>17, <2>1 DEF Tokened, Doing, Holds, RowOK
      <3>2. x \notin begun => Bare(x)' /\ \A r \in Procs : proc'[r].id # x
        BY <1>17, <2>1, Disjoint DEF RowOK, Bare
      <3> QED
        BY <2>1, <3>1, <3>2 DEF RowOK, Live
    <2>4. (\E h \in held' : h[1] = x) => Owned(x)'
      BY <1>14, <2>1, OwnedStays, TokenedFacts DEF RowOK, Tokened
    <2> QED
      BY <2>2, <2>3, <2>4 DEF RowOK
  <1>19. RowOK(s)'
    <2>1. RowOK(s) /\ index'[s] = index[s] /\ row'[s].cur = t + 1 /\ row'[s].family = row[s].family
          /\ row'[s].device = row[s].device /\ row[s].cur # 0 /\ t \in Nat
      BY <1>1, <1>2, <1>4, <1>10, RowFacts
    <2>2. Copy(s, row[s])' /\ Copy(s, index[s])'
      BY <2>1, Disjoint DEF RowOK, Copy
    <2>3. Live(s)' /\ index'[s].cur # 0 => index'[s].family = row'[s].family
      BY <2>1 DEF RowOK, Live
    <2>4. row'[s].cur = 1 + Cardinality(Of(s)')
      BY <1>8, <2>1
    <2>5. Owned(s)'
      BY <1>1, <1>14, OwnedStays
    <2> QED
      BY <1>1, <2>2, <2>3, <2>4, <2>5 DEF RowOK
  <1>20. RowsInv'
    BY <1>8, <1>18, <1>19 DEF RowsInv
  <1>21. DevicesInv' /\ EndInv'
    BY <1>14, DevicesStay, EndRests DEF pairing
  <1>22. TokensTyped'
    BY <1>3, <1>7, InvTyped DEF TypeParts, TokensTyped
  <1>23. TypeParts'
    BY <1>9, <1>10, <1>22, InvTyped DEF TypeParts, EndTyped, DevicesTyped, PairsTyped, history, pairing
  <1> QED
    BY <1>14, <1>16, <1>20, <1>21, <1>23, TypeJoin, Together

LEMMA RotateKeeps ==
  ASSUME PairingIInv, NEW p \in Procs, Rotate(p), UNCHANGED pairing
  PROVE  PairingIInv'
  <1> DEFINE r == proc[p]
             s == r.id
  <1>1. UNCHANGED <<index, begun, stale, device, held, history>> /\ r.pc = "rotate"
        /\ NewToken(s) <= MaxTokens
    BY DEF Rotate
  <1>2. s \in begun /\ s \in Ids /\ r.tok > 0 /\ Owned(s) /\ r \in Proc
    BY <1>1, ProcFacts, BegunTyped DEF RegisterOK, Holds, TokenOK
  <1>3. CASE row[s].cur = r.tok /\ Exchange(p)
    BY <1>1, <1>3, ExchangeKeeps
  <1>4. CASE /\ Become(p, [r EXCEPT !.pc = "adjudicate", !.dev = None])
             /\ UNCHANGED <<row, exchanges>>
    <2> DEFINE k == [r EXCEPT !.pc = "adjudicate", !.dev = None]
    <2>1. k \in Proc /\ k.pc = "adjudicate" /\ k.id = s /\ k.tok = r.tok
      BY <1>2 DEF Proc
    <2>2. proc' = [proc EXCEPT ![p] = k]
      BY <1>4 DEF Become
    <2> HIDE DEF k
    <2>3. ProcsTyped' /\ proc'[p] = k /\ \A q \in Procs \ {p} : proc'[q] = proc[q]
      BY <2>1, <2>2, Becomes
    <2>4. QuietMove(p)
      BY <2>1, <2>3 DEF QuietMove, Turns
    <2>5. NewOK(p)' /\ PairingOK(p)' /\ SweepOK(p)'
      BY <2>1, <2>3 DEF NewOK, PairingOK, SweepOK
    <2>6. RegisterOK(p)'
      BY <1>1, <1>2, <2>1, <2>3 DEF RegisterOK, Holds, Registers
    <2>7. TokenOK(p)'
      BY <1>1, <1>2, <1>4, <2>1, <2>3 DEF TokenOK, Owned, Claimed, pairing
    <2>8. ProcOK(p)'
      BY <2>5, <2>6, <2>7 DEF ProcOK
    <2> QED
      BY <1>1, <1>4, <2>3, <2>4, <2>8, QuietStep DEF rows, tokens
  <1>5. CASE DropSession(p, s) /\ UNCHANGED <<row, exchanges>>
    BY <1>1, <1>2, <1>5, DropsSession DEF Rests, rows, tokens
  <1> QED
    BY <1>3, <1>4, <1>5 DEF Rotate


-----------------------------------------------------------------------------
(***************************************************************************)
(* The invariant holds.                                                    *)
(***************************************************************************)
LEMMA PairingStarts == PairingInit => PairingIInv
  <1> SUFFICES ASSUME PairingInit PROVE PairingIInv
    OBVIOUS
  <1>1. /\ row = [s \in Ids |-> NoRow] /\ index = row /\ begun = {} /\ stale = {}
        /\ device = [d \in Devices |-> NoDevice] /\ proc = [p \in Procs |-> Idle]
        /\ held = {} /\ exchanges = {} /\ ended = {} /\ swept = {} /\ allOut = {}
        /\ pair = [n \in Pairs |-> NoPair] /\ granted = [n \in Pairs |-> {}] /\ lost = {}
    BY DEF PairingInit, Init
  <1>2. NoRow \in Row /\ 0 \in Nat
    BY PairingAssumption DEF NoRow, Row
  <1>3. TypeOK
    <2>1. /\ row \in [Ids -> Row] /\ index \in [Ids -> Row]
          /\ device \in [Devices -> Device] /\ proc \in [Procs -> Proc]
      BY <1>1, <1>2, IdleTyped
    <2>2. pair \in [Pairs -> [status : {"none", "pending", "bound", "claimed", "failed"},
                              device : Devices \cup {None}, codes : Nat, expired : BOOLEAN]]
      BY <1>1, <1>2 DEF NoPair
    <2>3. \A n \in Pairs : pair[n].status = "none"
      BY <1>1 DEF NoPair
    <2> QED
      BY <1>1, <2>1, <2>2, <2>3 DEF TypeOK, SessionsTypeOK
  <1>4. RowsInv
    <2>1. \A s \in Ids : Of(s) = {} /\ Bare(s) /\ ~Live(s) /\ index[s].cur = 0 /\ ~Tokened(s)
      BY <1>1, IdleTyped, Disjoint DEF Of, Bare, Live, Tokened, Doing
    <2>2. \A s \in Ids : RowOK(s)
      BY <1>1, <2>1, IdleTyped, Disjoint DEF RowOK, Copy
    <2> QED
      BY <1>1, <2>2, FS_EmptySet DEF RowsInv, ExchangedOnce
  <1>5. DevicesInv
    <2>1. \A n \in Pairs : pair[n].device = None /\ granted[n] = {} /\ Cardinality(granted[n]) <= 1
      BY <1>1, FS_EmptySet DEF NoPair
    <2> QED
      BY <1>1, <2>1 DEF DevicesInv, NoDevice
  <1>6. EndInv
    BY <1>1 DEF EndInv, Out
  <1>7. ASSUME NEW p \in Procs PROVE ProcOK(p)
    <2>1. proc[p] = Idle
      BY <1>1
    <2>2. NewOK(p) /\ TokenOK(p) /\ PairingOK(p) /\ SweepOK(p)
      BY <2>1, IdleTyped DEF NewOK, TokenOK, PairingOK, SweepOK
    <2>3. RegisterOK(p)
      BY <2>1, IdleTyped DEF RegisterOK, Holds, Registers
    <2> QED
      BY <2>2, <2>3 DEF ProcOK
  <1> QED
    BY <1>3, <1>4, <1>5, <1>6, <1>7 DEF PairingIInv

LEMMA StandsStill ==
  ASSUME PairingIInv, UNCHANGED allVars
  PROVE  PairingIInv'
  <1>1. UNCHANGED <<rows, tokens, history, device, pairing, proc>>
    BY DEF allVars, vars
  <1>2. PairsTyped' /\ ProcsTyped'
    BY <1>1, InvTyped DEF TypeParts, PairsTyped, ProcsTyped, pairing
  <1> QED
    BY <1>1, <1>2, DevicesStay, PairMove DEF pairing

LEMMA PairingKeeps == PairingIInv /\ [Next]_allVars => PairingIInv'
  <1> SUFFICES ASSUME PairingIInv, [Next]_allVars PROVE PairingIInv'
    OBVIOUS
  <1>1. CASE UNCHANGED allVars
    BY <1>1, StandsStill
  <1>2. ASSUME UNCHANGED pairing, NEW p \in Procs, Handle(p) PROVE PairingIInv'
    <2>1. CASE Put(p) \/ Answer(p) \/ Rotate(p) \/ Adjudicate(p) \/ Drop(p)
      BY <1>2, <2>1, PutKeeps, AnswerKeeps, RotateKeeps, AdjudicateKeeps, DropKeeps
    <2>2. CASE List(p) \/ Swept(p) \/ SweepFails(p) \/ \E s \in Ids : DeleteOne(p, s)
      BY <1>2, <2>2, ListKeeps, SweptKeeps, SweepFailsKeeps, DeleteOneKeeps
    <2>3. CASE UpsertRead(p) \/ UpsertPut(p) \/ BindRead(p) \/ Bind(p) \/ Detach(p) \/ Flip(p)
      BY <1>2, <2>3, UpsertReadKeeps, UpsertPutKeeps, BindReadKeeps, BindKeeps, DetachKeeps, FlipKeeps
    <2> QED
      BY <1>2, <2>1, <2>2, <2>3 DEF Handle
  <1>3. ASSUME UNCHANGED pairing, NEW p \in Procs, Arrive(p) PROVE PairingIInv'
    <2>1. ASSUME NEW s \in Ids, SignIn(p, s) \/ Logout(p, s) PROVE PairingIInv'
      BY <1>3, <2>1, SignInKeeps, LogoutKeeps
    <2>2. ASSUME NEW s \in Ids, NEW t \in 1..MaxTokens, Refresh(p, s, t) PROVE PairingIInv'
      BY <1>3, <2>2, RefreshKeeps
    <2>3. ASSUME NEW s \in Ids, NEW d \in Devices, Register(p, s, d) PROVE PairingIInv'
      BY <1>3, <2>3, RegisterKeeps
    <2>4. ASSUME NEW d \in Devices, Revoke(p, d) PROVE PairingIInv'
      BY <1>3, <2>4, RevokeKeeps
    <2>5. ASSUME NEW S \in SUBSET begun, LogoutAll(p, S) PROVE PairingIInv'
      BY <1>3, <2>5, LogoutAllKeeps
    <2> QED
      BY <1>3, <2>1, <2>2, <2>3, <2>4, <2>5 DEF Arrive
  <1>4. ASSUME UNCHANGED pairing, NEW s \in Ids, Replicate(s) PROVE PairingIInv'
    BY <1>4, ReplicateKeeps
  <1>5. ASSUME UNCHANGED pairing, NEW d \in Devices, Rename(d) PROVE PairingIInv'
    BY <1>5, RenameKeeps
  <1>6. ASSUME NEW p \in Procs, PairHandle(p) PROVE PairingIInv'
    <2>1. CASE \E d \in Devices : CreateDevice(p, d)
      BY <2>1, CreateDeviceKeeps
    <2>2. CASE \E s \in Ids : ClaimSession(p, s)
      BY <2>2, ClaimSessionKeeps
    <2>3. CASE BindPair(p) \/ CountCode(p) \/ Recount(p) \/ Cancel(p) \/ Settle(p) \/ PairCrash(p)
      BY <2>3, BindPairKeeps, CountCodeKeeps, RecountKeeps, CancelKeeps, SettleKeeps, PairCrashKeeps
    <2> QED
      BY <1>6, <2>1, <2>2, <2>3 DEF PairHandle
  <1>7. ASSUME NEW p \in Procs, NEW n \in Pairs, PairArrive(p, n) PROVE PairingIInv'
    <2>1. CASE Poll(p, n)
      BY <2>1, PollKeeps
    <2>2. CASE ConfirmRight(p, n) \/ ConfirmWrong(p, n)
      BY <2>2, ConfirmKeeps DEF ConfirmRight, ConfirmWrong
    <2> QED
      BY <1>7, <2>1, <2>2 DEF PairArrive
  <1>8. ASSUME NEW n \in Pairs, RegisterPairing(n) \/ Expire(n) PROVE PairingIInv'
    BY <1>8, RegisterPairingKeeps, ExpireKeeps
  <1> QED
    BY <1>1, <1>2, <1>3, <1>4, <1>5, <1>6, <1>7, <1>8 DEF Next, SessionsNext

THEOREM PairingInvariant == Spec => []PairingIInv
  BY PairingStarts, PairingKeeps, PTL DEF Spec

\* Every row, index copy, invocation, token and pairing has its type, and the tokens
\* and names stay within their bounds.
THEOREM PairingTypeCorrect == Spec => []TypeOK
  <1>1. PairingIInv => TypeOK
    BY DEF PairingIInv
  <1> QED
    BY <1>1, PairingInvariant, PTL

-----------------------------------------------------------------------------
(***************************************************************************)
(* What follows from it.                                                   *)
(***************************************************************************)
\* A token that a paired device presents was granted by its pairing, once.
THEOREM TokensGivenOnce == Spec => []TokensOnce
  <1>1. PairingIInv => TokensOnce
    <2> SUFFICES ASSUME PairingIInv PROVE TokensOnce
      OBVIOUS
    <2>1. ExchangedOnce /\ \A n \in Pairs : Cardinality(granted[n]) <= 1
      BY DEF PairingIInv, RowsInv, DevicesInv
    <2>2. ASSUME NEW s \in Ids, row[s].family \in Devices, <<s, 1>> \in held
          PROVE  \E n \in Pairs : s \in granted[n]
      <3>1. Owned(s)
        <4>1. \E h \in held : h[1] = s
          BY <2>2
        <4> QED
          BY <4>1, RowFacts DEF RowOK
      <3> QED
        BY <2>2, <3>1 DEF Owned, Claimed
    <2> QED
      BY <2>1, <2>2 DEF TokensOnce, OneCredential
  <1> QED
    BY <1>1, PairingInvariant, PTL


\* Only the rotation of a live session makes an exchange.
LEMMA NewRotates ==
  ASSUME PairingIInv, Next, NEW e \in New
  PROVE  \E p \in Procs : /\ proc[p].pc = "rotate" /\ proc[p].id = e.id
                          /\ row[e.id].cur = proc[p].tok
                          /\ proc[p].dev = None \/ Active(proc[p].dev)
  <1>1. exchanges' # exchanges
    BY DEF New
  <1>2. ASSUME NEW p \in Procs, Handle(p) PROVE Rotate(p)
    BY <1>1, <1>2 DEF Handle, Put, Answer, Adjudicate, Drop, List, Swept, SweepFails, DeleteOne,
       UpsertRead, UpsertPut, BindRead, Bind, Detach, Flip, tokens
  <1>3. ASSUME NEW p \in Procs, Arrive(p) PROVE FALSE
    BY <1>1, <1>3 DEF Arrive, SignIn, Logout, Refresh, Register, Revoke, LogoutAll, tokens
  <1>4. ASSUME NEW s \in Ids, Replicate(s) PROVE FALSE
    BY <1>1, <1>4 DEF Replicate, tokens
  <1>5. ASSUME NEW d \in Devices, Rename(d) PROVE FALSE
    BY <1>1, <1>5 DEF Rename, tokens
  <1>6. ASSUME NEW p \in Procs, PairHandle(p) PROVE FALSE
    BY <1>1, <1>6 DEF PairHandle, CreateDevice, BindPair, CountCode, Recount, Cancel, ClaimSession,
       Settle, PairCrash, Crash, tokens
  <1>7. ASSUME NEW p \in Procs, NEW n \in Pairs, PairArrive(p, n) PROVE FALSE
    BY <1>1, <1>7 DEF PairArrive, ConfirmRight, ConfirmWrong, Confirm, Poll, tokens
  <1>8. ASSUME NEW n \in Pairs, RegisterPairing(n) \/ Expire(n) PROVE FALSE
    BY <1>1, <1>8 DEF RegisterPairing, Expire, vars, tokens
  <1>9. PICK p \in Procs : Rotate(p)
    BY <1>2, <1>3, <1>4, <1>5, <1>6, <1>7, <1>8 DEF Next, SessionsNext
  <1>10. Exchange(p) /\ row[proc[p].id].cur = proc[p].tok /\ proc[p].pc = "rotate"
         /\ (proc[p].dev = None \/ Active(proc[p].dev))
    BY <1>1, <1>9 DEF Rotate
  <1>11. e.id = proc[p].id
    BY <1>10 DEF Exchange, New
  <1> QED
    BY <1>10, <1>11

\* A session that has ended, by the reuse of a token, a revocation or a log-out
\* everywhere, obtains no other token.
THEOREM EndedStaysSilent == Spec => EndedSilent
  <1>1. ASSUME PairingIInv, Next, NEW e \in New
        PROVE  row[e.id].family \notin ended /\ row[e.id].device \notin swept /\ e.id \notin allOut
    <2>1. PICK p \in Procs : /\ proc[p].pc = "rotate" /\ proc[p].id = e.id
                             /\ row[e.id].cur = proc[p].tok
                             /\ proc[p].dev = None \/ Active(proc[p].dev)
      BY <1>1, NewRotates
    <2> DEFINE s == e.id
    <2>2. s \in Ids /\ proc[p].tok > 0 /\ TokenOK(p) /\ proc[p].tok \in Nat
      <3>1. TokenOK(p) /\ RegisterOK(p) /\ proc[p] \in Proc
        BY <1>1, ProcFacts
      <3>2. s \in Ids /\ proc[p].tok > 0
        BY <1>1, <2>1, <3>1, BegunTyped DEF TokenOK, RegisterOK, Holds
      <3>3. proc[p].tok \in 0..MaxTokens
        BY <3>1 DEF Proc
      <3> QED
        BY <3>1, <3>2, <3>3, PairingAssumption
    <2>3. Doing("rotate", s) /\ Tokened(s) /\ Live(s) /\ RowOK(s) /\ EndInv
      BY <1>1, <2>1, <2>2, RowFacts DEF Doing, Tokened, Live, PairingIInv
    <2>4. row[s].family \notin ended
      BY <2>2, <2>3 DEF EndInv, Dying
    <2>5. row[s].device \notin swept
      <3> SUFFICES ASSUME row[s].device \in swept PROVE FALSE
        OBVIOUS
      <3>1. device[row[s].device].status = "revoked" /\ Provisioned(row[s])
        BY <2>2, <2>3 DEF EndInv, Gone
      <3>2. row[s].device = row[s].family /\ row[s].family # None
        BY <2>2, <2>3, <3>1, Disjoint DEF RowOK, Copy, Live, Provisioned
      <3>3. proc[p].dev = row[s].device
        BY <2>1, <2>2, <3>1, <3>2 DEF TokenOK, Provisioned
      <3> QED
        BY <2>1, <3>1, <3>2, <3>3 DEF Active
    <2>6. s \notin allOut
      BY <2>2, <2>3 DEF EndInv, Out
    <2> QED
      BY <2>4, <2>5, <2>6
  <1>2. UNCHANGED allVars => UNCHANGED vars
    BY DEF allVars
  <1>3. PairingIInv /\ [Next]_allVars
          => [\A e \in New : /\ row[e.id].family \notin ended
                             /\ row[e.id].device \notin swept
                             /\ e.id \notin allOut]_vars
    BY <1>1, <1>2
  <1> QED
    BY <1>3, PairingInvariant, PTL DEF Spec, EndedSilent

\* A revoked device stays revoked and the name its owner gave is never replaced by
\* an older one, whatever registrations put back.
THEOREM DevicesKept == Spec => DeviceKept
  <1>1. ASSUME PairingIInv, Next, NEW d \in Devices
        PROVE  /\ device[d].status = "revoked" => device'[d].status = "revoked"
               /\ device'[d].name >= device[d].name
    <2>1. /\ device \in [Devices -> Device] /\ device[d].name \in Nat
          /\ \A p \in Procs : proc[p] \in Proc
      <3>1. device \in [Devices -> Device]
        BY <1>1, InvTyped DEF TypeParts, DevicesTyped
      <3>2. device[d].name \in 0..MaxNames
        BY <3>1 DEF Device
      <3> QED
        BY <1>1, <3>1, <3>2, ProcFacts, PairingAssumption
    <2> DEFINE Kept == /\ device[d].status = "revoked" => device'[d].status = "revoked"
                       /\ device'[d].name >= device[d].name
    <2>2. CASE device' = device
      BY <2>1, <2>2
    <2>3. ASSUME NEW p \in Procs, UpsertPut(p) PROVE Kept
      <3>1. CASE UNCHANGED device
        BY <2>2, <3>1
      <3>2. CASE /\ SameDevice(proc[p].dev, proc[p].found)
                 /\ device' = [device EXCEPT ![proc[p].dev] = Refreshed(p)]
        <4>1. proc[p].found.status # "revoked"
          BY <1>1, <2>3, ProcFacts DEF RegisterOK, UpsertPut
        <4>2. CASE d = proc[p].dev
          BY <2>1, <3>2, <4>1, <4>2 DEF SameDevice, Refreshed
        <4>3. CASE d # proc[p].dev
          BY <2>1, <3>2, <4>3
        <4> QED
          BY <4>2, <4>3
      <3> QED
        BY <2>3, <3>1, <3>2 DEF UpsertPut
    <2>4. ASSUME NEW p \in Procs, Detach(p) PROVE Kept
      BY <2>1, <2>4 DEF Detach, Device
    <2>5. ASSUME NEW p \in Procs, Flip(p) PROVE Kept
      BY <2>1, <2>5 DEF Flip, Device
    <2>6. ASSUME NEW x \in Devices, Rename(x) PROVE Kept
      BY <2>1, <2>6 DEF Rename, Device, Active
    <2>7. ASSUME NEW p \in Procs, NEW x \in Devices, CreateDevice(p, x) PROVE Kept
      <3>1. CASE x = d
        <4>1. device[d].status = "none" /\ device[d].name = 0 /\ device'[d].name = 0
          BY <2>1, <2>7, <3>1 DEF CreateDevice, NoDevice
        <4> QED
          BY <4>1
      <3>2. CASE x # d
        BY <2>1, <2>7, <3>2 DEF CreateDevice
      <3> QED
        BY <3>1, <3>2
    <2>8. ASSUME NEW p \in Procs, Handle(p)
          PROVE  device' = device \/ UpsertPut(p) \/ Detach(p) \/ Flip(p)
      BY <2>8 DEF Handle, Put, Answer, Adjudicate, Drop, List, Swept, SweepFails, DeleteOne,
         UpsertRead, BindRead, Bind, Rotate
    <2>9. ASSUME NEW p \in Procs, Arrive(p) PROVE device' = device
      BY <2>9 DEF Arrive, SignIn, Logout, Refresh, Register, Revoke, LogoutAll
    <2>10. ASSUME NEW s \in Ids, Replicate(s) PROVE device' = device
      BY <2>10 DEF Replicate
    <2>11. ASSUME NEW p \in Procs, PairHandle(p)
           PROVE  device' = device \/ \E x \in Devices : CreateDevice(p, x)
      BY <2>11 DEF PairHandle, BindPair, CountCode, Recount, Cancel, ClaimSession, Settle, PairCrash,
         Crash
    <2>12. ASSUME NEW p \in Procs, NEW n \in Pairs, PairArrive(p, n) PROVE device' = device
      BY <2>12 DEF PairArrive, ConfirmRight, ConfirmWrong, Confirm, Poll
    <2>13. ASSUME NEW n \in Pairs, RegisterPairing(n) \/ Expire(n) PROVE device' = device
      BY <2>13 DEF RegisterPairing, Expire, vars
    <2> HIDE DEF Kept
    <2>14. Kept
      <3>1. ASSUME device' = device PROVE Kept
        BY <2>2, <3>1 DEF Kept
      <3>2. ASSUME NEW p \in Procs, Handle(p) \/ Arrive(p) PROVE Kept
        BY <2>3, <2>4, <2>5, <2>8, <2>9, <3>1, <3>2
      <3>3. CASE SessionsNext
        BY <2>6, <2>10, <3>1, <3>2, <3>3 DEF SessionsNext
      <3>4. ASSUME NEW p \in Procs, PairHandle(p) \/ \E n \in Pairs : PairArrive(p, n) PROVE Kept
        BY <2>7, <2>11, <2>12, <3>1, <3>4
      <3> QED
        BY <1>1, <2>13, <3>1, <3>3, <3>4 DEF Next
    <2> QED
      BY <2>14 DEF Kept
  <1>2. UNCHANGED allVars => UNCHANGED vars
    BY DEF allVars
  <1>3. PairingIInv /\ [Next]_allVars
          => [\A d \in Devices : /\ device[d].status = "revoked" => device'[d].status = "revoked"
                                 /\ device'[d].name >= device[d].name]_vars
    BY <1>1, <1>2
  <1> QED
    BY <1>3, PairingInvariant, PTL DEF Spec, DeviceKept


-----------------------------------------------------------------------------
(***************************************************************************)
(* Wrong codes.                                                            *)
(***************************************************************************)
Counts(q) == proc[q].pc \in {"recount", "cancel"}

\* A step that counts no code, opens no pairing and lets those that count go on.
LEMMA LockStays ==
  ASSUME LockPending, lost \subseteq lost',
         \A n \in Pairs : Open(n, "pending")' /\ pair'[n].codes >= MaxCodes
                            => Open(n, "pending") /\ pair[n].codes >= MaxCodes,
         \A q \in Procs : Counts(q) => Counts(q)' /\ proc'[q].pair = proc[q].pair
  PROVE  LockPending'
  <1> SUFFICES ASSUME NEW n \in Pairs, n \notin lost', Open(n, "pending")', pair'[n].codes >= MaxCodes
               PROVE  \E q \in Procs : proc'[q].pair = n /\ proc'[q].pc \in {"recount", "cancel"}
    BY DEF LockPending
  <1>1. PICK q \in Procs : proc[q].pair = n /\ proc[q].pc \in {"recount", "cancel"}
    BY DEF LockPending
  <1> QED
    BY <1>1 DEF Counts

LEMMA SessionsCountNothing ==
  ASSUME PairingIInv, SessionsNext
  PROVE  \A q \in Procs : Counts(q) => proc'[q] = proc[q]
  <1>1. proc \in [Procs -> Proc]
    BY InvTyped DEF TypeParts, ProcsTyped
  <1> SUFFICES ASSUME NEW q \in Procs, Counts(q) PROVE proc'[q] = proc[q]
    OBVIOUS
  <1>2. ASSUME NEW p \in Procs, Handle(p) PROVE p # q
    BY <1>2 DEF Counts, Handle, Put, Answer, Rotate, Adjudicate, Drop, List, Swept, SweepFails,
       DeleteOne, UpsertRead, UpsertPut, BindRead, Bind, Detach, Flip
  <1>3. ASSUME NEW p \in Procs, Handle(p) PROVE \A r \in Procs \ {p} : proc'[r] = proc[r]
    <2>1. CASE Put(p) \/ Answer(p) \/ Adjudicate(p) \/ Drop(p)
      BY <1>1, <2>1 DEF Put, Answer, Adjudicate, EndFamily, Drop, Become, Return
    <2>2. CASE Rotate(p)
      BY <1>1, <2>2 DEF Rotate, Exchange, DropSession, Become
    <2>3. CASE List(p) \/ Swept(p) \/ SweepFails(p) \/ \E s \in Ids : DeleteOne(p, s)
      BY <1>1, <2>3 DEF List, Swept, Sweep, SweepFails, DeleteOne, Become, Return
    <2>4. CASE UpsertRead(p) \/ UpsertPut(p) \/ BindRead(p)
      BY <1>1, <2>4 DEF UpsertRead, UpsertPut, ToBind, BindRead, Become, Return, GoTo
    <2>5. CASE Bind(p) \/ Detach(p) \/ Flip(p)
      BY <1>1, <2>5 DEF Bind, Detach, Flip, Become, Return, GoTo
    <2> QED
      BY <1>3, <2>1, <2>2, <2>3, <2>4, <2>5 DEF Handle
  <1>4. ASSUME NEW p \in Procs, Arrive(p) PROVE p = q => proc'[q] = proc[q]
    BY <1>4 DEF Counts, Arrive, SignIn, Logout, Refresh, Register, Revoke, LogoutAll
  <1>5. ASSUME NEW p \in Procs, Arrive(p) PROVE \A r \in Procs \ {p} : proc'[r] = proc[r]
    <2>1. ASSUME NEW s \in Ids, SignIn(p, s) \/ Logout(p, s) PROVE \A r \in Procs \ {p} : proc'[r] = proc[r]
      BY <1>1, <2>1 DEF SignIn, Logout, Become
    <2>2. ASSUME NEW s \in Ids, NEW t \in 1..MaxTokens, Refresh(p, s, t)
          PROVE  \A r \in Procs \ {p} : proc'[r] = proc[r]
      BY <1>1, <2>2 DEF Refresh, DropSession, EndFamily, Become
    <2>3. ASSUME NEW s \in Ids, NEW d \in Devices, Register(p, s, d) \/ Revoke(p, d)
          PROVE  \A r \in Procs \ {p} : proc'[r] = proc[r]
      BY <1>1, <2>3 DEF Register, Revoke, Become
    <2>4. ASSUME NEW d \in Devices, Revoke(p, d) PROVE \A r \in Procs \ {p} : proc'[r] = proc[r]
      BY <1>1, <2>4 DEF Revoke, Become
    <2>5. ASSUME NEW S \in SUBSET begun, LogoutAll(p, S) PROVE \A r \in Procs \ {p} : proc'[r] = proc[r]
      BY <1>1, <2>5 DEF LogoutAll, Become
    <2> QED
      BY <1>5, <2>1, <2>2, <2>3, <2>4, <2>5 DEF Arrive
  <1>6. ASSUME NEW s \in Ids, Replicate(s) PROVE proc' = proc
    BY <1>6 DEF Replicate
  <1>7. ASSUME NEW d \in Devices, Rename(d) PROVE proc' = proc
    BY <1>7 DEF Rename
  <1> QED
    BY <1>2, <1>3, <1>4, <1>5, <1>6, <1>7 DEF SessionsNext

\* A step on pairings that are not pending, or that were not.
LEMMA PairQuiet ==
  ASSUME PairingIInv, LockPending, NEW p \in Procs, ~Counts(p), UNCHANGED lost,
         NEW k, proc' = [proc EXCEPT ![p] = k],
         \A n \in Pairs : Open(n, "pending")' => Open(n, "pending") /\ pair'[n].codes = pair[n].codes
  PROVE  LockPending'
  <1>1. proc \in [Procs -> Proc]
    BY InvTyped DEF TypeParts, ProcsTyped
  <1>2. \A q \in Procs : Counts(q) => Counts(q)' /\ proc'[q].pair = proc[q].pair
    BY <1>1 DEF Counts
  <1> QED
    BY <1>2, LockStays

LEMMA LockKept == PairingIInv /\ LockPending /\ [Next]_allVars => LockPending'
  <1> SUFFICES ASSUME PairingIInv, LockPending, [Next]_allVars PROVE LockPending'
    OBVIOUS
  <1>0. PairsTyped /\ proc \in [Procs -> Proc]
    BY InvTyped DEF TypeParts, ProcsTyped
  <1>1. CASE UNCHANGED allVars
    BY <1>1, LockStays DEF allVars, vars, pairing, Open, Counts
  <1>2. CASE SessionsNext /\ UNCHANGED pairing
    <2>1. \A q \in Procs : Counts(q) => Counts(q)' /\ proc'[q].pair = proc[q].pair
      BY <1>2, SessionsCountNothing DEF Counts
    <2> QED
      BY <1>2, <2>1, LockStays DEF pairing, Open
  <1>3. ASSUME NEW n \in Pairs, RegisterPairing(n) \/ Expire(n) PROVE LockPending'
    <2>1. proc' = proc /\ lost' = lost
      BY <1>3 DEF RegisterPairing, Expire, vars
    <2>2. ASSUME NEW m \in Pairs, Open(m, "pending")', pair'[m].codes >= MaxCodes
          PROVE  Open(m, "pending") /\ pair[m].codes >= MaxCodes
      <3>1. CASE RegisterPairing(n)
        <4>1. m # n
          <5>1. m = n => pair'[m].codes = 0
            BY <1>0, <3>1 DEF RegisterPairing, NoPair, PairsTyped
          <5> QED
            BY <2>2, <5>1, PairingAssumption
        <4> QED
          BY <1>0, <2>2, <3>1, <4>1 DEF RegisterPairing, PairsTyped, Open
      <3>2. CASE Expire(n)
        BY <1>0, <2>2, <3>2 DEF Expire, PairsTyped, Open
      <3> QED
        BY <1>3, <3>1, <3>2
    <2> QED
      BY <2>1, <2>2, LockStays DEF Counts
  <1>4. ASSUME NEW p \in Procs, NEW n \in Pairs, PairArrive(p, n) PROVE LockPending'
    <2>1. pair' = pair /\ lost' = lost /\ proc[p].pc = "idle"
      BY <1>4 DEF PairArrive, ConfirmRight, ConfirmWrong, Confirm, Poll, pairing
    <2>2. \E k : proc' = [proc EXCEPT ![p] = k]
      BY <1>4 DEF PairArrive, ConfirmRight, ConfirmWrong, Confirm, Poll
    <2> QED
      BY <2>1, <2>2, PairQuiet DEF Counts, Open
  <1>5. ASSUME NEW p \in Procs, PairHandle(p) PROVE LockPending'
    <2> DEFINE n == proc[p].pair
    <2>1. CASE CountCode(p)
      <3>1. n \in Pairs /\ proc[p].pc = "count" /\ lost' = lost
        BY <2>1, ProcFacts DEF CountCode, PairingOK
      <3>2. CASE pair' = [pair EXCEPT ![n].codes = @ + 1] /\ GoTo(p, "recount")
        <4>1. /\ proc'[p].pc = "recount" /\ proc'[p].pair = n
              /\ \A q \in Procs \ {p} : proc'[q] = proc[q]
          BY <1>0, <3>2 DEF GoTo, Proc
        <4>2. \A m \in Pairs \ {n} : pair'[m] = pair[m]
          BY <1>0, <3>2 DEF PairsTyped
        <4> SUFFICES ASSUME NEW m \in Pairs \ lost, Open(m, "pending")', pair'[m].codes >= MaxCodes
                     PROVE  \E q \in Procs : proc'[q].pair = m /\ proc'[q].pc \in {"recount", "cancel"}
          BY <3>1 DEF LockPending
        <4>3. CASE m = n
          BY <4>1, <4>3
        <4>4. CASE m # n
          <5>1. PICK q \in Procs : proc[q].pair = m /\ proc[q].pc \in {"recount", "cancel"}
            BY <4>2, <4>4 DEF LockPending, Open
          <5> QED
            BY <3>1, <4>1, <5>1
        <4> QED
          BY <4>3, <4>4
      <3>3. CASE UNCHANGED pair /\ Return(p)
        BY <3>1, <3>3, PairQuiet DEF Return, Become, Counts, Open
      <3> QED
        BY <2>1, <3>2, <3>3 DEF CountCode
    <2>2. CASE Recount(p)
      <3>1. /\ n \in Pairs /\ proc[p].pc = "recount" /\ lost' = lost /\ pair' = pair
            /\ pair[n].codes \in Nat /\ pair[n].expired \in BOOLEAN
        BY <1>0, <2>2, ProcFacts DEF Recount, PairingOK, pairing, PairsTyped
      <3>2. \A q \in Procs \ {p} : proc'[q] = proc[q]
        BY <1>0, <2>2 DEF Recount, Return, Become, GoTo
      <3> SUFFICES ASSUME NEW m \in Pairs \ lost, Open(m, "pending"), pair[m].codes >= MaxCodes
                   PROVE  \E q \in Procs : proc'[q].pair = m /\ proc'[q].pc \in {"recount", "cancel"}
        BY <3>1 DEF LockPending, Open
      <3>3. PICK q \in Procs : proc[q].pair = m /\ proc[q].pc \in {"recount", "cancel"}
        BY DEF LockPending
      <3>4. CASE q = p
        <4>1. ~(pair[n].expired \/ pair[n].codes < MaxCodes)
          BY <3>1, <3>3, <3>4, PairingAssumption DEF Open
        <4>2. proc'[p].pc = "cancel" /\ proc'[p].pair = n
          BY <1>0, <2>2, <4>1 DEF Recount, GoTo, Proc
        <4> QED
          BY <3>3, <3>4, <4>2
      <3> QED
        BY <3>2, <3>3, <3>4
    <2>3. CASE Cancel(p)
      <3>1. n \in Pairs /\ proc[p].pc = "cancel" /\ lost' = lost
        BY <2>3, ProcFacts DEF Cancel, PairingOK
      <3>2. \A q \in Procs \ {p} : proc'[q] = proc[q]
        BY <1>0, <2>3 DEF Cancel, Return, Become
      <3>3. /\ ~(pair'[n].status = "pending" /\ ~pair'[n].expired)
            /\ \A m \in Pairs \ {n} : pair'[m] = pair[m]
        BY <1>0, <2>3, <3>1 DEF Cancel, Open, PairsTyped
      <3> SUFFICES ASSUME NEW m \in Pairs \ lost, Open(m, "pending")', pair'[m].codes >= MaxCodes
                   PROVE  \E q \in Procs : proc'[q].pair = m /\ proc'[q].pc \in {"recount", "cancel"}
        BY <3>1 DEF LockPending
      <3>4. m # n
        BY <3>3 DEF Open
      <3>5. PICK q \in Procs : proc[q].pair = m /\ proc[q].pc \in {"recount", "cancel"}
        BY <3>3, <3>4 DEF LockPending, Open
      <3> QED
        BY <3>2, <3>4, <3>5
    <2>4. CASE PairCrash(p)
      <3>1. /\ \A q \in Procs \ {p} : proc'[q] = proc[q]
            /\ pair' = pair /\ lost \subseteq lost'
            /\ Counts(p) => n \in lost'
        BY <1>0, <2>4 DEF PairCrash, Crash, Return, Become, Counts
      <3> SUFFICES ASSUME NEW m \in Pairs \ lost', Open(m, "pending"), pair[m].codes >= MaxCodes
                   PROVE  \E q \in Procs : proc'[q].pair = m /\ proc'[q].pc \in {"recount", "cancel"}
        BY <3>1 DEF LockPending, Open
      <3>2. PICK q \in Procs : proc[q].pair = m /\ proc[q].pc \in {"recount", "cancel"}
        BY <3>1 DEF LockPending
      <3> QED
        BY <3>1, <3>2 DEF Counts
    <2>5. CASE BindPair(p)
      <3>1. n \in Pairs /\ lost' = lost /\ ~Counts(p)
        BY <2>5, ProcFacts DEF BindPair, PairingOK, Counts
      <3>2. \A m \in Pairs : Open(m, "pending")' => Open(m, "pending") /\ pair'[m].codes = pair[m].codes
        BY <1>0, <2>5, <3>1 DEF BindPair, Open, PairsTyped
      <3> QED
        BY <2>5, <3>1, <3>2, PairQuiet DEF BindPair, Return, Become
    <2>6. CASE Settle(p)
      <3>1. n \in Pairs /\ lost' = lost /\ ~Counts(p)
        BY <2>6, ProcFacts DEF Settle, PairingOK, Counts
      <3>2. \A m \in Pairs : Open(m, "pending")' => Open(m, "pending") /\ pair'[m].codes = pair[m].codes
        BY <1>0, <2>6, <3>1 DEF Settle, Open, PairsTyped
      <3>3. \A q \in Procs : Counts(q) => Counts(q)' /\ proc'[q].pair = proc[q].pair
        BY <1>0, <2>6, <3>1 DEF Settle, Return, Become, Counts
      <3> QED
        BY <3>1, <3>2, <3>3, LockStays
    <2>7. ASSUME NEW d \in Devices, CreateDevice(p, d) PROVE LockPending'
      <3>1. \A q \in Procs : Counts(q) => Counts(q)' /\ proc'[q].pair = proc[q].pair
        BY <1>0, <2>7 DEF CreateDevice, Counts
      <3> QED
        BY <2>7, <3>1, LockStays DEF CreateDevice, pairing, Open
    <2>8. ASSUME NEW s \in Ids, ClaimSession(p, s) PROVE LockPending'
      <3>1. \A q \in Procs : Counts(q) => Counts(q)' /\ proc'[q].pair = proc[q].pair
        BY <1>0, <2>8 DEF ClaimSession, Counts
      <3> QED
        BY <2>8, <3>1, LockStays DEF ClaimSession, pairing, Open
    <2> QED
      BY <1>5, <2>1, <2>2, <2>3, <2>4, <2>5, <2>6, <2>7, <2>8 DEF PairHandle
  <1> QED
    BY <1>1, <1>2, <1>3, <1>4, <1>5 DEF Next

\* Unless its handler is killed, a pairing whose wrong codes are used up is open only
\* as long as a handler is about to cancel it.
THEOREM LockIsPending == Spec => []LockPending
  <1>1. PairingInit => LockPending
    <2> SUFFICES ASSUME PairingInit PROVE LockPending
      OBVIOUS
    <2>1. \A n \in Pairs : pair[n].status = "none"
      BY DEF PairingInit, NoPair
    <2> QED
      BY <2>1 DEF LockPending, Open
  <1> QED
    BY <1>1, LockKept, PairingInvariant, PTL DEF Spec
===============================================================================
