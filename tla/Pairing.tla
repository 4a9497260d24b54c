------------------------------- MODULE Pairing -------------------------------
(***************************************************************************)
(* Pairing of a device: the device registers a nonce and polls it, the     *)
(* owner confirms it in a browser with the code the device shows, and the  *)
(* poll that finds the nonce bound claims the session of the device.  The  *)
(* sessions and devices are those of Sessions.                             *)
(***************************************************************************)
EXTENDS Sessions

CONSTANTS
  MaxCodes,  \* wrong codes that cancel a pairing (5)
  MaxCounted \* bound on the wrong codes that are counted

ASSUME PairingAssumption ==
  /\ Ids \cap Devices = {} /\ None \notin Ids \cup Devices \cup Pairs
  /\ MaxTokens \in Nat \ {0} /\ MaxNames \in Nat /\ MaxUpserts \in Nat /\ MaxCodes \in Nat \ {0}

VARIABLES
  pair,    \* the pairing rows
  granted, \* history: sessions whose token a claim was answered with
  lost     \* history: pairings whose handler was killed while counting

pairing == <<pair, granted, lost>>
allVars == <<vars, pairing>>

NoPair == [status |-> "none", device |-> None, codes |-> 0, expired |-> FALSE]

Open(n, status) == pair[n].status = status /\ ~pair[n].expired

PairingInit ==
  /\ Init
  /\ pair = [n \in Pairs |-> NoPair]
  /\ granted = [n \in Pairs |-> {}]
  /\ lost = {}

RegisterPairing(n) ==
  /\ pair[n] = NoPair
  /\ pair' = [pair EXCEPT ![n].status = "pending"]
  /\ UNCHANGED <<vars, granted, lost>>

\* The time to live of the row is over.
Expire(n) ==
  /\ pair[n].status # "none" /\ ~pair[n].expired
  /\ pair' = [pair EXCEPT ![n].expired = TRUE]
  /\ UNCHANGED <<vars, granted, lost>>

-----------------------------------------------------------------------------
(***************************************************************************)
(* The confirm page: a code is checked against the row that was read.      *)
(***************************************************************************)
Confirm(p, n, pc) ==
  /\ proc[p].pc = "idle" /\ Open(n, "pending")
  /\ proc' = [proc EXCEPT ![p] = [Idle EXCEPT !.pc = pc, !.pair = n]]
  /\ UNCHANGED <<rows, device, tokens, history, pairing>>

ConfirmRight(p, n) == Confirm(p, n, "create")
ConfirmWrong(p, n) == Confirm(p, n, "count")

\* The device is created first, with a family of its own.
CreateDevice(p, d) ==
  /\ proc[p].pc = "create" /\ device[d] = NoDevice
  /\ device' = [device EXCEPT ![d] = [NoDevice EXCEPT !.status = "active", !.family = d,
                                                     !.paired = TRUE]]
  /\ proc' = [proc EXCEPT ![p].pc = "bindPair", ![p].dev = d]
  /\ UNCHANGED <<rows, tokens, history, pairing>>

BindPair(p) ==
  LET n == proc[p].pair IN
  /\ proc[p].pc = "bindPair"
  /\ pair' = IF Open(n, "pending")
             THEN [pair EXCEPT ![n].status = "bound", ![n].device = proc[p].dev]
             ELSE pair
  /\ Return(p)
  /\ UNCHANGED <<rows, device, tokens, history, granted, lost>>

\* A wrong code is counted, the count is read back, and the pairing cancelled
\* when it is used up.
CountCode(p) ==
  LET n == proc[p].pair IN
  /\ proc[p].pc = "count"
  /\ IF Open(n, "pending")
     THEN pair' = [pair EXCEPT ![n].codes = @ + 1] /\ GoTo(p, "recount")
     ELSE UNCHANGED pair /\ Return(p)
  /\ UNCHANGED <<rows, device, tokens, history, granted, lost>>

\* Mutant: one wrong code too many.
RecountLate(p) ==
  LET n == proc[p].pair IN
  /\ proc[p].pc = "recount"
  /\ IF pair[n].expired \/ pair[n].codes <= MaxCodes THEN Return(p) ELSE GoTo(p, "cancel")
  /\ UNCHANGED <<rows, device, tokens, history, pairing>>

Recount(p) ==
  LET n == proc[p].pair IN
  /\ proc[p].pc = "recount"
  /\ IF pair[n].expired \/ pair[n].codes < MaxCodes THEN Return(p) ELSE GoTo(p, "cancel")
  /\ UNCHANGED <<rows, device, tokens, history, pairing>>

Cancel(p) ==
  LET n == proc[p].pair IN
  /\ proc[p].pc = "cancel"
  /\ pair' = IF Open(n, "pending") THEN [pair EXCEPT ![n].status = "failed"] ELSE pair
  /\ Return(p)
  /\ UNCHANGED <<rows, device, tokens, history, granted, lost>>

-----------------------------------------------------------------------------
(***************************************************************************)
(* The poll that finds the pairing bound: the session is created, then the *)
(* nonce is claimed, then the token is handed out.                         *)
(***************************************************************************)
Poll(p, n) ==
  /\ proc[p].pc = "idle" /\ Open(n, "bound")
  /\ proc' = [proc EXCEPT ![p] = [Idle EXCEPT !.pc = "claim", !.pair = n,
                                              !.dev = pair[n].device]]
  /\ UNCHANGED <<rows, device, tokens, history, pairing>>

ClaimSession(p, s) ==
  LET d == proc[p].dev IN
  /\ proc[p].pc = "claim" /\ s \notin begun
  /\ begun' = begun \cup {s}
  /\ row' = [row EXCEPT ![s] = [family |-> device[d].family, device |-> d,
                                cur |-> 1, prev |-> 0]]
  /\ proc' = [proc EXCEPT ![p].pc = "settle", ![p].id = s]
  /\ UNCHANGED <<index, stale, device, tokens, history, pairing>>

\* The loser leaves a session whose token nobody has.
Settle(p) ==
  LET n == proc[p].pair IN
  /\ proc[p].pc = "settle"
  /\ IF Open(n, "bound")
     THEN /\ pair' = [pair EXCEPT ![n].status = "claimed"]
          /\ granted' = [granted EXCEPT ![n] = @ \cup {proc[p].id}]
          /\ proc' = [proc EXCEPT ![p].pc = "answer", ![p].tok = 1]
     ELSE Return(p) /\ UNCHANGED <<pair, granted>>
  /\ UNCHANGED <<rows, device, tokens, history, lost>>

-----------------------------------------------------------------------------
\* A killed handler that was counting leaves the pairing open.
PairCrash(p) ==
  /\ Crash(p)
  /\ lost' = IF proc[p].pc \in {"recount", "cancel"} THEN lost \cup {proc[p].pair} ELSE lost
  /\ UNCHANGED <<pair, granted>>

PairHandle(p) ==
  \/ \E d \in Devices : CreateDevice(p, d)
  \/ BindPair(p) \/ CountCode(p) \/ Recount(p) \/ Cancel(p)
  \/ \E s \in Ids : ClaimSession(p, s)
  \/ Settle(p) \/ PairCrash(p)

PairArrive(p, n) ==
  \/ ConfirmRight(p, n) \/ Poll(p, n)
  \/ "wrongCode" \in Ops /\ pair[n].codes < MaxCounted /\ ConfirmWrong(p, n)

Next ==
  \/ SessionsNext /\ UNCHANGED pairing
  \/ \E p \in Procs : PairHandle(p) \/ \E n \in Pairs : PairArrive(p, n)
  \/ \E n \in Pairs : RegisterPairing(n) \/ Expire(n)

Spec == PairingInit /\ [][Next]_allVars

-----------------------------------------------------------------------------
(***************************************************************************)
(* Properties.                                                             *)
(***************************************************************************)
TypeOK ==
  /\ SessionsTypeOK
  /\ pair \in [Pairs -> [status : {"none", "pending", "bound", "claimed", "failed"},
                         device : Devices \cup {None}, codes : Nat, expired : BOOLEAN]]
  /\ \A n \in Pairs : pair[n].status \in {"bound", "claimed"} => pair[n].device # None
  /\ granted \in [Pairs -> SUBSET Ids]
  /\ lost \subseteq Pairs

\* However many polls find the pairing bound, one of them is answered with a
\* session, and only that session's tokens reach a client.
OneCredential ==
  /\ \A n \in Pairs : Cardinality(granted[n]) <= 1
  /\ \A s \in Ids : row[s].family \in Devices /\ <<s, 1>> \in held
       => \E n \in Pairs : s \in granted[n]

\* Every secret yields one token: a refresh token its successor, a pairing's code
\* the first token of a session.
TokensOnce == ExchangedOnce /\ OneCredential

\* A pairing whose wrong codes are used up is open only while a handler that
\* will cancel it is running, unless that handler was killed.
LockPending ==
  \A n \in Pairs \ lost :
    Open(n, "pending") /\ pair[n].codes >= MaxCodes
      => \E p \in Procs : proc[p].pair = n /\ proc[p].pc \in {"recount", "cancel"}

===============================================================================
