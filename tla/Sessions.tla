------------------------------- MODULE Sessions -------------------------------
(***************************************************************************)
(* Sign-in sessions, refresh-token rotation and the devices of an account. *)
(* The rows live in one DynamoDB table; a session is looked up through an  *)
(* index that lags behind its row.  Every request is handled by a Lambda   *)
(* invocation that may die, and any call to the table may fail.            *)
(* A refresh token is the number of the exchange that made it: 1 is issued *)
(* with the session, every exchange makes the next.                        *)
(***************************************************************************)
EXTENDS Naturals, Sequences, FiniteSets

CONSTANTS
  Procs,      \* concurrent invocations
  Ids,        \* session identifiers
  Devices,    \* device identifiers
  Pairs,      \* pairing nonces
  None,       \* no session, device or family
  MaxTokens,  \* bound on the tokens of a session
  MaxNames,   \* bound on the names of a device
  MaxUpserts, \* attempts of a registration to write the device (5)
  Ops,        \* operations that occur, besides sign-in and refresh
  Faults      \* faults that occur: "crash", "store"

VARIABLES
  row,       \* the session rows
  index,     \* what the session-id index returns
  begun,     \* sessions whose creation time has been taken
  stale,     \* sessions created before tokensValidAfter
  device,    \* the device rows
  proc,      \* what each invocation is doing
  held,      \* tokens that reached a client
  exchanges, \* history: tokens exchanged for a new one
  ended,     \* history: families whose reuse was reported
  swept,     \* history: devices whose revocation was answered and complete
  allOut     \* history: sessions stale at an answered log-out everywhere

rows == <<row, index, begun, stale>>
history == <<ended, swept, allOut>>
tokens == <<held, exchanges>>
vars == <<rows, device, proc, tokens, history>>

Families == Ids \cup Devices

\* A browser or app session starts a family of its own, the sessions of a
\* paired device belong to the family of the device.
NoRow == [family |-> None, device |-> None, cur |-> 0, prev |-> 0]
Row == [family : Families \cup {None}, device : Devices \cup {None},
        cur : 0..MaxTokens, prev : 0..MaxTokens]
Provisioned(r) == r.family \in Devices

NoDevice == [status |-> "none", family |-> None, paired |-> FALSE, name |-> 0, custom |-> FALSE]
Device == [status : {"none", "active", "revoked"}, family : Families \cup {None},
           paired : BOOLEAN, name : 0..MaxNames, custom : BOOLEAN]

Sweeps == {"family", "device", "all"}
\* What an invocation has read and what is left to do.
Idle == [pc |-> "idle", id |-> None, tok |-> 0, dev |-> None, family |-> None,
         left |-> None, from |-> None, found |-> NoDevice, tries |-> 0, plan |-> <<>>, todo |-> {},
         old |-> {}, pair |-> None]
Proc == [pc : {"idle", "put", "rotate", "adjudicate", "answer", "drop", "list", "delete",
               "upsertRead", "upsertPut", "bindRead", "bind", "detach", "flip",
               "create", "bindPair", "count", "recount", "cancel", "claim", "settle"},
         id : Ids \cup {None}, tok : 0..MaxTokens, dev : Devices \cup {None},
         family : Families \cup {None}, left : Devices \cup {None}, from : Devices \cup {None}, found : Device,
         tries : 0..MaxUpserts, plan : Seq(Sweeps), todo : SUBSET Ids, old : SUBSET Ids,
         pair : Pairs \cup {None}]

Live(s) == row[s].cur # 0
Active(d) == d # None /\ device[d].status = "active"

Init ==
  /\ row = [s \in Ids |-> NoRow]
  /\ index = row
  /\ begun = {} /\ stale = {}
  /\ device = [d \in Devices |-> NoDevice]
  /\ proc = [p \in Procs |-> Idle]
  /\ held = {} /\ exchanges = {}
  /\ ended = {} /\ swept = {} /\ allOut = {}

Become(p, r) == proc' = [proc EXCEPT ![p] = r]
Return(p) == Become(p, Idle)
GoTo(p, pc) == proc' = [proc EXCEPT ![p].pc = pc]

-----------------------------------------------------------------------------
(***************************************************************************)
(* Sign-in.  The creation time is taken before the row is put.             *)
(***************************************************************************)
SignIn(p, s) ==
  /\ proc[p].pc = "idle" /\ s \notin begun
  /\ begun' = begun \cup {s}
  /\ Become(p, [Idle EXCEPT !.pc = "put", !.id = s])
  /\ UNCHANGED <<row, index, stale, device, tokens, history>>

Put(p) ==
  /\ proc[p].pc = "put"
  /\ row' = [row EXCEPT ![proc[p].id] = [family |-> proc[p].id, device |-> None,
                                         cur |-> 1, prev |-> 0]]
  /\ Become(p, [Idle EXCEPT !.pc = "answer", !.id = proc[p].id, !.tok = 1])
  /\ UNCHANGED <<index, begun, stale, device, tokens, history>>

\* The index catches up with the row.
Replicate(s) ==
  /\ index[s] # row[s]
  /\ index' = [index EXCEPT ![s] = row[s]]
  /\ UNCHANGED <<row, begun, stale, device, proc, tokens, history>>

\* The answer carries a token that the client keeps.
Answer(p) ==
  /\ proc[p].pc = "answer"
  /\ held' = held \cup {<<proc[p].id, proc[p].tok>>}
  /\ Return(p)
  /\ UNCHANGED <<rows, device, exchanges, history>>

-----------------------------------------------------------------------------
(***************************************************************************)
(* Refresh.  The session is read from the index; the exchange is one       *)
(* transaction on the row and on the device the copy names.                *)
(***************************************************************************)
EndFamily(p, family) ==
  Become(p, [Idle EXCEPT !.pc = "list", !.plan = <<"family">>, !.family = family])

DropSession(p, s) == Become(p, [Idle EXCEPT !.pc = "drop", !.id = s])

\* A session created before tokensValidAfter is deleted, a token of the
\* generation before ends the family, an inactive device ends the session.
Refresh(p, s, t) ==
  LET c == index[s] IN
  /\ proc[p].pc = "idle" /\ <<s, t>> \in held /\ c.cur # 0
  /\ \/ s \in stale /\ DropSession(p, s)
     \/ s \notin stale /\ t # c.cur /\ t = c.prev /\ EndFamily(p, c.family)
     \/ /\ s \notin stale /\ t = c.cur /\ c.device # None /\ ~Active(c.device)
        /\ DropSession(p, s)
     \/ /\ s \notin stale /\ t = c.cur /\ (c.device = None \/ Active(c.device))
        /\ Become(p, [Idle EXCEPT !.pc = "rotate", !.id = s, !.tok = t, !.dev = c.device])
  /\ UNCHANGED <<rows, device, tokens, history>>

NewToken(s) == 2 + Cardinality({e \in exchanges : e.id = s})

Exchange(p) ==
  LET s == proc[p].id IN
  /\ row' = [row EXCEPT ![s].prev = proc[p].tok, ![s].cur = NewToken(s)]
  /\ exchanges' = exchanges \cup {[id |-> s, from |-> proc[p].tok, to |-> NewToken(s)]}
  /\ Become(p, [Idle EXCEPT !.pc = "answer", !.id = s, !.tok = NewToken(s)])

\* Mutant: the condition on the stored hash is left out.
RotateAnyway(p) ==
  LET s == proc[p].id IN
  /\ proc[p].pc = "rotate" /\ NewToken(s) <= MaxTokens
  /\ IF Live(s) THEN Exchange(p) ELSE Return(p) /\ UNCHANGED <<row, exchanges>>
  /\ UNCHANGED <<index, begun, stale, device, held, history>>

\* The transaction is cancelled by an inactive device, or by a row that is
\* gone or holds another token.
Rotate(p) ==
  LET s == proc[p].id
      d == proc[p].dev
  IN
  /\ proc[p].pc = "rotate" /\ NewToken(s) <= MaxTokens
  /\ \/ /\ d = None \/ Active(d)
        /\ row[s].cur = proc[p].tok
        /\ Exchange(p)
     \/ /\ d = None \/ Active(d)
        /\ row[s].cur # proc[p].tok
        /\ Become(p, [proc[p] EXCEPT !.pc = "adjudicate", !.dev = None])
        /\ UNCHANGED <<row, exchanges>>
     \/ /\ d # None /\ ~Active(d)
        /\ DropSession(p, s) /\ UNCHANGED <<row, exchanges>>
  /\ UNCHANGED <<index, begun, stale, device, held, history>>

\* The loser of a race reads the row itself.
Adjudicate(p) ==
  LET fresh == row[proc[p].id] IN
  /\ proc[p].pc = "adjudicate"
  /\ IF fresh.prev # 0 /\ fresh.prev = proc[p].tok
     THEN EndFamily(p, fresh.family)
     ELSE Return(p)
  /\ UNCHANGED <<rows, device, tokens, history>>

Delete(s) == row' = [row EXCEPT ![s] = NoRow]

Drop(p) ==
  /\ proc[p].pc = "drop"
  /\ Delete(proc[p].id)
  /\ Return(p)
  /\ UNCHANGED <<index, begun, stale, device, tokens, history>>

\* Log-out deletes one row, whatever it holds.
Logout(p, s) ==
  /\ proc[p].pc = "idle" /\ Live(s)
  /\ Delete(s)
  /\ UNCHANGED <<index, begun, stale, device, proc, tokens, history>>

-----------------------------------------------------------------------------
(***************************************************************************)
(* Sweeps: list the rows, then delete them one by one.                     *)
(***************************************************************************)
Matches(p, s) ==
  CASE Head(proc[p].plan) = "family" -> row[s].family = proc[p].family
    [] Head(proc[p].plan) = "device" -> row[s].device = proc[p].dev
    [] OTHER -> TRUE

List(p) ==
  /\ proc[p].pc = "list"
  /\ proc' = [proc EXCEPT ![p].pc = "delete",
                          ![p].todo = {s \in Ids : Live(s) /\ Matches(p, s)}]
  /\ UNCHANGED <<rows, device, tokens, history>>

DeleteOne(p, s) ==
  /\ proc[p].pc = "delete" /\ s \in proc[p].todo
  /\ Delete(s)
  /\ proc' = [proc EXCEPT ![p].todo = @ \ {s}]
  /\ UNCHANGED <<index, begun, stale, device, tokens, history>>

Kind(p) == IF proc[p].dev # None THEN "revoke" ELSE Head(proc[p].plan)

Sweep(p) ==
  IF Len(proc[p].plan) > 1
  THEN /\ proc' = [proc EXCEPT ![p].pc = "list", ![p].plan = Tail(@), ![p].todo = {}]
       /\ UNCHANGED history
  ELSE /\ Return(p)
       /\ ended' = IF Kind(p) = "family" THEN ended \cup {proc[p].family} ELSE ended
       /\ swept' = IF Kind(p) = "revoke" THEN swept \cup {proc[p].dev} ELSE swept
       /\ allOut' = IF Kind(p) = "all" THEN allOut \cup proc[p].old ELSE allOut

\* After the last sweep the caller is answered.
Swept(p) ==
  /\ proc[p].pc = "delete" /\ proc[p].todo = {}
  /\ Sweep(p)
  /\ UNCHANGED <<rows, device, tokens>>

\* Mutant: what could not be deleted is taken for deleted.
SweepFailsQuietly(p) ==
  /\ "store" \in Faults /\ proc[p].pc \in {"list", "delete"}
  /\ Sweep(p)
  /\ UNCHANGED <<rows, device, tokens>>

\* A revocation goes on after a failed sweep, the others give up.
SweepFails(p) ==
  /\ "store" \in Faults /\ proc[p].pc \in {"list", "delete"}
  /\ IF Kind(p) = "revoke" /\ Len(proc[p].plan) > 1
     THEN proc' = [proc EXCEPT ![p].pc = "list", ![p].plan = Tail(@), ![p].todo = {}]
     ELSE Return(p)
  /\ UNCHANGED <<rows, device, tokens, history>>

\* Log out everywhere: the time is compared in whole seconds, so that a session
\* of the same second is not taken for an earlier one.
LogoutAll(p, S) ==
  /\ proc[p].pc = "idle" /\ S \subseteq begun
  /\ stale' = stale \cup S
  /\ Become(p, [Idle EXCEPT !.pc = "list", !.plan = <<"all">>, !.old = stale'])
  /\ UNCHANGED <<row, index, begun, device, tokens, history>>

-----------------------------------------------------------------------------
(***************************************************************************)
(* Devices.  A browser or app registers the device it runs on and binds    *)
(* its session to it; the owner renames and revokes devices.               *)
(***************************************************************************)
Register(p, s, d) ==
  LET old == row[s].device IN
  /\ proc[p].pc = "idle" /\ Live(s) /\ ~Provisioned(row[s])
  /\ old \in {None, d} \/ Active(old)
  /\ Become(p, [Idle EXCEPT !.pc = "upsertRead", !.id = s, !.dev = d, !.left = old,
                           !.family = row[s].family])
  /\ UNCHANGED <<rows, device, tokens, history>>

UpsertRead(p) ==
  LET d == device[proc[p].dev] IN
  /\ proc[p].pc = "upsertRead"
  /\ IF d.status # "revoked" /\ ~d.paired
     THEN proc' = [proc EXCEPT ![p].pc = "upsertPut", ![p].found = d]
     ELSE Return(p)
  /\ UNCHANGED <<rows, device, tokens, history>>

\* The item that was read is put back whole, with the family of the session.
Refreshed(p) ==
  [status |-> "active", family |-> proc[p].family, paired |-> FALSE,
   name |-> proc[p].found.name, custom |-> proc[p].found.custom]

ToBind(p) == Become(p, [proc[p] EXCEPT !.pc = "bindRead", !.found = NoDevice, !.tries = 0])

\* Mutant: the name is not part of the condition.
UpsertPutByStatus(p) ==
  LET d == proc[p].dev IN
  /\ proc[p].pc = "upsertPut"
  /\ IF device[d].status = proc[p].found.status
     THEN device' = [device EXCEPT ![d] = Refreshed(p)] /\ ToBind(p)
     ELSE Return(p) /\ UNCHANGED device
  /\ UNCHANGED <<rows, tokens, history>>

\* The condition is on the owner, the status and the name that were read.
SameDevice(d, found) ==
  /\ device[d].status = found.status
  /\ device[d].name = found.name /\ device[d].custom = found.custom

UpsertPut(p) ==
  LET d == proc[p].dev IN
  /\ proc[p].pc = "upsertPut"
  /\ \/ /\ SameDevice(d, proc[p].found)
        /\ device' = [device EXCEPT ![d] = Refreshed(p)]
        /\ ToBind(p)
     \/ /\ ~SameDevice(d, proc[p].found)
        /\ IF Active(d) /\ proc[p].tries < MaxUpserts - 1
           THEN proc' = [proc EXCEPT ![p].pc = "upsertRead", ![p].tries = @ + 1]
           ELSE Return(p)
        /\ UNCHANGED device
  /\ UNCHANGED <<rows, tokens, history>>

\* Binding: both devices have to be active, now and in the transaction.
BindRead(p) ==
  LET s == proc[p].id
      d == proc[p].dev
      old == row[s].device
  IN
  /\ proc[p].pc = "bindRead"
  /\ \/ /\ Live(s) /\ old = d /\ Active(d)
        /\ GoTo(p, "detach")
     \/ /\ Live(s) /\ old # d /\ Active(d) /\ (old = None \/ Active(old))
        /\ proc' = [proc EXCEPT ![p].pc = "bind", ![p].from = old]
     \/ /\ ~Live(s) \/ ~Active(d) \/ (old # None /\ ~Active(old))
        /\ Return(p)
  /\ UNCHANGED <<rows, device, tokens, history>>

\* A transaction that lost to a registration of the same device has succeeded.
Bind(p) ==
  LET s == proc[p].id
      d == proc[p].dev
      old == proc[p].from
      ok == Live(s) /\ row[s].device = old /\ Active(d) /\ (old = None \/ Active(old))
  IN
  /\ proc[p].pc = "bind"
  /\ \/ ok /\ row' = [row EXCEPT ![s].device = d] /\ GoTo(p, "detach")
     \/ /\ ~ok /\ UNCHANGED row
        /\ IF Live(s) /\ row[s].device = d /\ Active(d) /\ (old = None \/ Active(old))
           THEN GoTo(p, "detach")
           ELSE Return(p)
  /\ UNCHANGED <<index, begun, stale, device, tokens, history>>

\* The device the session has left forgets the family of the session.
Detach(p) ==
  LET d == proc[p].left IN
  /\ proc[p].pc = "detach"
  /\ device' = IF d \notin {None, proc[p].dev} /\ device[d].family = proc[p].family
               THEN [device EXCEPT ![d].family = None]
               ELSE device
  /\ Return(p)
  /\ UNCHANGED <<rows, tokens, history>>

Rename(d) ==
  /\ Active(d) /\ device[d].name < MaxNames
  /\ device' = [device EXCEPT ![d].name = @ + 1, ![d].custom = TRUE]
  /\ UNCHANGED <<rows, proc, tokens, history>>

\* Revocation: the status first, then the sessions bound to the device, those
\* of the family it named, and those bound to it once more.
Revoke(p, d) ==
  /\ proc[p].pc = "idle" /\ device[d].status # "none"
  /\ Become(p, [Idle EXCEPT !.pc = "flip", !.dev = d, !.family = device[d].family])
  /\ UNCHANGED <<rows, device, tokens, history>>

Flip(p) ==
  /\ proc[p].pc = "flip"
  /\ device' = [device EXCEPT ![proc[p].dev].status = "revoked"]
  /\ proc' = [proc EXCEPT ![p].pc = "list",
                          ![p].plan = IF proc[p].family = None
                                      THEN <<"device", "device">>
                                      ELSE <<"device", "family", "device">>]
  /\ UNCHANGED <<rows, tokens, history>>

-----------------------------------------------------------------------------
Crash(p) ==
  /\ "crash" \in Faults /\ proc[p].pc # "idle"
  /\ Return(p)
  /\ UNCHANGED <<rows, device, tokens, history>>

Handle(p) ==
  \/ Put(p) \/ Answer(p) \/ Rotate(p) \/ Adjudicate(p) \/ Drop(p)
  \/ List(p) \/ Swept(p) \/ SweepFails(p) \/ \E s \in Ids : DeleteOne(p, s)
  \/ UpsertRead(p) \/ UpsertPut(p) \/ BindRead(p) \/ Bind(p) \/ Detach(p) \/ Flip(p)

Arrive(p) ==
  \/ \E s \in Ids :
       \/ SignIn(p, s)
       \/ "logout" \in Ops /\ Logout(p, s)
       \/ \E t \in 1..MaxTokens : Refresh(p, s, t)
       \/ "register" \in Ops /\ \E d \in Devices : Register(p, s, d)
  \/ "revoke" \in Ops /\ \E d \in Devices : Revoke(p, d)
  \/ "logoutAll" \in Ops /\ \E S \in SUBSET begun : LogoutAll(p, S)

SessionsNext ==
  \/ \E p \in Procs : Handle(p) \/ Arrive(p)
  \/ \E s \in Ids : Replicate(s)
  \/ "rename" \in Ops /\ \E d \in Devices : Rename(d)

-----------------------------------------------------------------------------
(***************************************************************************)
(* Properties.                                                             *)
(***************************************************************************)
SessionsTypeOK ==
  /\ row \in [Ids -> Row] /\ index \in [Ids -> Row]
  /\ begun \subseteq Ids /\ stale \subseteq begun
  /\ device \in [Devices -> Device]
  /\ proc \in [Procs -> Proc]
  /\ held \subseteq Ids \X (1..MaxTokens)
  /\ exchanges \subseteq [id : Ids, from : 1..MaxTokens, to : 1..MaxTokens]
  /\ ended \subseteq Families /\ swept \subseteq Devices /\ allOut \subseteq Ids

\* A refresh token is exchanged for a new one at most once, however many
\* requests present it at the same time and whatever the index returns.
ExchangedOnce == \A e, f \in exchanges : e.id = f.id /\ e.from = f.from => e = f

\* The exchanges of a step.
New == exchanges' \ exchanges

\* Once a session has been ended it obtains no other token, not by a request that
\* read it before nor by a claim, sign-in or binding that overlapped: once reuse of
\* a token of its family was reported, once the revocation of its device was answered
\* and its last sweep complete, once a log-out everywhere that it precedes is answered.
EndedSilent ==
  [][\A e \in New :
       /\ row[e.id].family \notin ended
       /\ row[e.id].device \notin swept
       /\ e.id \notin allOut]_vars

\* A revoked device stays revoked and a name the owner gave is not replaced,
\* although registrations put the whole item back.
DeviceKept ==
  [][\A d \in Devices :
       /\ device[d].status = "revoked" => device'[d].status = "revoked"
       /\ device'[d].name >= device[d].name]_vars
===============================================================================
