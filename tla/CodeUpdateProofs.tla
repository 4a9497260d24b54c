--------------------------- MODULE CodeUpdateProofs ---------------------------
(***************************************************************************)
(* What holds of CodeUpdate for any number of invocations and requests.    *)
(* The create-only token row makes one delivery of a request its carrier;  *)
(* everything else follows from there being one.                           *)
(***************************************************************************)
EXTENDS CodeUpdate, FiniteSetTheorems, TLAPS

-----------------------------------------------------------------------------
(***************************************************************************)
(* Types.                                                                  *)
(***************************************************************************)
\* The conjuncts of TypeOK about processes, as one set.
Process ==
  {x \in [pc : Phases, req : Requests \cup {NoRequest}, name : Nat, posts : 0..MaxPosts] :
     x.pc # "idle" => x.req \in Requests /\ x.name # 0}

LEMMA ProcessType == TypeOK => proc \in [Procs -> Process]
  BY DEF TypeOK, Process

\* A change of one process that keeps the other variables typed.
LEMMA ProcessStep ==
  ASSUME NEW p \in Procs, NEW x \in Process, proc \in [Procs -> Process],
         proc' = [proc EXCEPT ![p] = x]
  PROVE  /\ proc' \in [Procs -> [pc : Phases, req : Requests \cup {NoRequest},
                                 name : Nat, posts : 0..MaxPosts]]
         /\ \A q \in Procs : proc'[q].pc # "idle" => proc'[q].req \in Requests /\ proc'[q].name # 0
  BY DEF Process

LEMMA IdleProcess == Idle \in Process
  BY InstanceAssumption DEF Idle, Process, Phases

LEMMA MovedProcess ==
  ASSUME NEW p \in Procs, NEW pc \in Phases, TypeOK, proc[p].pc # "idle"
  PROVE  [proc[p] EXCEPT !.pc = pc] \in Process
  BY ProcessType DEF Process

LEMMA MoveStep ==
  ASSUME NEW p \in Procs, NEW pc \in Phases, TypeOK, proc[p].pc # "idle", GoTo(p, pc)
  PROVE  proc' = [proc EXCEPT ![p] = [proc[p] EXCEPT !.pc = pc]]
  BY ProcessType DEF GoTo, Process

\* The initial state is typed.
LEMMA InitTyped == Init => TypeOK
  <1>1. NoToken \in [name : Nat, posts : 0..MaxPosts]
    BY InstanceAssumption DEF NoToken
  <1>2. Idle \in [pc : Phases, req : Requests \cup {NoRequest}, name : Nat, posts : 0..MaxPosts]
    BY IdleProcess DEF Process
  <1>3. Init => \A p \in Procs : proc[p].pc = "idle"
    BY DEF Init, Idle
  <1>. QED  BY <1>1, <1>2, <1>3, InstanceAssumption DEF Init, TypeOK

\* Every step keeps the types: one step of the proof per kind of action.
LEMMA NextTyped == TypeOK /\ [Next]_vars => TypeOK'
  <1>. SUFFICES ASSUME TypeOK, [Next]_vars  PROVE TypeOK'
    OBVIOUS
  <1>. USE InstanceAssumption
  <1>. DEFINE procOK == /\ proc' \in [Procs -> [pc : Phases, req : Requests \cup {NoRequest},
                                                name : Nat, posts : 0..MaxPosts]]
                        /\ \A p \in Procs : proc'[p].pc # "idle"
                                               => proc'[p].req \in Requests /\ proc'[p].name # 0
  <1>s. ASSUME NEW p \in Procs, NEW x \in Process, proc' = [proc EXCEPT ![p] = x]
        PROVE  procOK
    BY <1>s, ProcessType, ProcessStep
  <1>i. ASSUME NEW p \in Procs, Return(p)
        PROVE  procOK
    BY <1>i, <1>s, IdleProcess DEF Return
  <1>g. ASSUME NEW p \in Procs, NEW pc \in Phases, proc[p].pc # "idle", GoTo(p, pc)
        PROVE  procOK
    <2>. DEFINE x == [proc[p] EXCEPT !.pc = pc]
    <2>1. x \in Process
      BY <1>g, MovedProcess
    <2>2. proc' = [proc EXCEPT ![p] = x]
      BY <1>g, MoveStep
    <2>. HIDE DEF x
    <2>. QED  BY <1>s, <2>1, <2>2
  <1>u. ASSUME UNCHANGED proc  PROVE procOK
    BY <1>u DEF TypeOK
  <1>t. /\ token \in [Requests -> [name : Nat, posts : 0..MaxPosts]]
        /\ \A p \in Procs : /\ proc[p].pc \in Phases /\ proc[p].name \in Nat
                            /\ proc[p].posts \in 0..MaxPosts
                            /\ proc[p].pc # "idle" => proc[p].req \in Requests /\ proc[p].name # 0
    BY DEF TypeOK
  <1>1. ASSUME NEW r \in Requests, Request(r)  PROVE TypeOK'
    BY <1>1, <1>u DEF Request, TypeOK, queue, service, owner
  <1>2. ASSUME NEW r \in Requests, DeadLetter(r)  PROVE TypeOK'
    BY <1>2, <1>u DEF DeadLetter, TypeOK, queue, service, owner
  <1>3. ASSUME NEW r \in Requests, NEW p \in Procs, Deliver(p, r)  PROVE TypeOK'
    <2>1. [pc |-> "mint", req |-> r, name |-> received[r] + 1, posts |-> 0] \in Process
      BY DEF TypeOK, Process, Phases
    <2>2. procOK
      BY <1>3, <2>1, <1>s DEF Deliver
    <2>. QED  BY <1>3, <2>2 DEF Deliver, TypeOK, service, owner
  <1>4. ASSUME NEW p \in Procs, Mint(p)  PROVE TypeOK'
    <2>1. procOK
      BY <1>4, <1>g, <1>i DEF Mint, Done, Phases
    <2>2. token' \in [Requests -> [name : Nat, posts : 0..MaxPosts]]
      BY <1>4, <1>t DEF Mint
    <2>3. message' \in [Requests -> {"none", "queued", "gone", "dead"}]
      BY <1>4 DEF Mint, Done, TypeOK
    <2>. QED  BY <1>4, <2>1, <2>2, <2>3 DEF Mint, TypeOK, service, owner
  <1>5. ASSUME NEW p \in Procs, Preprocess(p)  PROVE TypeOK'
    BY <1>5, <1>u DEF Preprocess, SetStatus, TypeOK, queue, service, owner
  <1>6. ASSUME NEW p \in Procs, Assemble(p)  PROVE TypeOK'
    <2>1. procOK
      BY <1>6, <1>g DEF Assemble, Phases
    <2>. QED  BY <1>6, <2>1 DEF Assemble, SetStatus, TypeOK, queue, service, owner
  <1>7. ASSUME NEW p \in Procs, Launch(p)  PROVE TypeOK'
    <2>1. procOK
      BY <1>7, <1>g DEF Launch, Phases
    <2>2. [req |-> proc[p].req, name |-> proc[p].name] \in Session
      BY <1>7, <1>t DEF Launch, Session
    <2>3. /\ sessions' \subseteq Session /\ busy' \subseteq Repos
          /\ attempts' \in [Requests -> Nat]
      BY <1>7, <1>t, <2>2 DEF Launch, TypeOK
    <2>. QED  BY <1>7, <2>1, <2>3 DEF Launch, TypeOK, queue, owner
  <1>8. ASSUME NEW p \in Procs, NEW from \in Phases \ {"idle"}, NEW to \in Phases,
               NEW value \in {"launched", "failed"}, Record(p, from, to, value)
        PROVE  TypeOK'
    <2>1. procOK
      BY <1>8, <1>g DEF Record
    <2>. QED  BY <1>8, <2>1 DEF Record, SetStatus, TypeOK, queue, service, owner
  <1>9. ASSUME NEW p \in Procs, TellStarted(p) \/ TellRefused(p)  PROVE TypeOK'
    <2>1. procOK
      BY <1>9, <1>i DEF TellStarted, TellRefused, Done
    <2>2. /\ mails' \in [Requests -> SUBSET {"started", "failed"}] /\ progress' = progress
          /\ message' \in [Requests -> {"none", "queued", "gone", "dead"}]
      BY <1>9, <1>t DEF TellStarted, TellRefused, Done, Mail, TypeOK
    <2>. QED  BY <1>9, <2>1, <2>2 DEF TellStarted, TellRefused, TypeOK, service
  <1>10. ASSUME NEW p \in Procs, TellUpstream(p)  PROVE TypeOK'
    <2>1. procOK
      BY <1>10, <1>i DEF TellUpstream
    <2>2. mails' \in [Requests -> SUBSET {"started", "failed"}] /\ progress' = progress
      BY <1>10, <1>t DEF TellUpstream, Mail, TypeOK
    <2>. QED  BY <1>10, <2>1, <2>2 DEF TellUpstream, TypeOK, queue, service
  <1>11. ASSUME NEW p \in Procs, NEW s \in sessions, PostRead(p, s)  PROVE TypeOK'
    <2>1. s.req \in Requests /\ s.name \in Nat \ {0}
      BY DEF TypeOK, Session
    <2>2. [pc |-> "claim", req |-> s.req, name |-> s.name, posts |-> token[s.req].posts] \in Process
      BY <2>1, <1>t DEF Process, Phases
    <2>3. procOK
      BY <1>11, <2>2, <1>s DEF PostRead
    <2>. QED  BY <1>11, <2>3 DEF PostRead, TypeOK, queue, service, owner
  <1>12. ASSUME NEW p \in Procs, PostClaim(p)  PROVE TypeOK'
    <2>1. procOK
      BY <1>12, <1>g, <1>i DEF PostClaim, Phases
    <2>2. token' \in [Requests -> [name : Nat, posts : 0..MaxPosts]]
      <3>1. token[proc[p].req].posts < MaxPosts
              => token[proc[p].req].posts + 1 \in 0..MaxPosts
        BY <1>12, <1>t DEF PostClaim
      <3>. QED  BY <1>12, <1>t, <3>1 DEF PostClaim
    <2>. QED  BY <1>12, <2>1, <2>2 DEF PostClaim, TypeOK, queue, service, owner
  <1>13. ASSUME NEW p \in Procs, PostMail(p)  PROVE TypeOK'
    <2>1. procOK
      BY <1>13, <1>i DEF PostMail
    <2>. QED  BY <1>13, <2>1, <1>t DEF PostMail, TypeOK, queue, service
  <1>14. ASSUME NEW p \in Procs, Crash(p)  PROVE TypeOK'
    BY <1>14, <1>i DEF Crash, TypeOK, queue, service, owner
  <1>15. ASSUME NEW repo \in Repos, RunEnds(repo)  PROVE TypeOK'
    BY <1>15, <1>u DEF RunEnds, TypeOK, queue, owner
  <1>16. CASE UNCHANGED vars
    BY <1>16 DEF vars, TypeOK
  <1>17. ASSUME NEW p \in Procs, RecordStarted(p) \/ RecordRefused(p) \/ RecordUpstream(p)
         PROVE  TypeOK'
    BY <1>17, <1>8 DEF RecordStarted, RecordRefused, RecordUpstream, Phases
  <1>. QED
    BY <1>1, <1>2, <1>3, <1>4, <1>5, <1>6, <1>7, <1>9, <1>10, <1>11, <1>12, <1>13,
       <1>14, <1>15, <1>16, <1>17 DEF Next, Dispatch, Post

\* Every variable keeps its type, whatever the number of invocations, requests,
\* redeliveries and posts.
THEOREM TypeCorrect == Spec => []TypeOK
  BY InitTyped, NextTyped, PTL DEF Spec

-----------------------------------------------------------------------------
(***************************************************************************)
(* One delivery carries a request.                                         *)
(***************************************************************************)
Carrying == {"prepare", "launch", "started", "tellStarted",
             "refused", "upstream", "tellRefused", "tellUpstream"}

Carries(p, r) == proc[p].pc \in Carrying /\ proc[p].req = r

\* The carrier is unique and is the delivery that made the token; before its
\* launch there is no session, and the owner hears of it at the end only.
Carrier ==
  /\ \A r \in Requests, p, q \in Procs : Carries(p, r) /\ Carries(q, r) => p = q
  /\ \A r \in Requests, p \in Procs :
       Carries(p, r) =>
         /\ token[r].name = proc[p].name /\ mails[r] = {}
         /\ proc[p].pc \in {"prepare", "launch"} => SessionsOf(r) = {}
         /\ proc[p].pc \in {"started", "tellStarted"} => SessionsOf(r) # {}

Unminted == \A r \in Requests : token[r].name = 0 => mails[r] = {}

Safe == TypeOK /\ Carrier /\ Unminted /\ OneSession /\ TokensLive /\ ToldOnce

LEMMA CardinalityOfMails == Cardinality({}) <= 1 /\ \A what : Cardinality({what}) <= 1
  BY FS_EmptySet, FS_Singleton

LEMMA SafeInit == Init => Safe
  <1>. SUFFICES ASSUME Init  PROVE Safe
    OBVIOUS
  <1>1. /\ \A p \in Procs : proc[p].pc = "idle"
        /\ sessions = {} /\ \A r \in Requests : mails[r] = {} /\ status[r] = "queued"
    BY DEF Init, Idle
  <1>2. Carrier /\ Unminted /\ OneSession /\ TokensLive
    BY <1>1 DEF Carrier, Carries, Carrying, Unminted, OneSession, TokensLive
  <1>3. ToldOnce
    BY <1>1, CardinalityOfMails DEF ToldOnce
  <1>. QED  BY <1>2, <1>3, InitTyped DEF Safe

\* Steps at which nothing happens to the carriers, except that one may die.
LEMMA QuietStep ==
  ASSUME Safe, TypeOK', sessions' = sessions, mails' = mails, status' = status,
         \A r \in Requests : token'[r].name = token[r].name,
         \A p \in Procs : proc'[p].pc \in Carrying => proc'[p] = proc[p]
  PROVE  Safe'
  <1>1. Carrier'
    BY DEF Safe, Carrier, Carries, SessionsOf
  <1>2. Unminted' /\ OneSession' /\ ToldOnce'
    BY DEF Safe, Unminted, OneSession, ToldOnce, SessionsOf
  <1>3. TokensLive'
    BY DEF Safe, TokensLive, TypeOK, Session
  <1>. QED  BY <1>1, <1>2, <1>3 DEF Safe

\* The carrier moves on; the record's status may change with it.
LEMMA CarrierStep ==
  ASSUME Safe, TypeOK', NEW p \in Procs, NEW from \in Carrying, NEW to \in Carrying,
         NEW value, proc[p].pc = from, GoTo(p, to), SetStatus(p, value),
         UNCHANGED <<sessions, mails, token>>,
         to \in {"prepare", "launch"} => from \in {"prepare", "launch"},
         to \in {"started", "tellStarted"} => from \in {"started", "tellStarted"},
         value = "launched" => from = "started"
  PROVE  Safe'
  <1>. DEFINE r == proc[p].req
  <1>1. r \in Requests /\ Carries(p, r)
    BY DEF Safe, TypeOK, Carries, Carrying
  <1>2. /\ \A q \in Procs : /\ proc'[q].req = proc[q].req /\ proc'[q].name = proc[q].name
                            /\ proc'[q].pc = IF q = p THEN to ELSE proc[q].pc
        /\ \A q \in Procs, s \in Requests : Carries(q, s)' <=> Carries(q, s)
    BY DEF Safe, TypeOK, GoTo, Carries
  <1>3. Carrier'
    BY <1>2, <1>1 DEF Safe, Carrier, SessionsOf, Carries
  <1>4. Unminted' /\ OneSession'
    BY DEF Safe, Unminted, OneSession
  <1>5. TokensLive'
    BY DEF Safe, TokensLive
  <1>6. ASSUME NEW s \in Requests, status'[s] = "launched"  PROVE status[s] = "launched" \/ SessionsOf(s) # {}
    <2>1. CASE s # r
      BY <1>6, <2>1 DEF SetStatus, Safe, TypeOK
    <2>2. CASE s = r
      <3>1. status'[s] = value \/ status'[s] = status[s]
        BY <2>2 DEF SetStatus, Safe, TypeOK
      <3>2. from = "started" => SessionsOf(s) # {}
        BY <1>1, <2>2 DEF Safe, Carrier
      <3>. QED  BY <1>6, <3>1, <3>2
    <2>. QED  BY <2>1, <2>2
  <1>7. ToldOnce'
    BY <1>6 DEF Safe, ToldOnce, SessionsOf
  <1>. QED  BY <1>3, <1>4, <1>5, <1>7 DEF Safe

\* A delivery that finds no token becomes the carrier.
LEMMA MintStep ==
  ASSUME Safe, TypeOK', NEW p \in Procs, Mint(p)
  PROVE  Safe'
  <1>. DEFINE r == proc[p].req
  <1>0. r \in Requests /\ proc[p].name # 0 /\ proc \in [Procs -> Process]
    BY ProcessType DEF Safe, TypeOK, Mint
  <1>1. CASE token[r] # NoToken
    <2>1. /\ UNCHANGED <<token, sessions, mails, status>>
          /\ \A q \in Procs : proc'[q].pc \in Carrying => proc'[q] = proc[q]
      BY <1>0, <1>1 DEF Mint, Done, Return, Idle, Carrying, service, owner
    <2>. QED  BY <2>1, QuietStep
  <1>2. CASE token[r] = NoToken
    <2>1. /\ UNCHANGED <<sessions, mails, status>>
          /\ token' = [token EXCEPT ![r] = [name |-> proc[p].name, posts |-> 0]]
          /\ \A q \in Procs : /\ proc'[q].req = proc[q].req /\ proc'[q].name = proc[q].name
                              /\ proc'[q].pc = IF q = p THEN "prepare" ELSE proc[q].pc
      BY <1>0, <1>2 DEF Mint, GoTo, service, owner, Process
    <2>2. token[r].name = 0 /\ token'[r].name = proc[p].name
      BY <1>0, <1>2, <2>1 DEF NoToken, Safe, TypeOK
    <2>3. mails[r] = {} /\ SessionsOf(r) = {}
      BY <1>0, <2>2 DEF Safe, Unminted, SessionsOf, TokensLive, TypeOK, Session
    <2>4. \A q \in Procs : ~Carries(q, r)
      <3>. SUFFICES ASSUME NEW q \in Procs, Carries(q, r)  PROVE FALSE
        OBVIOUS
      <3>1. proc[q].name = 0
        BY <1>0, <2>2 DEF Safe, Carrier
      <3>. QED  BY <3>1 DEF Safe, TypeOK, Carries, Carrying
    <2>5. \A s \in Requests : s # r => token'[s] = token[s]
      BY <2>1 DEF Safe, TypeOK
    <2>6. \A s \in Requests, q \in Procs :
            Carries(q, s)' <=> (Carries(q, s) \/ (q = p /\ s = r))
      BY <2>1, <1>0 DEF Carries, Carrying, Mint
    <2>7. Carrier'
      <3>1. \A s \in Requests, q, o \in Procs : Carries(q, s)' /\ Carries(o, s)' => q = o
        BY <2>4, <2>6 DEF Safe, Carrier
      <3>2. ASSUME NEW s \in Requests, NEW q \in Procs, Carries(q, s)'
            PROVE  /\ token'[s].name = proc'[q].name /\ mails'[s] = {}
                   /\ proc'[q].pc \in {"prepare", "launch"} => SessionsOf(s)' = {}
                   /\ proc'[q].pc \in {"started", "tellStarted"} => SessionsOf(s)' # {}
        <4>1. CASE q = p /\ s = r
          BY <2>1, <2>2, <2>3, <4>1 DEF SessionsOf
        <4>2. CASE Carries(q, s)
          BY <2>1, <2>4, <2>5, <4>2, <1>0 DEF Safe, Carrier, SessionsOf, Carries, Carrying, Mint
        <4>. QED  BY <2>6, <3>2, <4>1, <4>2
      <3>. QED  BY <3>1, <3>2 DEF Carrier
    <2>8. Unminted'
      BY <2>1, <2>3, <2>5 DEF Safe, Unminted
    <2>9. TokensLive'
      BY <2>1, <2>3, <2>5 DEF Safe, TokensLive, SessionsOf, TypeOK, Session
    <2>10. OneSession' /\ ToldOnce'
      BY <2>1 DEF Safe, OneSession, ToldOnce, SessionsOf
    <2>. QED  BY <2>7, <2>8, <2>9, <2>10 DEF Safe
  <1>. QED  BY <1>1, <1>2

\* The carrier asks for the session: none was there, and its token is the one
\* in the table.
LEMMA LaunchStep ==
  ASSUME Safe, TypeOK', NEW p \in Procs, Launch(p)
  PROVE  Safe'
  <1>. DEFINE r == proc[p].req
              new == [req |-> r, name |-> proc[p].name]
  <1>0. r \in Requests /\ proc[p].name # 0 /\ Carries(p, r) /\ proc[p].pc = "launch"
    BY DEF Safe, TypeOK, Launch, Carries, Carrying
  <1>1. /\ UNCHANGED <<token, mails, status>>
        /\ \E to \in {"started", "upstream", "refused"} :
             /\ GoTo(p, to)
             /\ to = "started" => sessions' = sessions \cup {new}
        /\ sessions' = sessions \/ sessions' = sessions \cup {new}
    BY DEF Launch, queue, owner
  <1>2. SessionsOf(r) = {} /\ token[r].name = proc[p].name /\ mails[r] = {}
    BY <1>0 DEF Safe, Carrier
  <1>3. \A s \in Requests : SessionsOf(s)' = IF s = r /\ sessions' # sessions
                                              THEN SessionsOf(s) \cup {new} ELSE SessionsOf(s)
    BY <1>1 DEF SessionsOf
  <1>4. OneSession'
    BY <1>1, <1>2 DEF Safe, OneSession, SessionsOf
  <1>5. TokensLive'
    BY <1>1, <1>2 DEF Safe, TokensLive
  <1>6. Unminted' /\ ToldOnce'
    BY <1>1, <1>3 DEF Safe, Unminted, ToldOnce
  <1>7. Carrier'
    <2>1. PICK to \in {"started", "upstream", "refused"} :
             GoTo(p, to) /\ (to = "started" => sessions' = sessions \cup {new})
      BY <1>1
    <2>2. /\ \A q \in Procs : /\ proc'[q].req = proc[q].req /\ proc'[q].name = proc[q].name
                              /\ proc'[q].pc = IF q = p THEN to ELSE proc[q].pc
          /\ \A q \in Procs, s \in Requests : Carries(q, s)' <=> Carries(q, s)
      BY <1>0, <2>1 DEF Safe, TypeOK, GoTo, Carries, Carrying
    <2>3. to = "started" => \A s \in Requests : s = r => SessionsOf(s)' # {}
      <3>1. SUFFICES ASSUME to = "started", NEW s \in Requests, s = r
                     PROVE  new \in SessionsOf(s)'
        OBVIOUS
      <3>2. new \in sessions' /\ new.req = s
        BY <2>1, <3>1
      <3>. QED  BY <3>2 DEF SessionsOf
    <2>4. \A q \in Procs, s \in Requests : Carries(q, s) /\ q # p => s # r
      BY <1>0 DEF Safe, Carrier
    <2>5. \A q \in Procs, s \in Requests : Carries(q, s) => (q = p <=> s = r)
      BY <1>0, <2>4 DEF Carries
    <2>6. \A s \in Requests : s # r => SessionsOf(s)' = SessionsOf(s)
      BY <1>3
    <2>7. \A s \in Requests, q, o \in Procs : Carries(q, s)' /\ Carries(o, s)' => q = o
      BY <2>2 DEF Safe, Carrier
    <2>8. ASSUME NEW s \in Requests, NEW q \in Procs, Carries(q, s)'
          PROVE  /\ token'[s].name = proc'[q].name /\ mails'[s] = {}
                 /\ proc'[q].pc \in {"prepare", "launch"} => SessionsOf(s)' = {}
                 /\ proc'[q].pc \in {"started", "tellStarted"} => SessionsOf(s)' # {}
      <3>1. Carries(q, s)
        BY <2>2, <2>8
      <3>2. CASE q = p
        BY <1>1, <1>2, <2>2, <2>3, <2>5, <3>1, <3>2
      <3>3. CASE q # p
        BY <1>1, <2>2, <2>5, <2>6, <3>1, <3>3 DEF Safe, Carrier
      <3>. QED  BY <3>2, <3>3
    <2>. QED  BY <2>7, <2>8 DEF Carrier
  <1>. QED  BY <1>4, <1>5, <1>6, <1>7 DEF Safe

\* The carrier tells the owner and is gone.
LEMMA TellStep ==
  ASSUME Safe, TypeOK', NEW p \in Procs, NEW what, proc[p].pc \in Carrying,
         Mail(p, what), Return(p), UNCHANGED <<sessions, token, status>>,
         what = "started" => proc[p].pc = "tellStarted"
  PROVE  Safe'
  <1>. DEFINE r == proc[p].req
  <1>0. r \in Requests /\ Carries(p, r)
    BY DEF Safe, TypeOK, Carries, Carrying
  <1>1. /\ \A q \in Procs : proc'[q] = IF q = p THEN Idle ELSE proc[q]
        /\ \A q \in Procs, s \in Requests : Carries(q, s)' => Carries(q, s) /\ q # p /\ s # r
    BY <1>0 DEF Safe, TypeOK, Return, Carries, Idle, Carrying, Carrier
  <1>2. /\ mails[r] = {} /\ mails'[r] \in {{}, {what}}
        /\ \A s \in Requests : s # r => mails'[s] = mails[s]
    BY <1>0 DEF Safe, Carrier, Mail, TypeOK
  <1>3. Carrier'
    BY <1>1, <1>2 DEF Safe, Carrier, SessionsOf
  <1>4. token[r].name # 0
    BY <1>0 DEF Safe, Carrier, TypeOK, Carries, Carrying
  <1>5. Unminted'
    BY <1>2, <1>4 DEF Safe, Unminted
  <1>6. OneSession' /\ TokensLive'
    BY DEF Safe, OneSession, TokensLive
  <1>7. ToldOnce'
    <2>1. what = "started" => SessionsOf(r) # {}
      BY <1>0 DEF Safe, Carrier
    <2>2. \A s \in Requests : Cardinality(mails'[s]) <= 1
      BY <1>2, CardinalityOfMails DEF Safe, ToldOnce
    <2>. QED  BY <1>2, <2>1, <2>2 DEF Safe, ToldOnce, SessionsOf
  <1>. QED  BY <1>3, <1>5, <1>6, <1>7 DEF Safe

LEMMA SafeStep == Safe /\ [Next]_vars => Safe'
  <1>. SUFFICES ASSUME Safe, [Next]_vars  PROVE Safe'
    OBVIOUS
  <1>0. TypeOK' /\ proc \in [Procs -> Process]
    BY NextTyped, ProcessType DEF Safe
  <1>1. ASSUME NEW r \in Requests, Request(r) \/ DeadLetter(r)  PROVE Safe'
    BY <1>0, <1>1, QuietStep DEF Request, DeadLetter, queue, service, owner
  <1>2. ASSUME NEW r \in Requests, NEW p \in Procs, Deliver(p, r)  PROVE Safe'
    <2>1. \A q \in Procs : proc'[q].pc \in Carrying => proc'[q] = proc[q]
      BY <1>0, <1>2 DEF Deliver, Carrying
    <2>. QED  BY <1>0, <1>2, <2>1, QuietStep DEF Deliver, service, owner
  <1>3. ASSUME NEW p \in Procs, Mint(p)  PROVE Safe'
    BY <1>0, <1>3, MintStep
  <1>4. ASSUME NEW p \in Procs, Preprocess(p)  PROVE Safe'
    <2>1. GoTo(p, "prepare")
      BY <1>0, <1>4 DEF Preprocess, GoTo, Process
    <2>. QED  BY <1>0, <1>4, <2>1, CarrierStep DEF Preprocess, Carrying, queue, service, owner
  <1>5. ASSUME NEW p \in Procs, Assemble(p)  PROVE Safe'
    BY <1>0, <1>5, CarrierStep DEF Assemble, Carrying, queue, service, owner
  <1>6. ASSUME NEW p \in Procs, Launch(p)  PROVE Safe'
    BY <1>0, <1>6, LaunchStep
  <1>7. ASSUME NEW p \in Procs, RecordStarted(p)  PROVE Safe'
    BY <1>0, <1>7, CarrierStep DEF RecordStarted, Record, Carrying, queue, service, owner
  <1>8. ASSUME NEW p \in Procs, RecordRefused(p)  PROVE Safe'
    BY <1>0, <1>8, CarrierStep DEF RecordRefused, Record, Carrying, queue, service, owner
  <1>9. ASSUME NEW p \in Procs, RecordUpstream(p)  PROVE Safe'
    BY <1>0, <1>9, CarrierStep DEF RecordUpstream, Record, Carrying, queue, service, owner
  <1>10. ASSUME NEW p \in Procs, TellStarted(p)  PROVE Safe'
    BY <1>0, <1>10, TellStep DEF TellStarted, Done, Carrying, service
  <1>11. ASSUME NEW p \in Procs, TellRefused(p)  PROVE Safe'
    BY <1>0, <1>11, TellStep DEF TellRefused, Done, Carrying, service
  <1>12. ASSUME NEW p \in Procs, TellUpstream(p)  PROVE Safe'
    BY <1>0, <1>12, TellStep DEF TellUpstream, Carrying, service
  <1>13. ASSUME NEW p \in Procs, NEW s \in sessions, PostRead(p, s)  PROVE Safe'
    <2>1. \A q \in Procs : proc'[q].pc \in Carrying => proc'[q] = proc[q]
      BY <1>0, <1>13 DEF PostRead, Carrying
    <2>. QED  BY <1>0, <1>13, <2>1, QuietStep DEF PostRead, queue, service, owner
  <1>14. ASSUME NEW p \in Procs, PostClaim(p)  PROVE Safe'
    <2>1. \A q \in Procs : proc'[q].pc \in Carrying => proc'[q] = proc[q]
      BY <1>0, <1>14 DEF PostClaim, GoTo, Return, Idle, Carrying, Process
    <2>2. \A r \in Requests : token'[r].name = token[r].name
      BY <1>14 DEF PostClaim, Safe, TypeOK
    <2>. QED  BY <1>0, <1>14, <2>1, <2>2, QuietStep DEF PostClaim, queue, service, owner
  <1>15. ASSUME NEW p \in Procs, PostMail(p) \/ Crash(p)  PROVE Safe'
    <2>1. \A q \in Procs : proc'[q].pc \in Carrying => proc'[q] = proc[q]
      BY <1>0, <1>15 DEF PostMail, Crash, Return, Idle, Carrying
    <2>. QED  BY <1>0, <1>15, <2>1, QuietStep DEF PostMail, Crash, queue, service, owner
  <1>16. ASSUME NEW repo \in Repos, RunEnds(repo)  PROVE Safe'
    BY <1>0, <1>16, QuietStep DEF RunEnds, queue, owner
  <1>17. CASE UNCHANGED vars
    BY <1>0, <1>17, QuietStep DEF vars
  <1>. QED
    BY <1>1, <1>2, <1>3, <1>4, <1>5, <1>6, <1>7, <1>8, <1>9, <1>10, <1>11, <1>12,
       <1>13, <1>14, <1>15, <1>16, <1>17 DEF Next, Dispatch, Post

LEMMA AlwaysSafe == Spec => []Safe
  BY SafeInit, SafeStep, PTL DEF Spec

\* At most one session is started for a request, however often it is delivered
\* and wherever deliveries die or lose an answer.
THEOREM StartedAtMostOnce == Spec => []OneSession
  <1>1. Safe => OneSession
    BY DEF Safe
  <1>. QED  BY <1>1, AlwaysSafe, PTL

\* The token in the prompt of a session is the one in the table.
THEOREM TokensStayLive == Spec => []TokensLive
  <1>1. Safe => TokensLive
    BY DEF Safe
  <1>. QED  BY <1>1, AlwaysSafe, PTL

\* The owner hears of a request at most once, and of a start only if there was one.
THEOREM OwnerToldOnce == Spec => []ToldOnce
  <1>1. Safe => ToldOnce
    BY DEF Safe
  <1>. QED  BY <1>1, AlwaysSafe, PTL

-----------------------------------------------------------------------------
(***************************************************************************)
(* Progress mails.  What was sent and what is about to be sent was claimed.*)
(***************************************************************************)
Reporting(r) == {p \in Procs : proc[p].pc = "report" /\ proc[p].req = r}

Claimed == \A r \in Requests : progress[r] + Cardinality(Reporting(r)) <= token[r].posts

Counted == Safe /\ Claimed

LEMMA ReportingFinite ==
  ASSUME NEW r  PROVE IsFiniteSet(Reporting(r)) /\ Cardinality(Reporting(r)) \in Nat
  BY InstanceAssumption, FS_Subset, FS_CardinalityType DEF Reporting

\* Steps that send no mail, claim no post and start no report keep the account.
LEMMA ClaimedStep ==
  ASSUME Counted, TypeOK', progress' = progress,
         \A r \in Requests : token[r] # NoToken => token'[r].posts = token[r].posts,
         \A p \in Procs : proc'[p].pc = "report" => proc'[p] = proc[p]
  PROVE  Claimed'
  <1>. SUFFICES ASSUME NEW r \in Requests
                PROVE  progress'[r] + Cardinality(Reporting(r)') <= token'[r].posts
    BY DEF Claimed
  <1>1. Reporting(r)' \subseteq Reporting(r)
    BY DEF Reporting
  <1>2. /\ Cardinality(Reporting(r)') \in Nat
        /\ Cardinality(Reporting(r)') <= Cardinality(Reporting(r))
    BY <1>1, ReportingFinite, FS_Subset, FS_CardinalityType
  <1>3. token[r].posts <= token'[r].posts
    BY DEF Counted, Safe, TypeOK, NoToken
  <1>4. progress[r] + Cardinality(Reporting(r)) <= token[r].posts
    BY DEF Counted, Claimed
  <1>. QED
    BY <1>2, <1>3, <1>4, ReportingFinite, InstanceAssumption DEF Counted, Safe, TypeOK

\* A claim makes room for the mail it starts.
LEMMA ClaimStep ==
  ASSUME Counted, TypeOK', NEW p \in Procs, PostClaim(p)
  PROVE  Claimed'
  <1>. DEFINE r == proc[p].req
  <1>0. r \in Requests /\ proc \in [Procs -> Process] /\ progress' = progress
    BY ProcessType DEF Counted, Safe, TypeOK, PostClaim, owner
  <1>1. CASE token[r].posts < MaxPosts
    <2>1. /\ token' = [token EXCEPT ![r].posts = @ + 1]
          /\ \A q \in Procs : /\ proc'[q].req = proc[q].req
                              /\ proc'[q].pc = IF q = p THEN "report" ELSE proc[q].pc
      BY <1>0, <1>1 DEF PostClaim, GoTo, Process
    <2>2. \A s \in Requests : token'[s].posts = IF s = r THEN token[s].posts + 1 ELSE token[s].posts
      BY <1>0, <2>1 DEF Counted, Safe, TypeOK
    <2>. SUFFICES ASSUME NEW s \in Requests
                  PROVE  progress'[s] + Cardinality(Reporting(s)') <= token'[s].posts
      BY DEF Claimed
    <2>3. Reporting(s)' = IF s = r THEN Reporting(s) \cup {p} ELSE Reporting(s)
      BY <1>0, <2>1 DEF Reporting, PostClaim
    <2>4. p \notin Reporting(s)
      BY DEF Reporting, PostClaim
    <2>5. Cardinality(Reporting(s)') = Cardinality(Reporting(s)) + IF s = r THEN 1 ELSE 0
      <3>1. Cardinality(Reporting(s) \cup {p}) = Cardinality(Reporting(s)) + 1
        BY <2>4, ReportingFinite, FS_AddElement
      <3>. QED  BY <2>3, <3>1, ReportingFinite
    <2>6. progress[s] + Cardinality(Reporting(s)) <= token[s].posts
      BY DEF Counted, Claimed
    <2>. QED
      BY <1>0, <2>2, <2>5, <2>6, ReportingFinite, InstanceAssumption DEF Counted, Safe, TypeOK
  <1>2. CASE ~(token[r].posts < MaxPosts)
    <2>1. token' = token /\ \A q \in Procs : proc'[q].pc = "report" => proc'[q] = proc[q]
      BY <1>0, <1>2 DEF PostClaim, Return, Idle
    <2>. QED  BY <1>0, <2>1, ClaimedStep
  <1>. QED  BY <1>1, <1>2

\* A mail uses up the claim made for it.
LEMMA MailStep ==
  ASSUME Counted, TypeOK', NEW p \in Procs, PostMail(p)
  PROVE  Claimed'
  <1>. DEFINE r == proc[p].req
  <1>0. /\ r \in Requests /\ token' = token
        /\ \A q \in Procs : proc'[q] = IF q = p THEN Idle ELSE proc[q]
    BY DEF Counted, Safe, TypeOK, PostMail, Return
  <1>. SUFFICES ASSUME NEW s \in Requests
                PROVE  progress'[s] + Cardinality(Reporting(s)') <= token'[s].posts
    BY DEF Claimed
  <1>1. Reporting(s)' = Reporting(s) \ {p}
    BY <1>0 DEF Reporting, Idle
  <1>2. p \in Reporting(s) <=> s = r
    BY DEF Reporting, PostMail
  <1>3. Cardinality(Reporting(s)') = Cardinality(Reporting(s)) - IF s = r THEN 1 ELSE 0
    <2>1. Cardinality(Reporting(s) \ {p})
            = IF p \in Reporting(s) THEN Cardinality(Reporting(s)) - 1 ELSE Cardinality(Reporting(s))
      BY ReportingFinite, FS_RemoveElement
    <2>. QED  BY <1>1, <1>2, <2>1, ReportingFinite
  <1>4. progress'[s] <= progress[s] + IF s = r THEN 1 ELSE 0
    <2>1. progress' = progress \/ progress' = [progress EXCEPT ![r] = @ + 1]
      BY DEF PostMail
    <2>. QED  BY <1>0, <2>1 DEF Counted, Safe, TypeOK
  <1>5. progress[s] + Cardinality(Reporting(s)) <= token[s].posts
    BY DEF Counted, Claimed
  <1>. QED
    BY <1>0, <1>3, <1>4, <1>5, ReportingFinite, InstanceAssumption DEF Counted, Safe, TypeOK

LEMMA CountedStep == Counted /\ [Next]_vars => Counted'
  <1>. SUFFICES ASSUME Counted, [Next]_vars  PROVE Counted'
    OBVIOUS
  <1>0. Safe' /\ TypeOK' /\ proc \in [Procs -> Process]
    BY SafeStep, ProcessType DEF Counted, Safe
  <1>. SUFFICES Claimed'
    BY <1>0 DEF Counted
  <1>1. ASSUME NEW p \in Procs, PostClaim(p)  PROVE Claimed'
    BY <1>0, <1>1, ClaimStep
  <1>2. ASSUME NEW p \in Procs, PostMail(p)  PROVE Claimed'
    BY <1>0, <1>2, MailStep
  <1>3. ASSUME NEW p \in Procs, Mint(p)  PROVE Claimed'
    <2>1. \A r \in Requests : token[r] # NoToken => token'[r] = token[r]
      BY <1>3 DEF Mint, Counted, Safe, TypeOK
    <2>2. \A q \in Procs : proc'[q].pc = "report" => proc'[q] = proc[q]
      BY <1>0, <1>3 DEF Mint, Done, Return, GoTo, Idle, Process
    <2>. QED  BY <1>0, <1>3, <2>1, <2>2, ClaimedStep DEF Mint, owner
  <1>4. ASSUME NEW p \in Procs, NEW r \in Requests, Deliver(p, r)  PROVE Claimed'
    <2>1. \A q \in Procs : proc'[q].pc = "report" => proc'[q] = proc[q]
      BY <1>0, <1>4 DEF Deliver
    <2>. QED  BY <1>0, <1>4, <2>1, ClaimedStep DEF Deliver, owner
  <1>5. ASSUME NEW p \in Procs, NEW s \in sessions, PostRead(p, s)  PROVE Claimed'
    <2>1. \A q \in Procs : proc'[q].pc = "report" => proc'[q] = proc[q]
      BY <1>0, <1>5 DEF PostRead
    <2>. QED  BY <1>0, <1>5, <2>1, ClaimedStep DEF PostRead, owner
  <1>6. ASSUME NEW p \in Procs, Assemble(p) \/ RecordStarted(p) \/ RecordRefused(p) \/ RecordUpstream(p)
        PROVE  Claimed'
    <2>1. \A q \in Procs : proc'[q].pc = "report" => proc'[q] = proc[q]
      BY <1>0, <1>6 DEF Assemble, RecordStarted, RecordRefused, RecordUpstream, Record, GoTo, Process
    <2>2. progress' = progress /\ token' = token
      BY <1>6 DEF Assemble, RecordStarted, RecordRefused, RecordUpstream, Record, owner
    <2>. QED  BY <1>0, <2>1, <2>2, ClaimedStep
  <1>7. ASSUME NEW p \in Procs, Launch(p)  PROVE Claimed'
    <2>1. \A q \in Procs : proc'[q].pc = "report" => proc'[q] = proc[q]
      BY <1>0, <1>7 DEF Launch, GoTo, Process
    <2>. QED  BY <1>0, <1>7, <2>1, ClaimedStep DEF Launch, owner
  <1>8. ASSUME NEW p \in Procs, TellStarted(p) \/ TellRefused(p) \/ TellUpstream(p) \/ Crash(p)
        PROVE  Claimed'
    <2>1. \A q \in Procs : proc'[q].pc = "report" => proc'[q] = proc[q]
      BY <1>0, <1>8 DEF TellStarted, TellRefused, TellUpstream, Crash, Done, Return, Idle
    <2>2. progress' = progress /\ token' = token
      BY <1>8 DEF TellStarted, TellRefused, TellUpstream, Crash, Mail, owner
    <2>. QED  BY <1>0, <2>1, <2>2, ClaimedStep
  <1>9. ASSUME UNCHANGED <<proc, token, progress>>  PROVE Claimed'
    BY <1>0, <1>9, ClaimedStep
  <1>10. ASSUME NEW r \in Requests, Request(r) \/ DeadLetter(r)  PROVE Claimed'
    BY <1>9, <1>10 DEF Request, DeadLetter, owner
  <1>11. ASSUME NEW p \in Procs, Preprocess(p)  PROVE Claimed'
    BY <1>9, <1>11 DEF Preprocess, owner
  <1>12. ASSUME NEW repo \in Repos, RunEnds(repo)  PROVE Claimed'
    BY <1>9, <1>12 DEF RunEnds, owner
  <1>13. CASE UNCHANGED vars
    BY <1>9, <1>13 DEF vars
  <1>. QED
    BY <1>1, <1>2, <1>3, <1>4, <1>5, <1>6, <1>7, <1>8, <1>10, <1>11, <1>12, <1>13
       DEF Next, Dispatch, Post

LEMMA CountedInit == Init => Counted
  <1>. SUFFICES ASSUME Init  PROVE Claimed
    BY SafeInit DEF Counted
  <1>1. \A r \in Requests : Reporting(r) = {} /\ progress[r] = 0 /\ token[r].posts = 0
    BY DEF Init, Idle, NoToken, Reporting
  <1>. QED  BY <1>1, FS_EmptySet DEF Claimed

\* A run never sends more progress mails than it may, however many of its posts
\* are handled at the same time.
THEOREM ProgressStaysBounded == Spec => []ProgressBounded
  <1>1. ASSUME Counted  PROVE ProgressBounded
    <2>. SUFFICES ASSUME NEW r \in Requests  PROVE progress[r] <= MaxPosts
      BY DEF ProgressBounded
    <2>1. progress[r] + Cardinality(Reporting(r)) <= token[r].posts
      BY <1>1 DEF Counted, Claimed
    <2>2. progress[r] \in Nat /\ token[r].posts \in 0..MaxPosts
      BY <1>1 DEF Counted, Safe, TypeOK
    <2>. QED  BY <2>1, <2>2, ReportingFinite, InstanceAssumption
  <1>. QED  BY <1>1, CountedInit, CountedStep, PTL DEF Spec
===============================================================================
