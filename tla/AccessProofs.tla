----------------------------- MODULE AccessProofs -----------------------------
(***************************************************************************)
(* Proofs about the grants of assistants (McpGrants) and the calls of      *)
(* tools (ToolCalls), which share no state.                                *)
(*                                                                         *)
(* Grants.  The rows only go forward (Forward): a row that is used once is *)
(* spent and stays as it is, a grant never has the same version with       *)
(* another content.  What an invocation has read (Valid) therefore holds   *)
(* as long as the version does that its transaction is conditioned on.     *)
(*                                                                         *)
(* The router of tools.  A call that is not claimed, or that an invocation *)
(* is still working on, has had no effect: the key is given back only      *)
(* after codes that a handler returns before its effect.  A proposal is    *)
(* gone before its command is sent, so that it has one holder.             *)
(*                                                                         *)
(* The dispatchers of mails.  A message is claimed before it is mailed,    *)
(* and from then on it is with at most one dispatcher.                     *)
(***************************************************************************)
EXTENDS McpGrants, ToolCalls, FiniteSetTheorems, TLAPS

\* How the rows refer to one another.
RequestsOK ==
  \A n \in Requests : request[n].state = "fresh" => request[n].ver <= MaxRenders + 1

CodesOK ==
  \A c \in Codes :
    /\ code[c].state = "none" => code[c] = NoCode
    /\ code[c].state # "none" => code[c].of \in Requests /\ request[code[c].of].state = "spent"

GrantsOK == \A g \in Grants : grant[g].state = "none" => grant[g] = NoGrant

CredentialsOK ==
  \A t \in Credentials :
    LET c == credential[t] IN
    /\ c.state = "none" => c = NoCredential
    /\ c.state # "none" =>
         /\ c.grant \in Grants /\ grant[c.grant].state # "none"
         /\ c.from \in Codes => code[c.from].state = "spent"
         /\ c.from \in Credentials => credential[c.from].state = "spent"
         /\ c.from \in Codes \cup Credentials
    /\ c.state = "fresh" => c.scope = grant[c.grant].scope

\* A grant has one credential that can be used.
OneFresh ==
  \A t, u \in Credentials :
    t # u /\ credential[t].state = "fresh" /\ credential[u].state = "fresh"
      => credential[t].grant # credential[u].grant

RowsOK == RequestsOK /\ CodesOK /\ GrantsOK /\ CredentialsOK /\ OneFresh /\ UsedOnce

\* A refresh, until it is answered or ends its grant.
Refreshing == {"grant", "reused", "check", "caught", "issue", "recheck"}

\* What an invocation has read.
HoldsCredential(h) ==
  h.of \in Credentials /\ credential[h.of].state # "none" /\ credential[h.of].grant = h.grant

Valid(h) ==
  /\ h.pc # "idle" => h.said = "none"
  /\ h.pc = "consent" =>
       /\ h.of \in Requests /\ h.ver <= request[h.of].ver
       /\ h.ver = request[h.of].ver => request[h.of].state = "fresh"
  /\ h.pc = "exchange" => h.of \in Codes
  /\ h.pc \in Refreshing => HoldsCredential(h)
  /\ h.pc \in {"revoke", "commit"} => h.of = Nothing \/ HoldsCredential(h)
  /\ h.pc \in Refreshing \cup {"revoke", "commit"} =>
       h.grant \in Grants /\ grant[h.grant].state # "none"
  /\ h.pc = "grant" => h.scope = credential[h.of].scope
  /\ h.pc \in {"check", "issue", "commit"} =>
       /\ h.ver <= grant[h.grant].ver
       /\ h.ver = grant[h.grant].ver => grant[h.grant].state = "live"
  /\ h.pc \in {"check", "issue"} /\ h.ver = grant[h.grant].ver /\ credential[h.of].state = "fresh"
       => h.scope \subseteq grant[h.grant].scope
  /\ h.pc = "commit" /\ h.ver = grant[h.grant].ver => h.scope = grant[h.grant].scope

GrantIInv == GrantTypeOK /\ RowsOK /\ \A p \in Invocations : Valid(handler[p])

\* A step of the rows.
Forward ==
  /\ \A n \in Requests : /\ request[n].ver <= request'[n].ver
                         /\ request[n].ver = request'[n].ver => request'[n] = request[n]
  /\ \A g \in Grants : grant[g].state # "none" =>
       /\ grant'[g].state # "none"
       /\ grant[g].ver <= grant'[g].ver
       /\ grant[g].ver = grant'[g].ver => grant'[g] = grant[g]
  /\ \A t \in Credentials : credential[t].state # "none" =>
       /\ credential'[t].state = "spent" \/ credential'[t] = credential[t]
       /\ credential'[t].grant = credential[t].grant
       /\ credential'[t].scope = credential[t].scope

USE GrantAssumption DEF Refreshing

-----------------------------------------------------------------------------
\* What was read stays valid while the rows go forward.
LEMMA ValidKept ==
  ASSUME GrantTypeOK, GrantTypeOK', Forward, NEW p \in Invocations, Valid(handler[p]),
         handler'[p] = handler[p]
  PROVE  Valid(handler[p])'
<1> DEFINE h == handler[p]
<1>t. h.ver \in Nat BY DEF GrantTypeOK
<1>1. handler'[p].pc # "idle" => handler'[p].said = "none"
  BY DEF Valid
<1>2. h.pc = "consent" =>
       /\ h.of \in Requests /\ h.ver <= request'[h.of].ver
       /\ h.ver = request'[h.of].ver => request'[h.of].state = "fresh"
  <2> SUFFICES ASSUME h.pc = "consent" PROVE
       /\ h.of \in Requests /\ h.ver <= request'[h.of].ver
       /\ h.ver = request'[h.of].ver => request'[h.of].state = "fresh"
    OBVIOUS
  <2>1. /\ h.of \in Requests /\ h.ver <= request[h.of].ver
        /\ h.ver = request[h.of].ver => request[h.of].state = "fresh"
    BY DEF Valid
  <2>2. request[h.of].ver \in Nat /\ request'[h.of].ver \in Nat BY <2>1 DEF GrantTypeOK
  <2> QED BY <1>t, <2>1, <2>2 DEF Forward
<1>3. HoldsCredential(h) => h.of \in Credentials /\ credential'[h.of].state # "none"
                            /\ credential'[h.of].grant = h.grant
  BY DEF HoldsCredential, Forward
<1>4. HoldsCredential(h) => credential'[h.of].scope = credential[h.of].scope
  BY DEF HoldsCredential, Forward
<1>5. HoldsCredential(h) /\ credential'[h.of].state = "fresh" => credential[h.of].state = "fresh"
  BY DEF HoldsCredential, Forward
<1>6. h.grant \in Grants /\ grant[h.grant].state # "none" =>
       /\ grant'[h.grant].state # "none"
       /\ h.ver <= grant[h.grant].ver => h.ver <= grant'[h.grant].ver
       /\ h.ver <= grant[h.grant].ver /\ h.ver = grant'[h.grant].ver =>
            grant'[h.grant] = grant[h.grant] /\ h.ver = grant[h.grant].ver
  <2> SUFFICES ASSUME h.grant \in Grants, grant[h.grant].state # "none" PROVE
       /\ grant'[h.grant].state # "none"
       /\ h.ver <= grant[h.grant].ver => h.ver <= grant'[h.grant].ver
       /\ h.ver <= grant[h.grant].ver /\ h.ver = grant'[h.grant].ver =>
            grant'[h.grant] = grant[h.grant] /\ h.ver = grant[h.grant].ver
    OBVIOUS
  <2>1. grant[h.grant].ver \in Nat /\ grant'[h.grant].ver \in Nat BY DEF GrantTypeOK
  <2> QED BY <1>t, <2>1 DEF Forward
<1> HIDE DEF h
<1>7. HoldsCredential(handler[p]) => HoldsCredential(handler[p])'
  BY <1>3 DEF HoldsCredential, h
<1> QED BY <1>1, <1>2, <1>3, <1>4, <1>5, <1>6, <1>7 DEF Valid, h, HoldsCredential

\* A step of one invocation: the rows go forward, and what it has read now is valid.
LEMMA StepKeeps ==
  ASSUME GrantIInv, GrantTypeOK', RowsOK', Forward, NEW p \in Invocations, NEW w,
         handler' = [handler EXCEPT ![p] = w], Valid(handler[p])'
  PROVE  GrantIInv'
<1>1. ASSUME NEW q \in Invocations, q # p PROVE Valid(handler[q])'
  <2>1. handler'[q] = handler[q] BY <1>1 DEF GrantIInv, GrantTypeOK
  <2> QED BY <2>1, ValidKept DEF GrantIInv
<1> QED BY <1>1 DEF GrantIInv

\* An invocation that only reads changes no row.
LEMMA NoWrite ==
  ASSUME GrantTypeOK, RowsOK, UNCHANGED <<request, code, grant, credential, standing>>
  PROVE  RowsOK' /\ Forward
<1>1. RowsOK'
  BY DEF RowsOK, RequestsOK, CodesOK, GrantsOK, CredentialsOK, OneFresh, UsedOnce
<1>2. Forward
  BY DEF Forward, GrantTypeOK
<1> QED BY <1>1, <1>2

\* An answer is valid whatever the rows are.
LEMMA AnswerValid ==
  ASSUME GrantTypeOK, NEW p \in Invocations, NEW answer, Say(p, answer)
  PROVE  Valid(handler[p])' /\ handler'[p].pc = "idle"
<1>1. handler'[p] = Answered(handler[p].of, answer) BY DEF GrantTypeOK, Say
<1> QED BY <1>1 DEF Valid, Answered

\* Types of what an invocation becomes.
LEMMA AnswerType ==
  ASSUME GrantTypeOK, NEW p \in Invocations,
         NEW answer \in {"none", "tokens", "invalid", "blind", "ended", "error", "done"},
         Say(p, answer), UNCHANGED <<request, code, grant, credential, standing>>
  PROVE  GrantTypeOK'
  BY DEF GrantTypeOK, Say, Answered

LEMMA WorkType ==
  ASSUME GrantTypeOK, NEW p \in Invocations,
         NEW pc \in Refreshing \cup {"idle", "consent", "exchange", "revoke", "commit"},
         NEW of \in Requests \cup Codes \cup Credentials \cup {Nothing},
         NEW g \in Grants \cup {Nothing}, NEW ver \in Nat, NEW scope \in SUBSET Scopes,
         NEW tries \in 0..Attempts,
         Work(p, Working(pc, of, g, ver, scope, tries)),
         UNCHANGED <<request, code, grant, credential, standing>>
  PROVE  GrantTypeOK' /\ handler'[p] = Working(pc, of, g, ver, scope, tries)
  BY DEF GrantTypeOK, Work, Working

\* The three lemmas above for a step that answers without writing.
LEMMA AnswerKeeps ==
  ASSUME GrantIInv, NEW p \in Invocations,
         NEW answer \in {"none", "tokens", "invalid", "blind", "ended", "error", "done"},
         Say(p, answer), UNCHANGED <<request, code, grant, credential, standing>>
  PROVE  GrantIInv'
<1>1. GrantTypeOK' BY AnswerType DEF GrantIInv
<1>2. RowsOK' /\ Forward BY NoWrite DEF GrantIInv
<1>3. Valid(handler[p])' BY AnswerValid DEF GrantIInv
<1> QED BY <1>1, <1>2, <1>3, StepKeeps DEF Say

\* And for a step that reads and goes on.
LEMMA WorkKeeps ==
  ASSUME GrantIInv, NEW p \in Invocations,
         NEW pc \in Refreshing \cup {"idle", "consent", "exchange", "revoke", "commit"},
         NEW of \in Requests \cup Codes \cup Credentials \cup {Nothing},
         NEW g \in Grants \cup {Nothing}, NEW ver \in Nat, NEW scope \in SUBSET Scopes,
         NEW tries \in 0..Attempts,
         Work(p, Working(pc, of, g, ver, scope, tries)),
         UNCHANGED <<request, code, grant, credential, standing>>,
         Valid(Working(pc, of, g, ver, scope, tries))
  PROVE  GrantIInv'
<1>1. GrantTypeOK' /\ handler'[p] = Working(pc, of, g, ver, scope, tries)
  BY WorkType DEF GrantIInv
<1>2. RowsOK' /\ Forward BY NoWrite DEF GrantIInv
<1>3. Valid(handler[p])' BY <1>1 DEF Valid, HoldsCredential
<1> QED BY <1>1, <1>2, <1>3, StepKeeps DEF Work

-----------------------------------------------------------------------------
(***************************************************************************)
(* The steps of a consent and of an exchange.                              *)
(***************************************************************************)
LEMMA BindConsentKeeps ==
  ASSUME GrantIInv, NEW n \in Requests, BindConsent(n)
  PROVE  GrantIInv'
<1>1. GrantTypeOK' BY DEF GrantIInv, GrantTypeOK, BindConsent
<1>2. Forward BY DEF GrantIInv, GrantTypeOK, BindConsent, Forward
<1>3. RowsOK'
  BY DEF GrantIInv, GrantTypeOK, BindConsent, RowsOK, RequestsOK, CodesOK, GrantsOK,
         CredentialsOK, OneFresh, UsedOnce
<1>4. ASSUME NEW q \in Invocations PROVE Valid(handler[q])'
  BY <1>1, <1>2, ValidKept DEF GrantIInv, BindConsent
<1> QED BY <1>1, <1>3, <1>4 DEF GrantIInv

LEMMA ConsentReadKeeps ==
  ASSUME GrantIInv, NEW p \in Invocations, NEW n \in Requests, ConsentRead(p, n)
  PROVE  GrantIInv'
<1>1. request[n].ver \in Nat BY DEF GrantIInv, GrantTypeOK
<1>2. Valid(Working("consent", n, Nothing, request[n].ver, {}, 0))
  BY <1>1 DEF ConsentRead, Valid, Working
<1> QED BY <1>1, <1>2, WorkKeeps DEF ConsentRead

LEMMA ConsentKeeps ==
  ASSUME GrantIInv, NEW p \in Invocations, NEW approved \in BOOLEAN, Consent(p, approved)
  PROVE  GrantIInv'
<1> DEFINE n == handler[p].of
<1>1. /\ n \in Requests /\ request[n].state = "fresh" /\ request[n].ver \in 1..MaxRenders + 1
      /\ request' = [request EXCEPT ![n] = [state |-> "spent", ver |-> request[n].ver + 1]]
  <2>1. n \in Requests /\ request[n].state = "fresh"
    BY DEF GrantIInv, Valid, Consent, Is, RequestUnchanged
  <2> QED BY <2>1 DEF GrantIInv, GrantTypeOK, Consent, RowsOK, RequestsOK
<1>2. GrantTypeOK'
  <2>1. request' \in [Requests -> [state : {"fresh", "spent"}, ver : 1..MaxRenders + 2]]
    BY <1>1 DEF GrantIInv, GrantTypeOK
  <2>2. code' \in [Codes -> [of : Requests \cup {Nothing}, state : {"none", "fresh", "spent"}]]
    BY <1>1 DEF GrantIInv, GrantTypeOK, Consent
  <2> QED BY <2>1, <2>2 DEF GrantIInv, GrantTypeOK, Consent, Say, Answered
<1>3. Forward BY <1>1, <1>2 DEF GrantIInv, GrantTypeOK, Consent, Forward
<1>4. RowsOK'
  <2>1. RequestsOK' BY <1>1 DEF GrantIInv, GrantTypeOK, RowsOK, RequestsOK
  <2>2. ASSUME NEW c \in Codes PROVE code'[c] = code[c] \/
          (code[c] = NoCode /\ code'[c] = [of |-> n, state |-> "fresh"])
    BY DEF GrantIInv, GrantTypeOK, Consent
  <2>3. CodesOK'
    BY <1>1, <2>2 DEF GrantIInv, GrantTypeOK, RowsOK, CodesOK, NoCode
  <2>4. CredentialsOK'
    BY <2>2 DEF GrantIInv, GrantTypeOK, RowsOK, CredentialsOK, Consent, NoCode
  <2>5. \A c, d \in Codes : c # d /\ code'[c] # NoCode => code'[c].of # code'[d].of
    <3>1. \A c \in Codes : code[c].of # n
      BY <1>1 DEF GrantIInv, RowsOK, CodesOK, NoCode
    <3>2. \A c, d \in Codes : c # d => code'[c] = code[c] \/ code'[d] = code[d]
      BY DEF GrantIInv, GrantTypeOK, Consent
    <3>3. \A c, d \in Codes : c # d /\ code[c] # NoCode => code[c].of # code[d].of
      BY DEF GrantIInv, RowsOK, UsedOnce
    <3> QED BY <1>1, <2>2, <3>1, <3>2, <3>3 DEF NoCode
  <2> QED BY <2>1, <2>3, <2>4, <2>5
      DEF GrantIInv, RowsOK, GrantsOK, OneFresh, UsedOnce, Consent
<1>5. Valid(handler[p])' BY AnswerValid DEF GrantIInv, Consent
<1> QED BY <1>2, <1>3, <1>4, <1>5, StepKeeps DEF Consent, Say

LEMMA ExchangeReadKeeps ==
  ASSUME GrantIInv, NEW p \in Invocations, NEW c \in Codes, ExchangeRead(p, c)
  PROVE  GrantIInv'
<1>1. Valid(Working("exchange", c, Nothing, 0, {}, 0)) BY DEF Valid, Working
<1> QED BY <1>1, WorkKeeps DEF ExchangeRead

LEMMA ExchangeKeeps ==
  ASSUME GrantIInv, NEW p \in Invocations, NEW scope \in Asked, ExchangeCode(p, scope)
  PROVE  GrantIInv'
<1> DEFINE c == handler[p].of
<1>1. PICK g \in Grants, t \in Credentials :
        /\ grant[g] = NoGrant /\ credential[t] = NoCredential
        /\ grant' = [grant EXCEPT ![g] = [scope |-> scope, state |-> "live", ver |-> 1]]
        /\ credential' = [credential EXCEPT ![t] = [grant |-> g, from |-> c, scope |-> scope,
                                                   state |-> "fresh"]]
  BY DEF ExchangeCode
<1>2. c \in Codes /\ code[c].state = "fresh"
  BY DEF GrantIInv, Valid, ExchangeCode, Is, CodeUnchanged
<1>3. scope \in SUBSET Scopes BY DEF Asked
<1>4. GrantTypeOK'
  <2>1. code' \in [Codes -> [of : Requests \cup {Nothing}, state : {"none", "fresh", "spent"}]]
    BY DEF GrantIInv, GrantTypeOK, ExchangeCode
  <2>2. grant' \in [Grants -> [scope : SUBSET Scopes, state : {"none", "live", "revoked"}, ver : Nat]]
    BY <1>1, <1>3 DEF GrantIInv, GrantTypeOK
  <2>3. credential' \in [Credentials -> [grant : Grants \cup {Nothing},
                                     from : Codes \cup Credentials \cup {Nothing},
                                     scope : SUBSET Scopes, state : {"none", "fresh", "spent"}]]
    BY <1>1, <1>2, <1>3 DEF GrantIInv, GrantTypeOK
  <2> QED BY <2>1, <2>2, <2>3 DEF GrantIInv, GrantTypeOK, ExchangeCode, Say, Answered
<1>5. Forward
  BY <1>1, <1>4 DEF GrantIInv, GrantTypeOK, ExchangeCode, Forward, NoGrant, NoCredential
<1>6. RowsOK'
  <2>1. RequestsOK' /\ GrantsOK'
    BY <1>1 DEF GrantIInv, GrantTypeOK, RowsOK, RequestsOK, GrantsOK, ExchangeCode
  <2>2. ASSUME NEW d \in Codes
        PROVE  /\ code'[d].of = code[d].of
               /\ code'[d].state = IF d = c THEN "spent" ELSE code[d].state
    BY <1>2 DEF GrantIInv, GrantTypeOK, ExchangeCode
  <2>3. CodesOK' /\ (\A d, e \in Codes : d # e /\ code'[d] # NoCode => code'[d].of # code'[e].of)
    <3>1. \A d \in Codes : d # c => code'[d] = code[d]
      BY DEF GrantIInv, GrantTypeOK, ExchangeCode
    <3> QED BY <1>2, <2>2, <3>1 DEF GrantIInv, GrantTypeOK, RowsOK, CodesOK, UsedOnce, NoCode, ExchangeCode
  <2>4. ASSUME NEW u \in Credentials, credential[u].state # "none"
        PROVE  u # t /\ credential'[u] = credential[u] /\ credential[u].grant # g
               /\ credential[u].from # c
    <3>1. /\ grant[credential[u].grant].state # "none"
          /\ credential[u].from \in Codes => code[credential[u].from].state = "spent"
      BY <2>4 DEF GrantIInv, RowsOK, CredentialsOK
    <3>2. grant[g].state = "none" /\ credential[t].state = "none"
      BY <1>1 DEF NoGrant, NoCredential
    <3>3. u # t /\ credential[u].grant # g /\ credential[u].from # c
      BY <1>2, <2>4, <3>1, <3>2
    <3> QED BY <1>1, <3>3 DEF GrantIInv, GrantTypeOK
  <2>5. credential'[t] = [grant |-> g, from |-> c, scope |-> scope, state |-> "fresh"]
        /\ \A u \in Credentials : u # t => credential'[u] = credential[u]
    BY <1>1 DEF GrantIInv, GrantTypeOK
  <2>6. grant'[g] = [scope |-> scope, state |-> "live", ver |-> 1]
        /\ \A h \in Grants : h # g => grant'[h] = grant[h]
    BY <1>1 DEF GrantIInv, GrantTypeOK
  <2>7. CredentialsOK'
    <3> SUFFICES ASSUME NEW u \in Credentials
        PROVE LET d == credential'[u] IN
          /\ d.state = "none" => d = NoCredential
          /\ d.state # "none" =>
               /\ d.grant \in Grants /\ grant'[d.grant].state # "none"
               /\ d.from \in Codes => code'[d.from].state = "spent"
               /\ d.from \in Credentials => credential'[d.from].state = "spent"
               /\ d.from \in Codes \cup Credentials
          /\ d.state = "fresh" => d.scope = grant'[d.grant].scope
      BY DEF CredentialsOK
    <3>1. CASE u = t BY <1>2, <2>2, <2>5, <2>6, <3>1
    <3>2. CASE u # t /\ credential[u].state = "none"
      BY <2>5, <3>2 DEF GrantIInv, RowsOK, CredentialsOK
    <3>3. CASE u # t /\ credential[u].state # "none"
      <4>1. LET d == credential[u] IN
          /\ d.grant \in Grants /\ grant[d.grant].state # "none"
          /\ d.from \in Codes => code[d.from].state = "spent"
          /\ d.from \in Credentials => credential[d.from].state = "spent"
          /\ d.from \in Codes \cup Credentials
          /\ d.state = "fresh" => d.scope = grant[d.grant].scope
        BY <3>3 DEF GrantIInv, RowsOK, CredentialsOK
      <4>2. credential[u].from \in Credentials => credential[u].from # t
        BY <1>1, <4>1 DEF NoCredential
      <4> QED BY <2>2, <2>4, <2>5, <2>6, <3>3, <4>1, <4>2
    <3> QED BY <3>1, <3>2, <3>3
  <2>8. OneFresh' BY <2>4, <2>5 DEF GrantIInv, GrantTypeOK, RowsOK, OneFresh
  <2>9. \A u, v \in Credentials : u # v /\ credential'[u] # NoCredential
          => credential'[u].from # credential'[v].from
    <3>1. \A u \in Credentials : credential[u].state # "none" => credential[u].from # c
      BY <2>4
    <3>2. \A u \in Credentials : credential[u].state = "none" => credential[u] = NoCredential
      BY DEF GrantIInv, RowsOK, CredentialsOK
    <3>3. \A u, v \in Credentials : u # v /\ credential[u] # NoCredential
            => credential[u].from # credential[v].from
      BY DEF GrantIInv, RowsOK, UsedOnce
    <3>4. \A u \in Credentials : credential[u].from # c
      BY <1>2, <3>1, <3>2 DEF NoCredential
    <3> QED BY <2>5, <3>3, <3>4
  <2> QED BY <2>1, <2>3, <2>7, <2>8, <2>9 DEF RowsOK, UsedOnce
<1>7. Valid(handler[p])' BY AnswerValid DEF GrantIInv, ExchangeCode
<1> QED BY <1>4, <1>5, <1>6, <1>7, StepKeeps DEF ExchangeCode, Say

-----------------------------------------------------------------------------
(***************************************************************************)
(* The steps of a refresh.                                                 *)
(***************************************************************************)
LEMMA RefreshReadKeeps ==
  ASSUME GrantIInv, NEW p \in Invocations, NEW t \in Credentials, RefreshRead(p, t)
  PROVE  GrantIInv'
<1> DEFINE c == credential[t]
<1>1. /\ c.grant \in Grants /\ grant[c.grant].state # "none" /\ c.scope \in SUBSET Scopes
      /\ c.state # "none"
  BY DEF GrantIInv, GrantTypeOK, RowsOK, CredentialsOK, RefreshRead
<1>0. UNCHANGED <<request, code, grant, credential, standing>> BY DEF RefreshRead
<1>2. CASE Work(p, Working("grant", t, c.grant, 0, c.scope, 0))
  <2>1. Valid(Working("grant", t, c.grant, 0, c.scope, 0))
    BY <1>1 DEF Valid, Working, HoldsCredential
  <2> QED BY <1>0, <1>1, <1>2, <2>1, WorkKeeps
<1>3. CASE Work(p, Working("reused", t, c.grant, 0, c.scope, 0))
  <2>1. Valid(Working("reused", t, c.grant, 0, c.scope, 0))
    BY <1>1 DEF Valid, Working, HoldsCredential
  <2> QED BY <1>0, <1>1, <1>3, <2>1, WorkKeeps
<1> QED BY <1>2, <1>3 DEF RefreshRead

\* An invocation at work holds a credential and a grant, or the grant alone.
LEMMA AtWork ==
  ASSUME GrantIInv, NEW p \in Invocations,
         handler[p].pc \in Refreshing \cup {"revoke", "commit"}
  PROVE  /\ handler[p].of \in Credentials \cup {Nothing} /\ handler[p].grant \in Grants
         /\ grant[handler[p].grant].state # "none" /\ grant[handler[p].grant].ver \in Nat
         /\ grant[handler[p].grant].scope \in SUBSET Scopes
         /\ handler[p].tries \in 0..Attempts /\ handler[p].scope \in SUBSET Scopes
         /\ handler[p].of = Nothing \/ HoldsCredential(handler[p])
         /\ handler[p].pc \in Refreshing => HoldsCredential(handler[p])
         /\ handler[p].said = "none"
<1>1. /\ handler[p].grant \in Grants /\ grant[handler[p].grant].state # "none"
      /\ handler[p].of = Nothing \/ HoldsCredential(handler[p])
      /\ handler[p].pc \in Refreshing => HoldsCredential(handler[p])
      /\ handler[p].said = "none"
  BY DEF GrantIInv, Valid
<1> QED BY <1>1 DEF GrantIInv, GrantTypeOK, HoldsCredential

\* A revocation that starts, or starts again, needs no more than that.
LEMMA RevokeValid ==
  ASSUME NEW h, NEW tries, h.grant \in Grants, grant[h.grant].state # "none",
         h.of = Nothing \/ HoldsCredential(h)
  PROVE  Valid(Working("revoke", h.of, h.grant, 0, {}, tries))
  BY DEF Valid, Working, HoldsCredential

LEMMA RefreshReusedKeeps ==
  ASSUME GrantIInv, NEW p \in Invocations, RefreshReused(p)
  PROVE  GrantIInv'
<1>1. handler[p].pc \in Refreshing BY DEF RefreshReused, Is
<1>2. Valid(Working("caught", handler[p].of, handler[p].grant, 0, {}, 0))
  BY <1>1, AtWork DEF Valid, Working, HoldsCredential
<1> QED BY <1>1, <1>2, AtWork, WorkKeeps DEF RefreshReused

LEMMA RefreshAsksKeeps ==
  ASSUME GrantIInv, NEW p \in Invocations, NEW scope \in Asked, RefreshAsks(p, scope)
  PROVE  GrantIInv'
<1> DEFINE h == handler[p]
<1> DEFINE g == grant[h.grant]
<1>1. h.pc = "grant" /\ g.state = "live" /\ scope \in SUBSET Scopes
  BY DEF RefreshAsks, Is, Asked, GrantRead
<1>2. HoldsCredential(h) /\ h.grant \in Grants BY <1>1, AtWork
<1>3. credential[h.of].state = "fresh" => scope \subseteq g.scope
  <2>1. credential[h.of].state = "fresh" => credential[h.of].scope = g.scope
    BY <1>2 DEF GrantIInv, RowsOK, CredentialsOK, HoldsCredential
  <2>2. h.scope = credential[h.of].scope BY <1>1 DEF GrantIInv, Valid
  <2> QED BY <2>1, <2>2 DEF RefreshAsks, GrantRead
<1>4. g.ver \in Nat BY <1>1, AtWork
<1>5. Valid(Working("check", h.of, h.grant, g.ver, scope, 0))
  BY <1>1, <1>2, <1>3, <1>4 DEF Valid, Working, HoldsCredential
<1> QED BY <1>1, <1>2, <1>4, <1>5, WorkKeeps DEF RefreshAsks, GrantRead, HoldsCredential

\* The owner is active: what was read before is still valid.
LEMMA OwnerCheckedKeeps ==
  ASSUME GrantIInv, NEW p \in Invocations, OwnerChecked(p)
  PROVE  GrantIInv'
<1> DEFINE h == handler[p]
<1>1. h.pc \in {"check", "caught"} /\ h.pc \in Refreshing BY DEF OwnerChecked
<1>2. /\ HoldsCredential(h) /\ h.of \in Credentials /\ h.grant \in Grants
      /\ grant[h.grant].state # "none" /\ h.scope \in SUBSET Scopes
  BY <1>1, AtWork DEF HoldsCredential
<1>3. h.ver \in Nat BY DEF GrantIInv, GrantTypeOK
<1>4. CASE h.pc = "check"
  <2>1. Valid(h) BY DEF GrantIInv
  <2>2. Valid(Working("issue", h.of, h.grant, h.ver, h.scope, 0))
    BY <1>2, <1>3, <1>4, <2>1 DEF Valid, Working, HoldsCredential
  <2>3. Work(p, Working("issue", h.of, h.grant, h.ver, h.scope, 0)) BY <1>4 DEF OwnerChecked
  <2> QED BY <1>2, <1>3, <2>2, <2>3, WorkKeeps DEF OwnerChecked
<1>5. CASE h.pc = "caught"
  <2>1. Work(p, Working("revoke", h.of, h.grant, h.ver, h.scope, 0)) BY <1>5 DEF OwnerChecked
  <2>2. Valid(Working("revoke", h.of, h.grant, h.ver, h.scope, 0))
    BY <1>2 DEF Valid, Working, HoldsCredential
  <2> QED BY <1>2, <1>3, <2>1, <2>2, WorkKeeps DEF OwnerChecked
<1> QED BY <1>1, <1>4, <1>5

\* An answer that names a credential which nothing was read of.
LEMMA StrangerKeeps ==
  ASSUME GrantIInv, NEW p \in Invocations, NEW t \in Credentials, RefreshByStranger(p, t)
  PROVE  GrantIInv'
<1>1. handler' = [handler EXCEPT ![p] = Answered(t, "invalid")] BY DEF RefreshByStranger
<1>2. GrantTypeOK' BY <1>1 DEF GrantIInv, GrantTypeOK, Answered, RefreshByStranger
<1>3. RowsOK' /\ Forward BY NoWrite DEF GrantIInv, RefreshByStranger
<1>4. handler'[p] = Answered(t, "invalid") BY <1>1 DEF GrantIInv, GrantTypeOK
<1>5. Valid(handler[p])' BY <1>4 DEF Valid, Answered
<1> QED BY <1>1, <1>2, <1>3, <1>5, StepKeeps

\* The owner's account does not touch the rows.
LEMMA OwnerKeeps ==
  ASSUME GrantIInv, SuspendUser \/ ReinstateUser \/ LogOutEverywhere
  PROVE  GrantIInv'
<1>1. UNCHANGED <<request, code, grant, credential, handler>>
  BY DEF SuspendUser, ReinstateUser, LogOutEverywhere
<1>2. standing' \in [active : BOOLEAN, cut : SUBSET (Codes \cup Grants)]
  <2>1. standing \in [active : BOOLEAN, cut : SUBSET (Codes \cup Grants)]
    BY DEF GrantIInv, GrantTypeOK
  <2>2. Dated \subseteq Codes \cup Grants BY DEF Dated
  <2>3. ASSUME NEW active \in BOOLEAN, Outdated(active)
        PROVE  standing' \in [active : BOOLEAN, cut : SUBSET (Codes \cup Grants)]
    BY <2>1, <2>2, <2>3 DEF Outdated
  <2>4. standing.active \in BOOLEAN BY <2>1
  <2>5. CASE SuspendUser BY <2>3, <2>5 DEF SuspendUser
  <2>6. CASE ReinstateUser BY <2>1, <2>6 DEF ReinstateUser
  <2>7. CASE LogOutEverywhere BY <2>3, <2>4, <2>7 DEF LogOutEverywhere
  <2> QED BY <2>5, <2>6, <2>7
<1>5. GrantTypeOK' BY <1>1, <1>2 DEF GrantIInv, GrantTypeOK
<1>3. RowsOK'
  BY <1>1 DEF GrantIInv, RowsOK, RequestsOK, CodesOK, GrantsOK, CredentialsOK, OneFresh, UsedOnce
<1>4. \A p \in Invocations : Valid(handler[p])'
  BY <1>1 DEF GrantIInv, Valid, HoldsCredential
<1> QED BY <1>3, <1>4, <1>5 DEF GrantIInv

\* What the transaction of a refresh does when its conditions hold.
LEMMA IssueRows ==
  ASSUME GrantIInv, NEW p \in Invocations, handler[p].pc = "issue", IssueHolds(p), IssueWrites(p),
         UNCHANGED <<request, code>>
  PROVE  LET h == handler[p] IN
         /\ HoldsCredential(h) /\ h.grant \in Grants /\ grant[h.grant].state = "live"
         /\ credential[h.of].state = "fresh" /\ h.scope \subseteq grant[h.grant].scope
         /\ \E t \in Credentials :
              /\ t # h.of /\ credential[t] = NoCredential
              /\ credential'[t] = [grant |-> h.grant, from |-> h.of, scope |-> h.scope, state |-> "fresh"]
              /\ credential'[h.of] = [credential[h.of] EXCEPT !.state = "spent"]
              /\ \A u \in Credentials : u \notin {t, h.of} => credential'[u] = credential[u]
         /\ grant'[h.grant] = [scope |-> h.scope, state |-> "live", ver |-> grant[h.grant].ver + 1]
         /\ \A g \in Grants : g # h.grant => grant'[g] = grant[g]
<1> DEFINE h == handler[p]
<1>1. HoldsCredential(h) /\ h.grant \in Grants /\ h.scope \in SUBSET Scopes
  BY AtWork
<1>2. credential[h.of].state = "fresh" /\ h.ver = grant[h.grant].ver
  BY DEF IssueHolds, GrantUnchanged, CredentialUnchanged, GrantRead
<1>3. grant[h.grant].state = "live" /\ h.scope \subseteq grant[h.grant].scope
  BY <1>2 DEF GrantIInv, Valid
<1>4. PICK t \in Credentials :
        /\ credential[t] = NoCredential
        /\ credential' = [credential EXCEPT
             ![t] = [grant |-> h.grant, from |-> h.of, scope |-> h.scope, state |-> "fresh"],
             ![h.of].state = "spent"]
        /\ grant' = [grant EXCEPT ![h.grant] = [scope |-> h.scope, state |-> "live", ver |-> h.ver + 1]]
  BY DEF IssueWrites
<1>5. t # h.of BY <1>2, <1>4 DEF NoCredential
<1>6. /\ credential'[t] = [grant |-> h.grant, from |-> h.of, scope |-> h.scope, state |-> "fresh"]
      /\ credential'[h.of] = [credential[h.of] EXCEPT !.state = "spent"]
      /\ \A u \in Credentials : u \notin {t, h.of} => credential'[u] = credential[u]
  BY <1>1, <1>4, <1>5 DEF HoldsCredential, GrantIInv, GrantTypeOK
<1>7. /\ grant'[h.grant] = [scope |-> h.scope, state |-> "live", ver |-> grant[h.grant].ver + 1]
      /\ \A g \in Grants : g # h.grant => grant'[g] = grant[g]
  BY <1>1, <1>2, <1>4 DEF GrantIInv, GrantTypeOK
<1> QED BY <1>1, <1>2, <1>3, <1>4, <1>5, <1>6, <1>7

LEMMA IssueForward ==
  ASSUME GrantIInv, NEW p \in Invocations, handler[p].pc = "issue", IssueHolds(p), IssueWrites(p),
         UNCHANGED <<request, code>>
  PROVE  /\ grant' \in [Grants -> [scope : SUBSET Scopes, state : {"none", "live", "revoked"}, ver : Nat]]
         /\ credential' \in [Credentials -> [grant : Grants \cup {Nothing},
                                     from : Codes \cup Credentials \cup {Nothing},
                                     scope : SUBSET Scopes, state : {"none", "fresh", "spent"}]]
         /\ RowsOK' /\ Forward
<1> DEFINE h == handler[p]
<1>1. /\ HoldsCredential(h) /\ h.grant \in Grants /\ grant[h.grant].state = "live"
      /\ credential[h.of].state = "fresh" /\ h.scope \subseteq grant[h.grant].scope
      /\ grant'[h.grant] = [scope |-> h.scope, state |-> "live", ver |-> grant[h.grant].ver + 1]
      /\ \A g \in Grants : g # h.grant => grant'[g] = grant[g]
  BY IssueRows
<1>2. PICK t \in Credentials :
        /\ t # h.of /\ credential[t] = NoCredential
        /\ credential'[t] = [grant |-> h.grant, from |-> h.of, scope |-> h.scope, state |-> "fresh"]
        /\ credential'[h.of] = [credential[h.of] EXCEPT !.state = "spent"]
        /\ \A u \in Credentials : u \notin {t, h.of} => credential'[u] = credential[u]
  BY IssueRows
<1>3. /\ h.of \in Credentials /\ credential[h.of].grant = h.grant /\ h.scope \in SUBSET Scopes
      /\ grant[h.grant].ver \in Nat
  BY <1>1, AtWork DEF HoldsCredential
<1>4. /\ credential'[h.of].state = "spent"
      /\ credential'[h.of].grant = h.grant
      /\ credential'[h.of].from = credential[h.of].from
      /\ credential'[h.of].scope = credential[h.of].scope
  BY <1>2, <1>3 DEF GrantIInv, GrantTypeOK
<1>5. grant' \in [Grants -> [scope : SUBSET Scopes, state : {"none", "live", "revoked"}, ver : Nat]]
  BY <1>1, <1>3 DEF GrantIInv, GrantTypeOK, IssueWrites
<1>6. credential' \in [Credentials -> [grant : Grants \cup {Nothing},
                                     from : Codes \cup Credentials \cup {Nothing},
                                     scope : SUBSET Scopes, state : {"none", "fresh", "spent"}]]
  <2> DEFINE C == [grant : Grants \cup {Nothing}, from : Codes \cup Credentials \cup {Nothing},
                   scope : SUBSET Scopes, state : {"none", "fresh", "spent"}]
  <2>1. credential'[t] \in C BY <1>1, <1>2, <1>3
  <2>2. credential'[h.of] \in C
    <3>1. credential[h.of] \in C BY <1>3 DEF GrantIInv, GrantTypeOK
    <3>2. credential'[h.of] = [grant |-> h.grant, from |-> credential[h.of].from,
                               scope |-> credential[h.of].scope, state |-> "spent"]
      BY <1>2, <1>3, <3>1
    <3> QED BY <1>1, <3>1, <3>2
  <2>3. \A u \in Credentials : u \notin {t, h.of} => credential'[u] \in C
    BY <1>2 DEF GrantIInv, GrantTypeOK
  <2>4. \A u \in Credentials : credential'[u] \in C BY <2>1, <2>2, <2>3
  <2>5. credential' = [u \in Credentials |-> credential'[u]]
    BY DEF GrantIInv, GrantTypeOK, IssueWrites
  <2> QED BY <2>4, <2>5
<1>7. Forward
  <2>1. \A n \in Requests : request'[n] = request[n] OBVIOUS
  <2>2. \A n \in Requests : request[n].ver <= request'[n].ver BY DEF GrantIInv, GrantTypeOK
  <2>3. \A g \in Grants : grant[g].state # "none" =>
       /\ grant'[g].state # "none"
       /\ grant[g].ver <= grant'[g].ver
       /\ grant[g].ver = grant'[g].ver => grant'[g] = grant[g]
    BY <1>1, <1>3 DEF GrantIInv, GrantTypeOK
  <2>4. \A u \in Credentials : credential[u].state # "none" =>
       /\ credential'[u].state = "spent" \/ credential'[u] = credential[u]
       /\ credential'[u].grant = credential[u].grant
       /\ credential'[u].scope = credential[u].scope
    <3>1. credential[t].state = "none" BY <1>2 DEF NoCredential
    <3>2. ASSUME NEW u \in Credentials, credential[u].state # "none"
          PROVE  u = h.of \/ credential'[u] = credential[u]
      BY <1>2, <3>1, <3>2
    <3> QED BY <1>3, <1>4, <3>2
  <2> QED BY <2>1, <2>2, <2>3, <2>4 DEF Forward
<1>8. RequestsOK' /\ CodesOK' /\ GrantsOK'
  BY <1>1 DEF GrantIInv, GrantTypeOK, RowsOK, RequestsOK, CodesOK, GrantsOK
<1>9. CredentialsOK'
  <2> SUFFICES ASSUME NEW u \in Credentials
      PROVE LET d == credential'[u] IN
        /\ d.state = "none" => d = NoCredential
        /\ d.state # "none" =>
             /\ d.grant \in Grants /\ grant'[d.grant].state # "none"
             /\ d.from \in Codes => code[d.from].state = "spent"
             /\ d.from \in Credentials => credential'[d.from].state = "spent"
             /\ d.from \in Codes \cup Credentials
        /\ d.state = "fresh" => d.scope = grant'[d.grant].scope
    BY DEF CredentialsOK
  <2>1. CASE u = t
    <3>1. credential'[u] = [grant |-> h.grant, from |-> h.of, scope |-> h.scope, state |-> "fresh"]
      BY <1>2, <2>1
    <3>2. h.of \notin Codes BY <1>3
    <3> QED BY <1>1, <1>3, <1>4, <3>1, <3>2
  <2>2. ASSUME u # t, credential[u].state # "none"
        PROVE LET d == credential[u] IN
             /\ d.grant \in Grants /\ grant'[d.grant].state # "none"
             /\ d.from \in Codes => code[d.from].state = "spent"
             /\ d.from \in Credentials => credential'[d.from].state = "spent"
             /\ d.from \in Codes \cup Credentials
    <3>1. LET d == credential[u] IN
             /\ d.grant \in Grants /\ grant[d.grant].state # "none"
             /\ d.from \in Codes => code[d.from].state = "spent"
             /\ d.from \in Credentials => credential[d.from].state = "spent"
             /\ d.from \in Codes \cup Credentials
      BY <2>2 DEF GrantIInv, RowsOK, CredentialsOK
    <3>2. credential[u].from \in Credentials => credential[u].from # t
      BY <1>2, <3>1 DEF NoCredential
    <3>3. credential[u].from \in Credentials => credential'[credential[u].from].state = "spent"
      BY <1>2, <1>4, <3>1, <3>2
    <3>4. grant'[credential[u].grant].state # "none" BY <1>1, <3>1
    <3> QED BY <3>1, <3>3, <3>4
  <2>3. CASE u = h.of BY <1>1, <1>2, <1>3, <1>4, <2>2, <2>3
  <2>4. CASE u \notin {t, h.of}
    <3>1. credential'[u] = credential[u] BY <1>2, <2>4
    <3>2. credential[u].state = "none" => credential[u] = NoCredential
      BY DEF GrantIInv, RowsOK, CredentialsOK
    <3>3. credential[u].state = "fresh" => credential[u].grant # h.grant
      BY <1>1, <1>3, <2>4 DEF GrantIInv, RowsOK, OneFresh
    <3>4. credential[u].state = "fresh" => credential[u].grant \in Grants
                                          /\ credential[u].scope = grant[credential[u].grant].scope
      BY DEF GrantIInv, RowsOK, CredentialsOK
    <3>5. credential[u].state = "fresh" => credential[u].scope = grant'[credential[u].grant].scope
      BY <1>1, <3>3, <3>4
    <3> QED BY <2>2, <2>4, <3>1, <3>2, <3>5
  <2> QED BY <2>1, <2>3, <2>4
<1>10. OneFresh'
  <2>1. \A u \in Credentials : u \notin {t, h.of} /\ credential[u].state = "fresh"
          => credential[u].grant # h.grant
    BY <1>1, <1>3 DEF GrantIInv, RowsOK, OneFresh
  <2>2. credential'[t].grant = h.grant BY <1>2
  <2>3. ASSUME NEW u \in Credentials, NEW v \in Credentials, u # v,
               credential'[u].state = "fresh", credential'[v].state = "fresh"
        PROVE  credential'[u].grant # credential'[v].grant
    <3>1. u # h.of /\ v # h.of BY <1>4, <2>3
    <3>2. CASE u = t BY <1>2, <2>1, <2>2, <2>3, <3>1, <3>2
    <3>3. CASE v = t BY <1>2, <2>1, <2>2, <2>3, <3>1, <3>3
    <3>4. CASE u # t /\ v # t
      <4>1. credential'[u] = credential[u] /\ credential'[v] = credential[v]
        BY <1>2, <3>1, <3>4
      <4> QED BY <2>3, <4>1 DEF GrantIInv, RowsOK, OneFresh
    <3> QED BY <3>2, <3>3, <3>4
  <2> QED BY <2>3 DEF OneFresh
<1>11. UsedOnce'
  <2>1. \A u \in Credentials : credential[u].from # h.of
    <3>1. \A u \in Credentials : credential[u].state = "none" => credential[u].from = Nothing
      BY DEF GrantIInv, RowsOK, CredentialsOK, NoCredential
    <3>2. \A u \in Credentials : credential[u].state # "none" /\ credential[u].from \in Credentials
            => credential[credential[u].from].state = "spent"
      BY DEF GrantIInv, RowsOK, CredentialsOK
    <3> QED BY <1>1, <1>3, <3>1, <3>2
  <2>2. \A u, v \in Credentials : u # v /\ credential[u] # NoCredential
          => credential[u].from # credential[v].from
    BY DEF GrantIInv, RowsOK, UsedOnce
  <2>3. credential[h.of] # NoCredential BY <1>1 DEF NoCredential
  <2>4. \A u \in Credentials : u # t => credential'[u].from = credential[u].from
    BY <1>2, <1>4
  <2>5. \A u \in Credentials : u # t /\ credential'[u] # NoCredential => credential[u] # NoCredential
    BY <1>2, <2>3
  <2>6. credential'[t].from = h.of BY <1>2
  <2>7. \A u, v \in Credentials : u # v /\ credential'[u] # NoCredential
          => credential'[u].from # credential'[v].from
    BY <2>1, <2>2, <2>4, <2>5, <2>6
  <2> QED BY <2>7 DEF GrantIInv, RowsOK, UsedOnce
<1> QED BY <1>5, <1>6, <1>7, <1>8, <1>9, <1>10, <1>11 DEF RowsOK

LEMMA IssueKeeps ==
  ASSUME GrantIInv, NEW p \in Invocations, Issue(p)
  PROVE  GrantIInv'
<1>1. /\ handler[p].pc = "issue" /\ IssueHolds(p) /\ IssueWrites(p) /\ UNCHANGED <<request, code, standing>>
      /\ Say(p, "tokens")
  BY DEF Issue, Is
<1>2. GrantTypeOK' BY <1>1, IssueForward DEF GrantIInv, GrantTypeOK, Say, Answered
<1>3. Valid(handler[p])' BY <1>1, AnswerValid DEF GrantIInv
<1> QED BY <1>1, <1>2, <1>3, IssueForward, StepKeeps DEF Say

LEMMA IssueFailsKeeps ==
  ASSUME GrantIInv, NEW p \in Invocations, IssueFails(p)
  PROVE  GrantIInv'
<1> DEFINE h == handler[p]
<1>1. h.pc = "issue" /\ UNCHANGED <<request, code, standing>>
      /\ Work(p, Working("recheck", h.of, h.grant, 0, {}, 0))
  BY DEF IssueFails, Is
<1>2. HoldsCredential(h) /\ h.grant \in Grants /\ grant[h.grant].state # "none"
      /\ h.of \in Credentials
  BY <1>1, AtWork DEF HoldsCredential
<1>3. CASE UNCHANGED <<grant, credential>>
  <2>1. Valid(Working("recheck", h.of, h.grant, 0, {}, 0))
    BY <1>2 DEF Valid, Working, HoldsCredential
  <2> QED BY <1>1, <1>2, <1>3, <2>1, WorkKeeps
<1>4. CASE IssueHolds(p) /\ IssueWrites(p)
  <2>1. RowsOK' /\ Forward BY <1>1, <1>4, IssueForward
  <2>2. GrantTypeOK' BY <1>1, <1>2, <1>4, IssueForward DEF GrantIInv, GrantTypeOK, Work, Working
  <2>3. handler'[p] = Working("recheck", h.of, h.grant, 0, {}, 0)
    BY <1>1 DEF GrantIInv, GrantTypeOK, Work
  <2>4. credential'[h.of].state # "none" /\ credential'[h.of].grant = h.grant
    BY <1>2, <2>1 DEF Forward, HoldsCredential
  <2>5. grant'[h.grant].state # "none" BY <1>2, <2>1 DEF Forward
  <2>6. Valid(handler[p])' BY <1>2, <2>3, <2>4, <2>5 DEF Valid, Working, HoldsCredential
  <2> QED BY <1>1, <2>1, <2>2, <2>6, StepKeeps DEF Work
<1> QED BY <1>3, <1>4 DEF IssueFails

LEMMA RecheckKeeps ==
  ASSUME GrantIInv, NEW p \in Invocations, Recheck(p)
  PROVE  GrantIInv'
<1>1. handler[p].pc = "recheck" /\ handler[p].pc \in Refreshing BY DEF Recheck, Is
<1>2. CASE Say(p, "invalid") BY <1>2, AnswerKeeps DEF Recheck
<1>3. CASE Work(p, Working("revoke", handler[p].of, handler[p].grant, 0, {}, 0))
  <2>1. Valid(Working("revoke", handler[p].of, handler[p].grant, 0, {}, 0))
    BY <1>1, AtWork, RevokeValid
  <2> QED BY <1>1, <1>3, <2>1, AtWork, WorkKeeps DEF Recheck
<1> QED BY <1>2, <1>3 DEF Recheck

-----------------------------------------------------------------------------
(***************************************************************************)
(* The steps that end a grant, and the whole.                              *)
(***************************************************************************)
LEMMA DisconnectKeeps ==
  ASSUME GrantIInv, NEW p \in Invocations, NEW t \in Credentials, Disconnect(p, t)
  PROVE  GrantIInv'
<1>1. credential[t].grant \in Grants /\ grant[credential[t].grant].state # "none"
  BY DEF GrantIInv, RowsOK, CredentialsOK, Disconnect
<1>2. Valid(Working("revoke", Nothing, credential[t].grant, 0, {}, 0))
  BY <1>1 DEF Valid, Working
<1> QED BY <1>1, <1>2, WorkKeeps DEF Disconnect

LEMMA RevokeReadKeeps ==
  ASSUME GrantIInv, NEW p \in Invocations, RevokeRead(p)
  PROVE  GrantIInv'
<1> DEFINE h == handler[p]
<1> DEFINE g == grant[h.grant]
<1>1. h.pc = "revoke" BY DEF RevokeRead, Is
<1>2. /\ h.grant \in Grants /\ g.state # "none" /\ g.ver \in Nat /\ g.scope \in SUBSET Scopes
      /\ h.tries \in 0..Attempts /\ h.of \in Credentials \cup {Nothing}
      /\ h.of = Nothing \/ HoldsCredential(h)
  BY <1>1, AtWork
<1>3. CASE g.state = "revoked"
  BY <1>3, AnswerKeeps DEF RevokeRead, GrantRead
<1>4. CASE g.state # "revoked"
  <2>1. g.state = "live" BY <1>2, <1>4 DEF GrantIInv, GrantTypeOK
  <2>2. Valid(Working("commit", h.of, h.grant, g.ver, g.scope, h.tries))
    BY <1>2, <2>1 DEF Valid, Working, HoldsCredential
  <2> QED BY <1>2, <1>4, <2>2, WorkKeeps DEF RevokeRead, GrantRead
<1> QED BY <1>3, <1>4

LEMMA RevokeGrantKeeps ==
  ASSUME GrantIInv, NEW p \in Invocations, RevokeGrant(p)
  PROVE  GrantIInv'
<1> DEFINE h == handler[p]
<1>1. h.pc = "commit" /\ h.ver = grant[h.grant].ver BY DEF RevokeGrant, Is, GrantUnchanged, GrantRead
<1>2. /\ h.grant \in Grants /\ grant[h.grant].state # "none" /\ grant[h.grant].ver \in Nat
      /\ h.scope \in SUBSET Scopes
  BY <1>1, AtWork
<1>3. h.scope = grant[h.grant].scope BY <1>1 DEF GrantIInv, Valid
<1>4. /\ grant'[h.grant] = [scope |-> h.scope, state |-> "revoked", ver |-> grant[h.grant].ver + 1]
      /\ \A g \in Grants : g # h.grant => grant'[g] = grant[g]
      /\ UNCHANGED <<request, code, credential, standing>> /\ Say(p, "ended")
  BY <1>1, <1>2 DEF GrantIInv, GrantTypeOK, RevokeGrant
<1>5. GrantTypeOK' BY <1>1, <1>2 DEF GrantIInv, GrantTypeOK, RevokeGrant, Say, Answered
<1>6. Forward
  <2>1. \A n \in Requests : request'[n] = request[n] /\ request[n].ver <= request'[n].ver
    BY <1>4 DEF GrantIInv, GrantTypeOK
  <2>2. \A g \in Grants : grant[g].state # "none" =>
       /\ grant'[g].state # "none"
       /\ grant[g].ver <= grant'[g].ver
       /\ grant[g].ver = grant'[g].ver => grant'[g] = grant[g]
    BY <1>2, <1>4 DEF GrantIInv, GrantTypeOK
  <2> QED BY <1>4, <2>1, <2>2 DEF Forward
<1>7. RowsOK'
  <2>1. GrantsOK' BY <1>4 DEF GrantIInv, RowsOK, GrantsOK
  <2>2. \A g \in Grants : grant[g].state # "none" => grant'[g].state # "none"
                                                   /\ grant'[g].scope = grant[g].scope
    BY <1>3, <1>4
  <2>3. CredentialsOK' BY <1>4, <2>2 DEF GrantIInv, GrantTypeOK, RowsOK, CredentialsOK
  <2> QED BY <1>4, <2>1, <2>3 DEF GrantIInv, RowsOK, RequestsOK, CodesOK, OneFresh, UsedOnce
<1>8. Valid(handler[p])' BY <1>4, AnswerValid DEF GrantIInv
<1> QED BY <1>4, <1>5, <1>6, <1>7, <1>8, StepKeeps DEF Say

LEMMA RevokeConflictKeeps ==
  ASSUME GrantIInv, NEW p \in Invocations, RevokeConflict(p)
  PROVE  GrantIInv'
<1> DEFINE h == handler[p]
<1>1. h.pc = "commit" BY DEF RevokeConflict, Is
<1>2. CASE ~(h.tries + 1 < Attempts) BY <1>2, AnswerKeeps DEF RevokeConflict
<1>3. CASE h.tries + 1 < Attempts
  <2>1. h.tries + 1 \in 0..Attempts BY <1>1, <1>3, AtWork
  <2>2. Valid(Working("revoke", h.of, h.grant, 0, {}, h.tries + 1))
    BY <1>1, AtWork, RevokeValid
  <2> QED BY <1>1, <1>3, <2>1, <2>2, AtWork, WorkKeeps DEF RevokeConflict
<1> QED BY <1>2, <1>3

LEMMA GrantInit ==
  McpInit => GrantIInv
<1> SUFFICES ASSUME McpInit PROVE GrantIInv
  OBVIOUS
<1>1. GrantTypeOK BY DEF McpInit, GrantTypeOK, NoCode, NoGrant, NoCredential, Answered
<1>2. RowsOK
  BY DEF McpInit, RowsOK, RequestsOK, CodesOK, GrantsOK, CredentialsOK, OneFresh, UsedOnce,
         NoCode, NoGrant, NoCredential
<1>3. \A p \in Invocations : Valid(handler[p]) BY DEF McpInit, Answered, Valid
<1> QED BY <1>1, <1>2, <1>3 DEF GrantIInv

LEMMA GrantStep ==
  GrantIInv /\ [McpNext]_mcpVars => GrantIInv'
<1> SUFFICES ASSUME GrantIInv, [McpNext]_mcpVars PROVE GrantIInv'
  OBVIOUS
<1>1. CASE UNCHANGED mcpVars
  <2>1. RowsOK' BY <1>1, NoWrite DEF mcpVars, GrantIInv
  <2> QED BY <1>1, <2>1 DEF GrantIInv, GrantTypeOK, Valid, HoldsCredential, mcpVars
<1>2. ASSUME NEW n \in Requests, BindConsent(n) PROVE GrantIInv'
  BY <1>2, BindConsentKeeps
<1>3. ASSUME NEW p \in Invocations, ConsentStep(p) PROVE GrantIInv'
  <2>1. ASSUME ConsentConflict(p) \/ ExchangeConflict(p) PROVE GrantIInv'
    BY <2>1, AnswerKeeps DEF ConsentConflict, ExchangeConflict
  <2> QED BY <1>3, <2>1, ConsentReadKeeps, ConsentKeeps, ExchangeReadKeeps, ExchangeKeeps
      DEF ConsentStep
<1>4. ASSUME NEW p \in Invocations, RefreshStep(p) PROVE GrantIInv'
  <2>1. ASSUME RefreshRefused(p) \/ OwnerRefused(p) \/ RefreshBlind(p) PROVE GrantIInv'
    BY <2>1, AnswerKeeps DEF RefreshRefused, OwnerRefused, RefreshBlind
  <2> QED BY <1>4, <2>1, RefreshReadKeeps, StrangerKeeps, RefreshReusedKeeps, RefreshAsksKeeps,
             OwnerCheckedKeeps, IssueKeeps, IssueFailsKeeps, RecheckKeeps
      DEF RefreshStep
<1>5. ASSUME NEW p \in Invocations, RevokeStep(p) PROVE GrantIInv'
  <2>1. ASSUME RevokeReadFails(p) \/ McpDie(p) PROVE GrantIInv'
    BY <2>1, AnswerKeeps DEF RevokeReadFails, McpDie
  <2> QED BY <1>5, <2>1, DisconnectKeeps, RevokeReadKeeps, RevokeGrantKeeps, RevokeConflictKeeps
      DEF RevokeStep
<1> QED BY <1>1, <1>2, <1>3, <1>4, <1>5, OwnerKeeps DEF McpNext

LEMMA GrantInvariant == McpSpec => []GrantIInv
  BY GrantInit, GrantStep, PTL DEF McpSpec

\* The rows and what the invocations have read of them have their types.
THEOREM GrantsTypeCorrect == McpSpec => []GrantTypeOK
  BY GrantInvariant, PTL DEF GrantIInv

\* However many handlers consent, exchange and refresh at the same time, a request
\* yields one code, a code one grant and a credential one successor.
THEOREM YieldsOnce == McpSpec => []UsedOnce
<1>1. GrantIInv => UsedOnce BY DEF GrantIInv, RowsOK
<1> QED BY <1>1, GrantInvariant, PTL

-----------------------------------------------------------------------------
\* A step of GrantShrinks.
Shrinks ==
  \A g \in Grants :
    /\ grant[g].state # "none" => grant'[g].scope \subseteq grant[g].scope
    /\ grant[g].state = "revoked" =>
         /\ grant'[g].state = "revoked"
         /\ \A t \in Credentials : credential'[t].grant = g => credential[t].grant = g

LEMMA ShrinkStep ==
  GrantIInv /\ [McpNext]_mcpVars => Shrinks
<1> SUFFICES ASSUME GrantIInv, [McpNext]_mcpVars PROVE Shrinks
  OBVIOUS
<1>1. CASE UNCHANGED <<grant, credential>> BY <1>1 DEF Shrinks
<1>2. ASSUME NEW p \in Invocations, NEW scope \in Asked, ExchangeCode(p, scope) PROVE Shrinks
  <2>1. PICK g \in Grants, t \in Credentials :
          /\ grant[g] = NoGrant
          /\ grant' = [grant EXCEPT ![g] = [scope |-> scope, state |-> "live", ver |-> 1]]
          /\ credential' = [credential EXCEPT ![t] = [grant |-> g, from |-> handler[p].of,
                                                     scope |-> scope, state |-> "fresh"]]
    BY <1>2 DEF ExchangeCode
  <2>2. \A h \in Grants : grant[h].state # "none" => h # g /\ grant'[h] = grant[h]
    BY <2>1 DEF GrantIInv, GrantTypeOK, NoGrant
  <2>3. \A u \in Credentials : credential'[u].grant \in {g, credential[u].grant}
    BY <2>1 DEF GrantIInv, GrantTypeOK
  <2> QED BY <2>2, <2>3 DEF Shrinks
<1>3. ASSUME NEW p \in Invocations, handler[p].pc = "issue", IssueHolds(p), IssueWrites(p),
             UNCHANGED <<request, code>>
      PROVE  Shrinks
  <2> DEFINE h == handler[p]
  <2>1. /\ h.grant \in Grants /\ grant[h.grant].state = "live"
        /\ h.scope \subseteq grant[h.grant].scope
        /\ grant'[h.grant] = [scope |-> h.scope, state |-> "live", ver |-> grant[h.grant].ver + 1]
        /\ \A g \in Grants : g # h.grant => grant'[g] = grant[g]
    BY <1>3, IssueRows
  <2>2. \A u \in Credentials : credential'[u].grant \in {h.grant, credential[u].grant}
    <3>1. PICK t \in Credentials :
            /\ credential'[t] = [grant |-> h.grant, from |-> h.of, scope |-> h.scope, state |-> "fresh"]
            /\ credential'[h.of] = [credential[h.of] EXCEPT !.state = "spent"]
            /\ \A u \in Credentials : u \notin {t, h.of} => credential'[u] = credential[u]
      BY <1>3, IssueRows
    <3>2. h.of \in Credentials BY <1>3, AtWork DEF HoldsCredential
    <3>3. credential'[h.of].grant = credential[h.of].grant
      BY <3>1, <3>2 DEF GrantIInv, GrantTypeOK
    <3>4. credential'[t].grant = h.grant BY <3>1
    <3>5. ASSUME NEW u \in Credentials, u \notin {t, h.of} PROVE credential'[u].grant = credential[u].grant
      BY <3>1, <3>5
    <3> QED BY <3>3, <3>4, <3>5
  <2> QED BY <2>1, <2>2 DEF Shrinks
<1>4. ASSUME NEW p \in Invocations, RevokeGrant(p) PROVE Shrinks
  <2> DEFINE h == handler[p]
  <2>1. h.pc = "commit" /\ h.ver = grant[h.grant].ver
    BY <1>4 DEF RevokeGrant, Is, GrantUnchanged, GrantRead
  <2>2. h.grant \in Grants BY <2>1, AtWork
  <2>3. h.scope = grant[h.grant].scope BY <2>1 DEF GrantIInv, Valid
  <2>4. /\ grant'[h.grant].scope = grant[h.grant].scope /\ grant'[h.grant].state = "revoked"
        /\ \A g \in Grants : g # h.grant => grant'[g] = grant[g]
    BY <1>4, <2>2, <2>3 DEF GrantIInv, GrantTypeOK, RevokeGrant
  <2>5. \A g \in Grants : grant'[g].scope = grant[g].scope
                         /\ (grant[g].state = "revoked" => grant'[g].state = "revoked")
    BY <2>4
  <2> QED BY <1>4, <2>5 DEF Shrinks, RevokeGrant
<1>5. CASE UNCHANGED mcpVars BY <1>1, <1>5 DEF mcpVars
<1>6. ASSUME NEW n \in Requests, BindConsent(n) PROVE Shrinks
  BY <1>1, <1>6 DEF BindConsent
<1>7. ASSUME NEW p \in Invocations, ConsentStep(p) PROVE Shrinks
  BY <1>1, <1>2, <1>7 DEF ConsentStep, ConsentRead, Consent, ConsentConflict, ExchangeRead,
                          ExchangeConflict
<1>8. ASSUME NEW p \in Invocations, RefreshStep(p) PROVE Shrinks
  <2>1. ASSUME Issue(p) \/ IssueFails(p) PROVE Shrinks
    BY <1>1, <1>3, <2>1 DEF Issue, IssueFails, Is
  <2> QED BY <1>1, <1>8, <2>1 DEF RefreshStep, RefreshRead, RefreshByStranger, RefreshRefused,
                                   RefreshReused, RefreshAsks, OwnerRefused, OwnerChecked,
                                   Recheck, RefreshBlind
<1>9. ASSUME NEW p \in Invocations, RevokeStep(p) PROVE Shrinks
  BY <1>1, <1>4, <1>9 DEF RevokeStep, Disconnect, RevokeRead, RevokeReadFails, RevokeConflict, McpDie
<1>10. ASSUME SuspendUser \/ ReinstateUser \/ LogOutEverywhere PROVE Shrinks
  BY <1>1, <1>10 DEF SuspendUser, ReinstateUser, LogOutEverywhere
<1> QED BY <1>5, <1>6, <1>7, <1>8, <1>9, <1>10 DEF McpNext

\* A grant only shrinks: once revoked it stays revoked and issues nothing, and a
\* refresh never widens its scope.
THEOREM GrantOnlyShrinks == McpSpec => GrantShrinks
  BY GrantInvariant, ShrinkStep, PTL DEF McpSpec, Shrinks, GrantShrinks

-----------------------------------------------------------------------------
\* A step of ReuseRevokes.
ReuseEnds(p) ==
  LET h == handler[p]
      refreshing == h.pc \in {"grant", "reused", "check", "caught", "issue", "recheck",
                              "revoke", "commit"}
      unowned == h.pc \in {"check", "caught"} /\ ~OwnerActive(h.grant)
  IN refreshing =>
       /\ handler'[p].said = "ended" => grant'[h.grant].state = "revoked"
       /\ handler'[p].said = "invalid" /\ credential[h.of].state = "spent"
          => grant'[h.grant].state = "revoked" \/ unowned

LEMMA EndStep ==
  ASSUME GrantIInv, [McpNext]_mcpVars, NEW p \in Invocations
  PROVE  ReuseEnds(p)
<1> DEFINE h == handler[p]
<1> DEFINE unowned == h.pc \in {"check", "caught"} /\ ~OwnerActive(h.grant)
<1> SUFFICES ASSUME h.pc \in Refreshing \cup {"revoke", "commit"},
                    handler'[p].said \in {"ended", "invalid"},
                    handler'[p].said = "invalid" => credential[h.of].state = "spent" /\ ~unowned
             PROVE  grant'[h.grant].state = "revoked"
  BY DEF ReuseEnds
<1>1. h.said = "none" /\ h.grant \in Grants BY AtWork
<1>2. handler'[p] # h BY <1>1
<1>3. ASSUME NEW q \in Invocations, NEW w, handler' = [handler EXCEPT ![q] = w]
      PROVE  q = p /\ handler'[p] = w
  BY <1>2, <1>3 DEF GrantIInv, GrantTypeOK
<1>4. ASSUME NEW q \in Invocations, NEW answer, Say(q, answer) PROVE q = p /\ handler'[p].said = answer
  <2>1. handler' = [handler EXCEPT ![q] = Answered(handler[q].of, answer)] BY <1>4 DEF Say
  <2>2. q = p /\ handler'[p] = Answered(handler[q].of, answer) BY <1>3, <2>1
  <2> QED BY <2>2 DEF Answered
<1>5. ASSUME NEW q \in Invocations, NEW pc, NEW of, NEW g, NEW ver, NEW scope, NEW tries,
             Work(q, Working(pc, of, g, ver, scope, tries))
      PROVE  FALSE
  <2>1. handler'[p] = Working(pc, of, g, ver, scope, tries) BY <1>3, <1>5 DEF Work
  <2>2. handler'[p].said = "none" BY <2>1 DEF Working
  <2> QED BY <2>2
<1>6. ASSUME NEW q \in Invocations, ConsentStep(q) PROVE grant'[h.grant].state = "revoked"
  BY <1>4, <1>5, <1>6 DEF ConsentStep, ConsentRead, Consent, ConsentConflict, ExchangeRead,
                          ExchangeCode, ExchangeConflict, Is
<1>7. ASSUME NEW q \in Invocations, RefreshStep(q) PROVE grant'[h.grant].state = "revoked"
  <2>1. ASSUME RefreshRefused(q) PROVE grant'[h.grant].state = "revoked"
    BY <1>4, <2>1 DEF RefreshRefused, GrantRead
  <2>2. ASSUME Recheck(q) PROVE FALSE
    BY <1>4, <1>5, <2>2 DEF Recheck
  <2>3. ASSUME RefreshBlind(q) \/ Issue(q) PROVE FALSE
    BY <1>4, <2>3 DEF RefreshBlind, Issue
  <2>4. ASSUME \/ \E t \in Credentials : RefreshRead(q, t)
               \/ RefreshReused(q) \/ OwnerChecked(q) \/ IssueFails(q)
               \/ \E scope \in Asked : RefreshAsks(q, scope)
        PROVE  FALSE
    BY <1>5, <2>4 DEF RefreshRead, RefreshReused, OwnerChecked, IssueFails, RefreshAsks
  <2>5. ASSUME OwnerRefused(q) PROVE FALSE
    <3>1. q = p /\ handler'[p].said = "invalid" BY <1>4, <2>5 DEF OwnerRefused
    <3> QED BY <2>5, <3>1 DEF OwnerRefused
  <2>6. ASSUME NEW t \in Credentials, RefreshByStranger(q, t) PROVE FALSE
    <3>1. q = p BY <1>3, <2>6 DEF RefreshByStranger
    <3>2. h.pc # "idle" OBVIOUS
    <3> QED BY <2>6, <3>1, <3>2 DEF RefreshByStranger, Is
  <2> QED BY <1>7, <2>1, <2>2, <2>3, <2>4, <2>5, <2>6 DEF RefreshStep
<1>8. ASSUME NEW q \in Invocations, RevokeStep(q) PROVE grant'[h.grant].state = "revoked"
  <2>1. ASSUME RevokeRead(q) PROVE grant'[h.grant].state = "revoked"
    BY <1>4, <1>5, <2>1 DEF RevokeRead, GrantRead
  <2>2. ASSUME RevokeGrant(q) PROVE grant'[h.grant].state = "revoked"
    BY <1>1, <1>4, <2>2 DEF RevokeGrant, GrantIInv, GrantTypeOK
  <2>3. ASSUME RevokeReadFails(q) \/ McpDie(q) PROVE FALSE
    BY <1>4, <2>3 DEF RevokeReadFails, McpDie
  <2>4. ASSUME RevokeConflict(q) PROVE FALSE
    BY <1>4, <1>5, <2>4 DEF RevokeConflict
  <2>5. ASSUME NEW t \in Credentials, Disconnect(q, t) PROVE FALSE
    BY <1>5, <2>5 DEF Disconnect
  <2> QED BY <1>8, <2>1, <2>2, <2>3, <2>4, <2>5 DEF RevokeStep
<1> QED BY <1>2, <1>6, <1>7, <1>8
      DEF McpNext, BindConsent, SuspendUser, ReinstateUser, LogOutEverywhere, mcpVars

\* A client that presents a spent credential of its own and is refused, by a handler
\* whose reads did not fail, leaves the grant revoked, unless the handler found that the
\* owner is not active; so does a disconnect that is said to be done.
THEOREM ReuseEndsGrant == McpSpec => ReuseRevokes
<1>1. GrantIInv /\ [McpNext]_mcpVars => \A p \in Invocations : ReuseEnds(p)
  BY EndStep
<1> QED BY <1>1, GrantInvariant, PTL DEF McpSpec, ReuseEnds, ReuseRevokes

-----------------------------------------------------------------------------
USE ToolCallsAssumption

-----------------------------------------------------------------------------
(***************************************************************************)
(* The invariant of the router.                                            *)
(***************************************************************************)
Busy(r) == router[r].pc # "idle"

\* A call without effects so far.
Untouched(c) == commanded[c] = 0 /\ \A m \in Mails : mail[m].call # c

\* An invocation has its call to itself, and the effect is still to come.
Exclusive(r) ==
  Busy(r) =>
    /\ router[r].call \in claimed /\ Untouched(router[r].call)
    /\ \A s \in Routers \ {r} : Busy(s) => router[s].call # router[r].call

\* A call has one kind of effect, once.
OneEffect(c) ==
  /\ commanded[c] <= 1
  /\ commanded[c] = 1 => \A m \in Mails : mail[m].call # c
  /\ \A m, n \in Mails : mail[m].call = c /\ mail[n].call = c => m = n

\* A call that has used its proposal: to send the command, or to be about to.
Holds(c) == commanded[c] > 0 \/ \E r \in Routers : In(r, "command") /\ router[r].call = c

Redeemed(c) ==
  Holds(c) =>
    /\ asked[c] \in Confirming
    /\ proposal[asked[c].proposal].state = "gone"
    /\ proposal[asked[c].proposal].args = asked[c].args
    /\ \A b \in ToolUses \ {c} : Holds(b) => asked[b].proposal # asked[c].proposal

RouterInv ==
  /\ \A c \in claimed : posts[c] > 0 /\ asked[c] \in Asks
  /\ \A c \in ToolUses \ claimed : Untouched(c)
  /\ \A r \in Routers : Exclusive(r)
  /\ \A r \in Routers : router[r].pc \in {"consume", "command"} => Wanted(r) \in Confirming
  /\ \A c \in ToolUses : OneEffect(c)
  /\ \A c \in ToolUses : Redeemed(c)

-----------------------------------------------------------------------------
(***************************************************************************)
(* The invariant of the dispatchers.                                       *)
(***************************************************************************)
\* A message that is being mailed is claimed, and is with nobody else.
Mailed(d) ==
  dispatcher[d].pc \in Mails =>
    /\ dispatcher[d].pc \in dispatched /\ sent[dispatcher[d].pc] = 0
    /\ \A e \in Dispatchers \ {d} : dispatcher[e].pc # dispatcher[d].pc

DispatchInv ==
  /\ \A m \in Mails : sent[m] <= 1 /\ (sent[m] = 1 => m \in dispatched)
  /\ \A d \in Dispatchers : Mailed(d)

ToolsIInv == ToolsTypeOK /\ RouterInv /\ DispatchInv

-----------------------------------------------------------------------------
(***************************************************************************)
(* How an invocation moves on.                                             *)
(***************************************************************************)
\* Nothing else moves, and r stays with its call or ends.
Moves(r) ==
  /\ Busy(r)
  /\ router'[r] = NoInvocation \/ router'[r].call = router[r].call
  /\ \A s \in Routers \ {r} : router'[s] = router[s]

LEMMA RouteMoves ==
  ASSUME ToolsTypeOK, NEW r \in Routers, Busy(r), NEW pc, Route(r, pc)
  PROVE  Moves(r) /\ router'[r] = [pc |-> pc, call |-> router[r].call]
  BY DEF ToolsTypeOK, Route, Moves

LEMMA RepliesMoves ==
  ASSUME ToolsTypeOK, NEW r \in Routers, Busy(r), Replies(r)
  PROVE  Moves(r) /\ router'[r] = NoInvocation
  BY DEF ToolsTypeOK, Replies, Moves

LEMMA EndsMoves ==
  ASSUME ToolsTypeOK, NEW r \in Routers, Busy(r), NEW answer, Ends(r, answer)
  PROVE  /\ Moves(r)
         /\ \/ router'[r] = NoInvocation
            \/ Releasable(answer) /\ router'[r] = [pc |-> "release", call |-> router[r].call]
  BY RouteMoves, RepliesMoves DEF Ends

LEMMA EndsQuietly ==
  ASSUME ToolsTypeOK, NEW r \in Routers, Busy(r), \E answer : Ends(r, answer)
  PROVE  Moves(r) /\ router'[r].pc \notin {"consume", "command"}
  <1>1. PICK answer : Ends(r, answer)
    OBVIOUS
  <1>2. /\ Moves(r)
        /\ \/ router'[r] = NoInvocation
           \/ router'[r] = [pc |-> "release", call |-> router[r].call]
    BY <1>1, EndsMoves
  <1> QED
    BY <1>2 DEF NoInvocation

LEMMA EndsRelease ==
  ASSUME NEW answer \in {"ok", "upstream_error"}
  PROVE  ~Releasable(answer)
  BY DEF Releasable

-----------------------------------------------------------------------------
(***************************************************************************)
(* Types.                                                                  *)
(***************************************************************************)
LEMMA StateSet ==
  ASSUME NEW S, NEW A, NEW B, NEW f \in [S -> [state : A, args : B]], NEW p, NEW v \in A
  PROVE  [f EXCEPT ![p].state = v] \in [S -> [state : A, args : B]]
  OBVIOUS

\* What a proposal goes through.
ProposalType ==
  proposal \in [Proposals -> [state : {"unborn", "open", "expired", "gone"},
                              args : Arguments \cup {NoAsk}]]

LEMMA RouterTypes ==
  ASSUME ToolsTypeOK, RouterInv, NEW r \in Routers, RouterStep(r)
  PROVE  ToolsTypeOK'
  <1> DEFINE RouterType == router \in [Routers -> [pc : {"idle", "handle", "consume", "command", "release"},
                                                   call : ToolUses \cup {NoCall}]]
  <1>1. ASSUME NEW pc \in {"idle", "handle", "consume", "command", "release"}, Route(r, pc)
        PROVE  RouterType'
    BY <1>1 DEF ToolsTypeOK, Route
  <1>2. ASSUME Replies(r) PROVE RouterType'
    BY <1>2 DEF ToolsTypeOK, Replies, NoInvocation
  <1>3. ASSUME NEW answer, Ends(r, answer) PROVE RouterType'
    BY <1>1, <1>2, <1>3 DEF Ends
  <1> HIDE DEF RouterType
  <1>4. ASSUME NEW c \in ToolUses, Invoke(r, c) PROVE ToolsTypeOK'
    <2>1. RouterType'
      BY <1>4 DEF ToolsTypeOK, Invoke, RouterType
    <2> QED
      BY <1>4, <2>1 DEF ToolsTypeOK, Invoke, RouterType, queueVars
  <1>5. CASE Refuse(r)
    BY <1>3, <1>5 DEF ToolsTypeOK, Refuse, RouterType, queueVars
  <1>6. CASE SendEmail(r)
    <2>1. RouterType'
      BY <1>3, <1>6 DEF SendEmail
    <2>2. UNCHANGED mail \/ \E m \in Mails : mail' = [mail EXCEPT ![m] =
                 [NoMail EXCEPT !.state = "queued", !.call = router[r].call]]
      BY <1>6 DEF SendEmail
    <2>3. router[r].call \in ToolUses \cup {NoCall}
      BY DEF ToolsTypeOK
    <2> DEFINE k == [state |-> "queued", call |-> router[r].call, receives |-> 0]
    <2>4. UNCHANGED mail \/ \E m \in Mails : mail' = [mail EXCEPT ![m] = k]
      BY <2>2 DEF NoMail
    <2>5. k \in [state : {"unborn", "queued", "done"}, call : ToolUses \cup {NoCall},
                 receives : 0 .. MaxReceives]
      BY <2>3
    <2> HIDE DEF k
    <2>6. mail' \in [Mails -> [state : {"unborn", "queued", "done"}, call : ToolUses \cup {NoCall},
                               receives : 0 .. MaxReceives]]
      BY <2>4, <2>5 DEF ToolsTypeOK
    <2> QED
      BY <1>6, <2>1, <2>6 DEF ToolsTypeOK, SendEmail, RouterType
  <1>7. CASE IssueProposal(r)
    <2>1. RouterType'
      BY <1>3, <1>7 DEF IssueProposal
    <2>2. Wanted(r).args \in Arguments
      <3>1. Wanted(r) \in Asks /\ Wanted(r).tool = "propose"
        BY <1>7 DEF RouterInv, Exclusive, Busy, IssueProposal, In, Wanted
      <3> QED
        BY <3>1 DEF Asks, Mailing, Proposing, Confirming
    <2> QED
      BY <1>7, <2>1, <2>2 DEF ToolsTypeOK, IssueProposal, RouterType, queueVars
  <1>8. CASE ReadProposal(r)
    BY <1>1, <1>3, <1>8 DEF ToolsTypeOK, ReadProposal, RouterType, queueVars
  <1>9. CASE ConsumeProposal(r)
    <2>1. RouterType'
      BY <1>1, <1>3, <1>9 DEF ConsumeProposal
    <2>2. ProposalType'
      <3>1. UNCHANGED proposal
            \/ proposal' = [proposal EXCEPT ![Wanted(r).proposal].state = "gone"]
        BY <1>9 DEF ConsumeProposal
      <3>2. ProposalType
        BY DEF ToolsTypeOK, ProposalType
      <3> QED
        <4>1. CASE UNCHANGED proposal
          BY <3>2, <4>1 DEF ProposalType
        <4>2. ASSUME NEW q, proposal' = [proposal EXCEPT ![q].state = "gone"] PROVE ProposalType'
          BY <3>2, <4>2, StateSet DEF ProposalType
        <4> QED
          BY <3>1, <4>1, <4>2
    <2> QED
      BY <1>9, <2>1, <2>2 DEF ToolsTypeOK, ConsumeProposal, RouterType, ProposalType, queueVars
  <1>10. CASE Command(r)
    BY <1>3, <1>10 DEF ToolsTypeOK, Command, RouterType, queueVars
  <1>11. CASE ReleaseIdempotency(r)
    BY <1>2, <1>11 DEF ToolsTypeOK, ReleaseIdempotency, RouterType, queueVars
  <1>12. CASE RouterDies(r)
    BY <1>2, <1>12 DEF ToolsTypeOK, RouterDies, RouterType, queueVars
  <1> QED
    BY <1>4, <1>5, <1>6, <1>7, <1>8, <1>9, <1>10, <1>11, <1>12 DEF RouterStep

LEMMA ExpireTypes ==
  ASSUME ToolsTypeOK, NEW p \in Proposals, ExpireProposal(p)
  PROVE  ToolsTypeOK'
  <1>1. \E v \in {"expired", "gone"} : proposal' = [proposal EXCEPT ![p].state = v]
    BY DEF ExpireProposal
  <1>2. ProposalType
    BY DEF ToolsTypeOK, ProposalType
  <1>3. ProposalType'
    BY <1>1, <1>2, StateSet DEF ProposalType
  <1> QED
    BY <1>3 DEF ToolsTypeOK, ExpireProposal, ProposalType, queueVars

Batch == [pc : {"idle", "claim"} \cup Mails, batch : SUBSET Mails, left : SUBSET Mails,
          failed : BOOLEAN]

\* A dispatcher goes on.
LEMMA DispatchingAlone ==
  ASSUME ToolsTypeOK, NEW d \in Dispatchers, NEW pc, NEW left, NEW failed,
         Dispatching(d, pc, left, failed)
  PROVE  dispatcher'[d].pc = pc /\ \A e \in Dispatchers \ {d} : dispatcher'[e] = dispatcher[e]
  BY DEF ToolsTypeOK, Dispatching

LEMMA DispatchingTypes ==
  ASSUME dispatcher \in [Dispatchers -> Batch], NEW d \in Dispatchers,
         NEW pc \in {"idle", "claim"} \cup Mails, NEW left \in SUBSET Mails, NEW failed \in BOOLEAN,
         Dispatching(d, pc, left, failed)
  PROVE  dispatcher' \in [Dispatchers -> Batch]
  <1> DEFINE k == [[[dispatcher[d] EXCEPT !.pc = pc] EXCEPT !.left = left]
                     EXCEPT !.failed = @ \/ failed]
  <1>1. dispatcher' = [dispatcher EXCEPT ![d] = k]
    BY DEF Dispatching, Batch
  <1>2. k \in Batch
    BY DEF Batch
  <1> QED
    BY <1>1, <1>2

\* A dispatcher ends.
LEMMA DispatcherEnds ==
  ASSUME dispatcher \in [Dispatchers -> Batch], NEW d \in Dispatchers,
         dispatcher' = [dispatcher EXCEPT ![d] = NoBatch]
  PROVE  /\ dispatcher'[d].pc = "idle"
         /\ \A e \in Dispatchers \ {d} : dispatcher'[e] = dispatcher[e]
         /\ dispatcher' \in [Dispatchers -> Batch]
  <1>1. NoBatch \in Batch /\ NoBatch.pc = "idle"
    BY DEF NoBatch, Batch
  <1> QED
    BY <1>1

LEMMA DispatcherTypes ==
  ASSUME ToolsTypeOK, NEW d \in Dispatchers, DispatcherStep(d)
  PROVE  ToolsTypeOK'
  <1>0. dispatcher \in [Dispatchers -> Batch]
    BY DEF ToolsTypeOK, Batch
  <1>1. ASSUME NEW batch \in SUBSET Mails, Receive(d, batch) PROVE ToolsTypeOK'
    <2>1. mail' \in [Mails -> [state : {"unborn", "queued", "done"},
                              call : ToolUses \cup {NoCall}, receives : 0..MaxReceives]]
      <3> DEFINE Row == [state : {"unborn", "queued", "done"},
                         call : ToolUses \cup {NoCall}, receives : 0..MaxReceives]
                 after(m) == [mail[m] EXCEPT !.receives = mail[m].receives + 1]
      <3>1. ASSUME NEW m \in batch PROVE mail[m].receives + 1 \in 0..MaxReceives
        BY <1>1, <3>1 DEF ToolsTypeOK, Receive
      <3>2. ASSUME NEW m \in Mails PROVE mail[m] \in Row
        BY <3>2 DEF ToolsTypeOK
      <3>3. ASSUME NEW m \in batch PROVE after(m) \in Row
        BY <3>1, <3>2
      <3>4. mail' = [m \in Mails |-> IF m \in batch THEN after(m) ELSE mail[m]]
        BY <1>1 DEF Receive
      <3> HIDE DEF Row, after
      <3>5. mail' \in [Mails -> Row]
        BY <3>2, <3>3, <3>4
      <3> QED
        BY <3>5 DEF Row
    <2>2. dispatcher' \in [Dispatchers -> Batch]
      <3>1. [pc |-> "claim", batch |-> batch, left |-> batch, failed |-> FALSE] \in Batch
        BY DEF Batch
      <3> QED
        BY <1>0, <1>1, <3>1 DEF Receive
    <2> QED
      BY <1>1, <2>1, <2>2 DEF ToolsTypeOK, Receive, requestVars, Batch
  <1>2. ASSUME NEW m \in Mails, ProcessRecord(d, m) PROVE ToolsTypeOK'
    <2>1. dispatcher' \in [Dispatchers -> Batch]
      BY <1>0, <1>2, DispatchingTypes DEF ProcessRecord, Batch
    <2> QED
      BY <1>2, <2>1 DEF ToolsTypeOK, ProcessRecord, Batch, requestVars
  <1>3. CASE SendMail(d)
    <2>1. dispatcher' \in [Dispatchers -> Batch]
      <3>1. PICK failed \in BOOLEAN : Dispatching(d, "claim", dispatcher[d].left, failed)
        BY <1>3 DEF SendMail
      <3>2. dispatcher[d].left \in SUBSET Mails
        BY <1>0 DEF Batch
      <3> QED
        BY <1>0, <3>1, <3>2, DispatchingTypes
    <2>2. sent' \in [Mails -> Nat]
      BY <1>3 DEF ToolsTypeOK, SendMail
    <2> QED
      BY <1>3, <2>1, <2>2 DEF ToolsTypeOK, SendMail, Batch, requestVars
  <1>4. CASE EndBatch(d)
    <2>1. dispatcher' \in [Dispatchers -> Batch]
      BY <1>0, <1>4, DispatcherEnds DEF EndBatch
    <2> DEFINE T == [state : {"unborn", "queued", "done"}, call : ToolUses \cup {NoCall},
                     receives : 0 .. MaxReceives]
               F(m) == IF m \in dispatcher[d].batch /\ ~dispatcher[d].failed
                       THEN [mail[m] EXCEPT !.state = "done"] ELSE mail[m]
    <2>2. ASSUME NEW m \in Mails PROVE F(m) \in T
      <3>1. mail[m] \in T
        BY DEF ToolsTypeOK
      <3>2. [mail[m] EXCEPT !.state = "done"] \in T
        BY <3>1
      <3> QED
        BY <3>1, <3>2
    <2>3. mail' \in [Mails -> T]
      <3>1. mail' = [m \in Mails |-> F(m)]
        BY <1>4 DEF EndBatch
      <3> HIDE DEF F, T
      <3> QED
        BY <2>2, <3>1
    <2> QED
      BY <1>4, <2>1, <2>3 DEF ToolsTypeOK, EndBatch, Batch, requestVars
  <1>5. CASE DispatcherDies(d)
    BY <1>0, <1>5, DispatcherEnds DEF ToolsTypeOK, DispatcherDies, Batch, requestVars
  <1> QED
    BY <1>1, <1>2, <1>3, <1>4, <1>5 DEF DispatcherStep

LEMMA ToolsTypesHold == ToolsTypeOK /\ RouterInv /\ [ToolsNext]_toolVars => ToolsTypeOK'
  <1> SUFFICES ASSUME ToolsTypeOK, RouterInv, [ToolsNext]_toolVars PROVE ToolsTypeOK'
    OBVIOUS
  <1>1. CASE UNCHANGED toolVars
    BY <1>1 DEF ToolsTypeOK, toolVars, requestVars, queueVars
  <1> QED
    BY <1>1, RouterTypes, DispatcherTypes, ExpireTypes DEF ToolsNext

-----------------------------------------------------------------------------
(***************************************************************************)
(* The router.                                                             *)
(***************************************************************************)
\* What the invariant needs of a step that has no effect: nobody takes a call
\* that it did not have, or comes to hold a proposal.
LEMMA NoEffect ==
  ASSUME RouterInv, NEW r \in Routers, Moves(r), router'[r].pc \notin {"consume", "command"},
         UNCHANGED <<asked, posts, claimed, commanded>>,
         \A m \in Mails : mail'[m].call = mail[m].call,
         \A p \in Proposals : proposal[p].state = "gone" =>
           proposal'[p].state = "gone" /\ proposal'[p].args = proposal[p].args
  PROVE  RouterInv'
  <1>1. \A s \in Routers : Busy(s)' => Busy(s) /\ router'[s].call = router[s].call
    BY DEF Moves, Busy, NoInvocation
  <1>2. \A c : Untouched(c)' <=> Untouched(c)
    BY DEF Untouched
  <1>3. ASSUME NEW s \in Routers PROVE Exclusive(s)'
    BY <1>1, <1>2 DEF RouterInv, Exclusive, Busy
  <1>4. ASSUME NEW s \in Routers, router'[s].pc \in {"consume", "command"}
        PROVE  Wanted(s)' \in Confirming /\ router'[s] = router[s]
    BY <1>4 DEF RouterInv, Moves, Wanted
  <1>5. \A c \in ToolUses : Holds(c)' => Holds(c)
    BY <1>4 DEF Holds, In
  <1>6. ASSUME NEW c \in ToolUses PROVE Redeemed(c)'
    <2> SUFFICES ASSUME Holds(c)' PROVE Redeemed(c)'
      BY DEF Redeemed
    <2>1. Holds(c) /\ Redeemed(c)
      BY <1>5 DEF RouterInv
    <2>2. asked[c] \in Confirming /\ asked[c].proposal \in Proposals
      BY <2>1 DEF Redeemed, Confirming
    <2> QED
      BY <1>5, <2>1, <2>2 DEF Redeemed
  <1>7. \A c \in ToolUses : OneEffect(c)'
    BY DEF RouterInv, OneEffect
  <1> QED
    BY <1>2, <1>3, <1>4, <1>6, <1>7 DEF RouterInv

\* The dispatchers and the expiry of proposals leave the router alone.
LEMMA RouterRests ==
  ASSUME RouterInv, UNCHANGED <<asked, posts, router, claimed, commanded>>,
         \A m \in Mails : mail'[m].call = mail[m].call,
         \A p \in Proposals : proposal[p].state = "gone" =>
           proposal'[p].state = "gone" /\ proposal'[p].args = proposal[p].args
  PROVE  RouterInv'
  <1>1. \A c : Untouched(c)' <=> Untouched(c)
    BY DEF Untouched
  <1>2. \A c : Holds(c)' <=> Holds(c)
    BY DEF Holds, In
  <1>3. ASSUME NEW c \in ToolUses PROVE Redeemed(c)'
    <2> SUFFICES ASSUME Holds(c)' PROVE Redeemed(c)'
      BY DEF Redeemed
    <2>1. Holds(c) /\ Redeemed(c)
      BY <1>2 DEF RouterInv
    <2>2. asked[c] \in Confirming /\ asked[c].proposal \in Proposals
      BY <2>1 DEF Redeemed, Confirming
    <2> QED
      BY <1>2, <2>1, <2>2 DEF Redeemed
  <1>4. \A s \in Routers : Exclusive(s)'
    BY <1>1 DEF RouterInv, Exclusive, Busy
  <1>5. \A c \in ToolUses : OneEffect(c)'
    BY DEF RouterInv, OneEffect
  <1> QED
    BY <1>1, <1>3, <1>4, <1>5 DEF RouterInv, Wanted

LEMMA InvokeHolds ==
  ASSUME ToolsTypeOK, RouterInv, NEW r \in Routers, NEW c \in ToolUses, Invoke(r, c)
  PROVE  RouterInv'
  <1>1. posts' = [posts EXCEPT ![c] = @ + 1] /\ posts[c] \in Nat
        /\ UNCHANGED <<proposal, commanded, mail>> /\ router[r].pc = "idle"
    BY DEF Invoke, ToolsTypeOK, queueVars, In
  <1>2. PICK a \in Asks : /\ asked' = [asked EXCEPT ![c] = a]
                          /\ posts[c] = 0 \/ asked[c] = a
    BY DEF Invoke
  <1>3. asked'[c] \in Asks /\ \A b \in ToolUses : b # c => asked'[b] = asked[b]
    BY <1>2 DEF ToolsTypeOK
  <1>4. claimed' \subseteq claimed \cup {c} /\ claimed \subseteq claimed' /\ c \in claimed'
    BY DEF Invoke
  <1>5. \/ UNCHANGED router
        \/ /\ c \notin claimed /\ router'[r] = [pc |-> "handle", call |-> c]
           /\ \A s \in Routers \ {r} : router'[s] = router[s]
    BY DEF Invoke, ToolsTypeOK
  <1>6. asked'[c] = asked[c] \/ (c \notin claimed /\ ~Holds(c))
    <2>1. CASE posts[c] = 0
      <3>1. c \notin claimed /\ Untouched(c)
        BY <2>1 DEF RouterInv
      <3>2. \A s \in Routers : Busy(s) => router[s].call # c
        BY <3>1 DEF RouterInv, Exclusive
      <3> QED
        BY <3>1, <3>2 DEF Holds, Untouched, In, Busy
    <2>2. CASE posts[c] # 0
      BY <1>2, <2>2 DEF ToolsTypeOK
    <2> QED
      BY <2>1, <2>2
  <1>7. \A b \in ToolUses : Holds(b)' => Holds(b) /\ asked'[b] = asked[b]
    <2>1. \A b \in ToolUses : Holds(b)' => Holds(b)
      BY <1>1, <1>5 DEF Holds, In
    <2> QED
      BY <1>3, <1>6, <2>1
  <1>8. \A b : Untouched(b)' <=> Untouched(b)
    BY <1>1 DEF Untouched
  <1>9. \A b \in claimed' : posts'[b] > 0 /\ asked'[b] \in Asks
    BY <1>1, <1>3, <1>4 DEF RouterInv, ToolsTypeOK
  <1>10. ASSUME NEW s \in Routers PROVE Exclusive(s)'
    <2>1. CASE UNCHANGED router
      BY <1>4, <1>8, <2>1 DEF RouterInv, Exclusive, Busy
    <2>2. CASE /\ c \notin claimed /\ router'[r] = [pc |-> "handle", call |-> c]
               /\ \A t \in Routers \ {r} : router'[t] = router[t]
      <3>1. \A t \in Routers : Busy(t) => router[t].call # c
        BY <2>2 DEF RouterInv, Exclusive
      <3>2. Untouched(c)
        BY <2>2 DEF RouterInv
      <3>3. CASE s = r
        BY <1>4, <1>8, <2>2, <3>1, <3>2, <3>3 DEF Exclusive, Busy
      <3>4. CASE s # r
        BY <1>4, <1>8, <2>2, <3>1, <3>4 DEF RouterInv, Exclusive, Busy
      <3> QED
        BY <3>3, <3>4
    <2> QED
      BY <1>5, <2>1, <2>2
  <1>11. ASSUME NEW s \in Routers, router'[s].pc \in {"consume", "command"}
         PROVE  Wanted(s)' \in Confirming
    <2>1. router'[s] = router[s]
      BY <1>5, <1>11
    <2>2. router[s].call \in claimed /\ Wanted(s) \in Confirming
      BY <1>11, <2>1 DEF RouterInv, Exclusive, Busy
    <2>3. asked'[router[s].call] = asked[router[s].call]
      BY <1>3, <1>6, <2>2 DEF ToolsTypeOK
    <2> QED
      BY <2>1, <2>2, <2>3 DEF Wanted
  <1>12. ASSUME NEW b \in ToolUses PROVE Redeemed(b)'
    <2> SUFFICES ASSUME Holds(b)' PROVE Redeemed(b)'
      BY DEF Redeemed
    <2>1. Redeemed(b) /\ Holds(b)
      BY <1>7 DEF RouterInv
    <2> QED
      BY <1>1, <1>7, <2>1 DEF Redeemed
  <1>13. \A b \in ToolUses : OneEffect(b)'
    BY <1>1 DEF RouterInv, OneEffect
  <1> QED
    BY <1>4, <1>8, <1>9, <1>10, <1>11, <1>12, <1>13 DEF RouterInv

\* The message is the first effect of its call.
LEMMA SendEmailHolds ==
  ASSUME ToolsTypeOK, RouterInv, NEW r \in Routers, SendEmail(r)
  PROVE  RouterInv'
  <1> DEFINE c == router[r].call
  <1>1. Busy(r) /\ c \in claimed /\ c \in ToolUses /\ Untouched(c) /\ Wanted(r) = Mailing
    BY DEF SendEmail, In, Busy, RouterInv, Exclusive, ToolsTypeOK
  <1>2. CASE UNCHANGED mail
    <2>1. \E answer : Ends(r, answer)
      BY DEF SendEmail
    <2>2. Moves(r) /\ router'[r].pc \notin {"consume", "command"}
      BY <1>1, <2>1, EndsQuietly
    <2> QED
      BY <1>2, <2>2, NoEffect DEF SendEmail
  <1>3. CASE \E m \in Mails, answer \in {"ok", "upstream_error"} :
                 /\ mail' = [mail EXCEPT ![m] = [NoMail EXCEPT !.state = "queued", !.call = c]]
                 /\ Ends(r, answer)
    <2>1. PICK m \in Mails, answer \in {"ok", "upstream_error"} :
            /\ mail' = [mail EXCEPT ![m] = [NoMail EXCEPT !.state = "queued", !.call = c]]
            /\ Ends(r, answer)
      BY <1>3
    <2>2. /\ router'[r] = NoInvocation
          /\ \A s \in Routers \ {r} : router'[s] = router[s]
      BY <1>1, <2>1, EndsMoves, EndsRelease DEF Moves
    <2>3. mail'[m].call = c /\ \A n \in Mails \ {m} : mail'[n] = mail[n]
      BY <2>1 DEF ToolsTypeOK, NoMail
    <2>4. \A b \in ToolUses \ {c} : Untouched(b) => Untouched(b)'
      BY <2>3 DEF Untouched, SendEmail
    <2>5. UNCHANGED <<asked, posts, claimed, proposal, commanded>>
      BY DEF SendEmail
    <2>6. ASSUME NEW s \in Routers PROVE Exclusive(s)'
      <3> SUFFICES ASSUME s # r, Busy(s) PROVE Exclusive(s)'
        BY <2>2 DEF Exclusive, Busy, NoInvocation
      <3>1. router[s].call # c /\ router[s].call \in claimed /\ Untouched(router[s].call)
        BY <1>1 DEF RouterInv, Exclusive
      <3>2. Untouched(router[s].call)'
        BY <2>2, <2>4, <3>1 DEF ToolsTypeOK
      <3>3. \A t \in Routers \ {s} : Busy(t)' => router'[t].call # router'[s].call
        BY <2>2 DEF RouterInv, Exclusive, Busy, NoInvocation
      <3> QED
        BY <2>2, <2>5, <3>1, <3>2, <3>3 DEF Exclusive
    <2>7. \A b \in ToolUses \ claimed' : Untouched(b)'
      BY <1>1, <2>4, <2>5 DEF RouterInv
    <2>8. \A s \in Routers : router'[s].pc \in {"consume", "command"} => Wanted(s)' \in Confirming
      BY <2>2, <2>5 DEF RouterInv, Wanted, NoInvocation
    <2>9. \A b \in ToolUses : Holds(b)' => Holds(b)
      BY <2>2, <2>5 DEF Holds, In, NoInvocation
    <2>10. \A b \in ToolUses : Redeemed(b)'
      BY <2>5, <2>9 DEF RouterInv, Redeemed
    <2>11. ASSUME NEW b \in ToolUses PROVE OneEffect(b)'
      <3>1. CASE b = c
        <4>1. commanded'[b] = 0 /\ \A n \in Mails \ {m} : mail'[n].call # b
          BY <1>1, <2>3, <2>5, <3>1 DEF Untouched
        <4> QED
          BY <4>1 DEF OneEffect
      <3>2. CASE b # c
        BY <2>3, <2>5, <3>2 DEF RouterInv, OneEffect
      <3> QED
        BY <3>1, <3>2
    <2> QED
      BY <2>5, <2>6, <2>7, <2>8, <2>10, <2>11 DEF RouterInv
  <1> QED
    BY <1>2, <1>3 DEF SendEmail

LEMMA ProposeHolds ==
  ASSUME ToolsTypeOK, RouterInv, NEW r \in Routers, IssueProposal(r)
  PROVE  RouterInv'
  <1>1. Busy(r)
    BY DEF IssueProposal, In, Busy
  <1>2. PICK p \in Proposals, answer \in {"confirmation_required", "upstream_error"} :
          /\ proposal[p].state = "unborn" /\ Ends(r, answer)
          /\ proposal' = [proposal EXCEPT ![p] = [state |-> "open", args |-> Wanted(r).args]]
    BY DEF IssueProposal
  <1>3. Moves(r) /\ router'[r].pc \notin {"consume", "command"}
    BY <1>1, <1>2, EndsQuietly
  <1>4. \A q \in Proposals : proposal[q].state = "gone" => proposal'[q] = proposal[q]
    BY <1>2 DEF ToolsTypeOK
  <1> QED
    BY <1>3, <1>4, NoEffect DEF IssueProposal, queueVars

\* What was read is what the call confirms.
LEMMA ReadHolds ==
  ASSUME ToolsTypeOK, RouterInv, NEW r \in Routers, ReadProposal(r)
  PROVE  RouterInv'
  <1>1. Busy(r) /\ UNCHANGED <<asked, posts, claimed, proposal, commanded, mail>>
    BY DEF ReadProposal, In, Busy, queueVars
  <1>2. CASE Route(r, "consume")
    <2>1. Wanted(r) \in Confirming
      <3>1. Wanted(r) \in Asks /\ Wanted(r).tool = "confirm"
        BY <1>1 DEF RouterInv, Exclusive, ReadProposal, Wanted
      <3> QED
        BY <3>1 DEF Asks, Mailing, Proposing
    <2>2. /\ router'[r] = [pc |-> "consume", call |-> router[r].call]
          /\ \A s \in Routers \ {r} : router'[s] = router[s]
      BY <1>1, <1>2, RouteMoves DEF Moves
    <2>3. \A c : (Untouched(c)' <=> Untouched(c)) /\ (Holds(c)' => Holds(c))
      BY <1>1, <2>2 DEF Untouched, Holds, In
    <2>4. \A s \in Routers : (Busy(s)' <=> Busy(s)) /\ router'[s].call = router[s].call
      BY <1>1, <2>2 DEF Busy
    <2>5. \A s \in Routers : Exclusive(s)'
      BY <1>1, <2>3, <2>4 DEF RouterInv, Exclusive
    <2>6. \A s \in Routers : router'[s].pc \in {"consume", "command"} => Wanted(s)' \in Confirming
      BY <1>1, <2>1, <2>2 DEF RouterInv, Wanted
    <2>7. \A c \in ToolUses : Redeemed(c)'
      BY <1>1, <2>3 DEF RouterInv, Redeemed
    <2>8. \A c \in ToolUses : OneEffect(c)'
      BY <1>1 DEF RouterInv, OneEffect
    <2> QED
      BY <1>1, <2>3, <2>5, <2>6, <2>7, <2>8 DEF RouterInv
  <1>3. CASE \E answer : Ends(r, answer)
    <2>1. Moves(r) /\ router'[r].pc \notin {"consume", "command"}
      BY <1>1, <1>3, EndsQuietly
    <2> QED
      BY <1>1, <2>1, NoEffect
  <1> QED
    BY <1>2, <1>3 DEF ReadProposal

\* A proposal that is still there has no holder, and gets one.
LEMMA ConsumeHolds ==
  ASSUME ToolsTypeOK, RouterInv, NEW r \in Routers, ConsumeProposal(r)
  PROVE  RouterInv'
  <1> DEFINE p == Wanted(r).proposal
             c == router[r].call
  <1>1. /\ Busy(r) /\ UNCHANGED <<asked, posts, claimed, commanded, mail>>
        /\ Wanted(r) \in Confirming /\ p \in Proposals /\ c \in ToolUses
    <2>1. router[r].pc = "consume"
      BY DEF ConsumeProposal, In
    <2>2. Wanted(r) \in Confirming /\ c \in claimed
      BY <2>1 DEF RouterInv, Exclusive, Busy
    <2> QED
      BY <2>1, <2>2 DEF ConsumeProposal, Busy, queueVars, Confirming, ToolsTypeOK
  <1>2. \/ UNCHANGED proposal
        \/ /\ proposal[p].state # "gone" /\ proposal[p].args = Wanted(r).args
           /\ proposal'[p] = [state |-> "gone", args |-> Wanted(r).args]
           /\ \A q \in Proposals \ {p} : proposal'[q] = proposal[q]
    <2>1. UNCHANGED proposal
          \/ /\ proposal[p].state # "gone" /\ proposal[p].args = Wanted(r).args
             /\ proposal' = [proposal EXCEPT ![p].state = "gone"]
      BY DEF ConsumeProposal
    <2> QED
      BY <1>1, <2>1 DEF ToolsTypeOK
  <1>3. CASE \E answer : Ends(r, answer)
    <2>1. Moves(r) /\ router'[r].pc \notin {"consume", "command"}
      BY <1>1, <1>3, EndsQuietly
    <2>2. \A q \in Proposals : proposal[q].state = "gone" => proposal'[q] = proposal[q]
      BY <1>2
    <2> QED
      BY <1>1, <2>1, <2>2, NoEffect
  <1>4. CASE Route(r, "command") /\ proposal' # proposal
    <2>1. /\ router'[r] = [pc |-> "command", call |-> c]
          /\ \A s \in Routers \ {r} : router'[s] = router[s]
      BY <1>1, <1>4, RouteMoves DEF Moves
    <2>2. \A b : (Untouched(b)' <=> Untouched(b)) /\ (Holds(b)' => Holds(b) \/ b = c)
      BY <1>1, <2>1 DEF Untouched, Holds, In
    <2>3. \A s \in Routers : (Busy(s)' <=> Busy(s)) /\ router'[s].call = router[s].call
      BY <1>1, <2>1 DEF Busy
    <2>4. \A s \in Routers : Exclusive(s)'
      BY <1>1, <2>2, <2>3 DEF RouterInv, Exclusive
    <2>5. \A s \in Routers : router'[s].pc \in {"consume", "command"} => Wanted(s)' \in Confirming
      BY <1>1, <2>1 DEF RouterInv, Wanted
    <2>6. ASSUME NEW b \in ToolUses, Holds(b)
          PROVE  /\ asked[b] \in Confirming /\ asked[b].proposal \in Proposals \ {p}
                 /\ proposal'[asked[b].proposal] = proposal[asked[b].proposal]
      <3>1. asked[b] \in Confirming /\ proposal[asked[b].proposal].state = "gone"
        BY <2>6 DEF RouterInv, Redeemed
      <3> QED
        BY <1>2, <1>4, <3>1 DEF Confirming
    <2>7. ASSUME NEW b \in ToolUses PROVE Redeemed(b)'
      <3> SUFFICES ASSUME Holds(b)' PROVE Redeemed(b)'
        BY DEF Redeemed
      <3>1. CASE b = c
        <4>1. /\ asked'[b] \in Confirming
              /\ proposal'[asked'[b].proposal] = [state |-> "gone", args |-> asked'[b].args]
          BY <1>1, <1>2, <1>4, <3>1 DEF Wanted
        <4>2. ASSUME NEW a \in ToolUses \ {b}, Holds(a)' PROVE asked'[a].proposal # asked'[b].proposal
          BY <1>1, <2>2, <2>6, <3>1, <4>2 DEF Wanted
        <4> QED
          BY <4>1, <4>2 DEF Redeemed
      <3>2. CASE b # c
        <4>1. Holds(b) /\ Redeemed(b)
          BY <2>2, <3>2 DEF RouterInv
        <4>2. ASSUME NEW a \in ToolUses \ {b}, Holds(a)' PROVE asked[a].proposal # asked[b].proposal
          BY <2>2, <2>6, <4>1, <4>2 DEF Redeemed, Wanted
        <4> QED
          BY <1>1, <2>6, <4>1, <4>2 DEF Redeemed
      <3> QED
        BY <3>1, <3>2
    <2>8. \A b \in ToolUses : OneEffect(b)'
      BY <1>1 DEF RouterInv, OneEffect
    <2> QED
      BY <1>1, <2>2, <2>4, <2>5, <2>7, <2>8 DEF RouterInv
  <1>5. (\E answer : Ends(r, answer)) \/ (Route(r, "command") /\ proposal' # proposal)
    <2>1. ASSUME Route(r, "command"), proposal' = [proposal EXCEPT ![p].state = "gone"],
                 proposal[p].state \in {"open", "expired"}
          PROVE  proposal' # proposal
      BY <1>1, <2>1 DEF ToolsTypeOK
    <2> QED
      BY <2>1 DEF ConsumeProposal
  <1> QED
    BY <1>3, <1>4, <1>5

\* The command is the first effect of its call.
LEMMA CommandHolds ==
  ASSUME ToolsTypeOK, RouterInv, NEW r \in Routers, Command(r)
  PROVE  RouterInv'
  <1> DEFINE c == router[r].call
  <1>1. /\ Busy(r) /\ UNCHANGED <<asked, posts, claimed, proposal, mail>>
        /\ c \in claimed /\ c \in ToolUses /\ Untouched(c) /\ Holds(c)
    BY DEF Command, In, Busy, queueVars, RouterInv, Exclusive, ToolsTypeOK, Holds
  <1>2. CASE UNCHANGED commanded
    <2>1. \E answer : Ends(r, answer)
      BY DEF Command
    <2>2. Moves(r) /\ router'[r].pc \notin {"consume", "command"}
      BY <1>1, <2>1, EndsQuietly
    <2> QED
      BY <1>1, <1>2, <2>2, NoEffect
  <1>3. CASE /\ commanded' = [commanded EXCEPT ![c] = @ + 1]
             /\ \E answer \in {"ok", "upstream_error"} : Ends(r, answer)
    <2>1. /\ router'[r] = NoInvocation
          /\ \A s \in Routers \ {r} : router'[s] = router[s]
      BY <1>1, <1>3, EndsMoves, EndsRelease DEF Moves
    <2>2. commanded'[c] = 1 /\ \A b \in ToolUses \ {c} : commanded'[b] = commanded[b]
      BY <1>1, <1>3 DEF ToolsTypeOK, Untouched
    <2>3. \A b \in ToolUses \ {c} : Untouched(b) => Untouched(b)'
      BY <1>1, <2>2 DEF Untouched
    <2>4. ASSUME NEW s \in Routers PROVE Exclusive(s)'
      <3> SUFFICES ASSUME s # r, Busy(s) PROVE Exclusive(s)'
        BY <2>1 DEF Exclusive, Busy, NoInvocation
      <3>1. router[s].call # c /\ router[s].call \in claimed /\ Untouched(router[s].call)
        BY <1>1 DEF RouterInv, Exclusive
      <3>2. Untouched(router[s].call)'
        BY <2>1, <2>3, <3>1 DEF ToolsTypeOK
      <3>3. \A t \in Routers \ {s} : Busy(t)' => router'[t].call # router'[s].call
        BY <2>1 DEF RouterInv, Exclusive, Busy, NoInvocation
      <3> QED
        BY <1>1, <2>1, <3>1, <3>2, <3>3 DEF Exclusive
    <2>5. \A b \in ToolUses \ claimed' : Untouched(b)'
      BY <1>1, <2>3 DEF RouterInv
    <2>6. \A s \in Routers : router'[s].pc \in {"consume", "command"} => Wanted(s)' \in Confirming
      BY <1>1, <2>1 DEF RouterInv, Wanted, NoInvocation
    <2>7. \A b \in ToolUses : Holds(b)' => Holds(b)
      BY <1>1, <2>1, <2>2 DEF Holds, In, NoInvocation
    <2>8. \A b \in ToolUses : Redeemed(b)'
      BY <1>1, <2>7 DEF RouterInv, Redeemed
    <2>9. ASSUME NEW b \in ToolUses PROVE OneEffect(b)'
      <3>1. CASE b = c
        BY <1>1, <2>2, <3>1 DEF OneEffect, Untouched
      <3>2. CASE b # c
        BY <1>1, <2>2, <3>2 DEF RouterInv, OneEffect
      <3> QED
        BY <3>1, <3>2
    <2> QED
      BY <1>1, <2>4, <2>5, <2>6, <2>8, <2>9 DEF RouterInv
  <1> QED
    BY <1>2, <1>3 DEF Command

\* A key is given back for a call without effects.
LEMMA ReleaseHolds ==
  ASSUME ToolsTypeOK, RouterInv, NEW r \in Routers, ReleaseIdempotency(r)
  PROVE  RouterInv'
  <1> DEFINE c == router[r].call
  <1>1. /\ Busy(r) /\ UNCHANGED <<asked, posts, proposal, commanded, mail>>
        /\ claimed' = claimed \ {c} \/ UNCHANGED claimed
        /\ Untouched(c)
    BY DEF ReleaseIdempotency, In, Busy, queueVars, RouterInv, Exclusive
  <1>2. /\ router'[r] = NoInvocation
        /\ \A s \in Routers \ {r} : router'[s] = router[s]
    BY <1>1, RepliesMoves DEF ReleaseIdempotency, Moves
  <1>3. \A b : (Untouched(b)' <=> Untouched(b)) /\ (Holds(b)' => Holds(b))
    BY <1>1, <1>2 DEF Untouched, Holds, In, NoInvocation
  <1>4. ASSUME NEW s \in Routers PROVE Exclusive(s)'
    <2> SUFFICES ASSUME s # r, Busy(s) PROVE Exclusive(s)'
      BY <1>2 DEF Exclusive, Busy, NoInvocation
    <2>1. /\ router[s].call # c /\ router[s].call \in claimed /\ Untouched(router[s].call)
          /\ \A t \in Routers \ {s} : Busy(t) => router[t].call # router[s].call
      BY <1>1 DEF RouterInv, Exclusive
    <2>2. \A t \in Routers \ {s} : Busy(t)' => router'[t].call # router'[s].call
      BY <1>2, <2>1 DEF Busy, NoInvocation
    <2>3. router'[s] = router[s]
      BY <1>2
    <2> QED
      BY <1>1, <1>3, <2>1, <2>2, <2>3 DEF Exclusive
  <1>5. \A b \in ToolUses \ claimed' : Untouched(b)'
    BY <1>1, <1>3 DEF RouterInv
  <1>6. \A s \in Routers : router'[s].pc \in {"consume", "command"} => Wanted(s)' \in Confirming
    BY <1>1, <1>2 DEF RouterInv, Wanted, NoInvocation
  <1>7. \A b \in ToolUses : Redeemed(b)'
    BY <1>1, <1>3 DEF RouterInv, Redeemed
  <1>8. \A b \in ToolUses : OneEffect(b)'
    BY <1>1 DEF RouterInv, OneEffect
  <1>9. \A b \in claimed' : posts'[b] > 0 /\ asked'[b] \in Asks
    BY <1>1 DEF RouterInv
  <1> QED
    BY <1>4, <1>5, <1>6, <1>7, <1>8, <1>9 DEF RouterInv

LEMMA RouterStepHolds ==
  ASSUME ToolsTypeOK, RouterInv, NEW r \in Routers, RouterStep(r)
  PROVE  RouterInv'
  <1>1. ASSUME Refuse(r) PROVE RouterInv'
    <2>1. Busy(r) /\ \E answer : Ends(r, answer)
      BY <1>1 DEF Refuse, In, Busy
    <2>2. Moves(r) /\ router'[r].pc \notin {"consume", "command"}
      BY <2>1, EndsQuietly
    <2> QED
      BY <1>1, <2>2, NoEffect DEF Refuse, queueVars
  <1>2. ASSUME RouterDies(r) PROVE RouterInv'
    <2>1. Moves(r) /\ router'[r] = NoInvocation
      BY <1>2, RepliesMoves DEF RouterDies, In, Busy
    <2> QED
      BY <1>2, <2>1, NoEffect DEF RouterDies, queueVars, NoInvocation
  <1> QED
    BY <1>1, <1>2, InvokeHolds, SendEmailHolds, ProposeHolds, ReadHolds, ConsumeHolds, CommandHolds,
       ReleaseHolds DEF RouterStep

LEMMA QueueKeepsCalls ==
  ASSUME ToolsTypeOK, NEW d \in Dispatchers, DispatcherStep(d)
  PROVE  UNCHANGED requestVars /\ \A m \in Mails : mail'[m].call = mail[m].call
  <1>1. ASSUME NEW batch, Receive(d, batch) PROVE \A m \in Mails : mail'[m].call = mail[m].call
    BY <1>1 DEF Receive, ToolsTypeOK
  <1>2. ASSUME EndBatch(d) PROVE \A m \in Mails : mail'[m].call = mail[m].call
    BY <1>2 DEF EndBatch, ToolsTypeOK
  <1>3. UNCHANGED requestVars
    BY DEF DispatcherStep, Receive, ProcessRecord, SendMail, EndBatch, DispatcherDies
  <1> QED
    BY <1>1, <1>2, <1>3 DEF DispatcherStep, ProcessRecord, SendMail, DispatcherDies

LEMMA RouterInvHolds == ToolsTypeOK /\ RouterInv /\ [ToolsNext]_toolVars => RouterInv'
  <1> SUFFICES ASSUME ToolsTypeOK, RouterInv, [ToolsNext]_toolVars PROVE RouterInv'
    OBVIOUS
  <1>1. CASE UNCHANGED toolVars
    BY <1>1, RouterRests DEF toolVars, requestVars, queueVars
  <1>2. ASSUME NEW d \in Dispatchers, DispatcherStep(d) PROVE RouterInv'
    BY <1>2, QueueKeepsCalls, RouterRests DEF requestVars
  <1>3. ASSUME NEW p \in Proposals, ExpireProposal(p) PROVE RouterInv'
    <2>1. \A q \in Proposals : proposal[q].state = "gone" => proposal'[q] = proposal[q]
      BY <1>3 DEF ExpireProposal, ToolsTypeOK
    <2> QED
      BY <1>3, <2>1, RouterRests DEF ExpireProposal, queueVars
  <1> QED
    BY <1>1, <1>2, <1>3, RouterStepHolds DEF ToolsNext

-----------------------------------------------------------------------------
(***************************************************************************)
(* The dispatchers.                                                        *)
(***************************************************************************)
\* A dispatcher that is not mailing, or goes on with the same message.
LEMMA DispatchRests ==
  ASSUME DispatchInv, UNCHANGED <<sent, dispatched>>,
         \A d \in Dispatchers : dispatcher'[d].pc \in Mails => dispatcher'[d].pc = dispatcher[d].pc
  PROVE  DispatchInv'
  BY DEF DispatchInv, Mailed

LEMMA ProcessHolds ==
  ASSUME ToolsTypeOK, DispatchInv, NEW d \in Dispatchers, NEW m \in Mails, ProcessRecord(d, m)
  PROVE  DispatchInv'
  <1>1. CASE \E failed \in BOOLEAN : Dispatching(d, "claim", dispatcher[d].left \ {m}, failed)
    <2>1. dispatcher'[d].pc = "claim" /\ \A e \in Dispatchers \ {d} : dispatcher'[e] = dispatcher[e]
      BY <1>1, DispatchingAlone
    <2>2. dispatched \subseteq dispatched' /\ UNCHANGED sent
      BY DEF ProcessRecord
    <2> QED
      BY <2>1, <2>2 DEF DispatchInv, Mailed
  <1>2. CASE m \notin dispatched /\ dispatched' = dispatched \cup {m}
             /\ Dispatching(d, m, dispatcher[d].left \ {m}, FALSE)
    <2>1. dispatcher'[d].pc = m /\ \A e \in Dispatchers \ {d} : dispatcher'[e] = dispatcher[e]
      BY <1>2, DispatchingAlone
    <2>2. UNCHANGED sent /\ sent[m] = 0
      <3>1. sent[m] \in Nat
        BY DEF ToolsTypeOK
      <3> QED
        BY <1>2, <3>1 DEF ProcessRecord, DispatchInv
    <2>3. \A e \in Dispatchers : dispatcher[e].pc # m
      BY <1>2 DEF DispatchInv, Mailed
    <2> QED
      BY <1>2, <2>1, <2>2, <2>3 DEF DispatchInv, Mailed
  <1> QED
    BY <1>1, <1>2 DEF ProcessRecord

LEMMA SendMailHolds ==
  ASSUME ToolsTypeOK, DispatchInv, NEW d \in Dispatchers, SendMail(d)
  PROVE  DispatchInv'
  <1> DEFINE m == dispatcher[d].pc
  <1>1. m \in Mails /\ m \in dispatched /\ sent[m] = 0 /\ UNCHANGED dispatched
        /\ \A e \in Dispatchers \ {d} : dispatcher[e].pc # m
    BY DEF SendMail, DispatchInv, Mailed
  <1>2. \A n \in Mails : sent'[n] = sent[n] \/ (n = m /\ sent'[n] = 1)
    <2>1. UNCHANGED sent \/ sent' = [sent EXCEPT ![m] = @ + 1]
      BY DEF SendMail
    <2> QED
      BY <1>1, <2>1 DEF ToolsTypeOK
  <1>3. dispatcher'[d].pc = "claim" /\ \A e \in Dispatchers \ {d} : dispatcher'[e] = dispatcher[e]
    <2>1. PICK failed \in BOOLEAN : Dispatching(d, "claim", dispatcher[d].left, failed)
      BY DEF SendMail
    <2> QED
      BY <2>1, DispatchingAlone
  <1> QED
    BY <1>1, <1>2, <1>3 DEF DispatchInv, Mailed

LEMMA DispatchInvHolds == ToolsTypeOK /\ DispatchInv /\ [ToolsNext]_toolVars => DispatchInv'
  <1> SUFFICES ASSUME ToolsTypeOK, DispatchInv, [ToolsNext]_toolVars PROVE DispatchInv'
    OBVIOUS
  <1>1. CASE UNCHANGED toolVars
    BY <1>1, DispatchRests DEF toolVars, queueVars
  <1>2. ASSUME NEW r \in Routers, RouterStep(r) PROVE DispatchInv'
    <2>1. UNCHANGED <<sent, dispatched, dispatcher>>
      BY <1>2 DEF RouterStep, Invoke, Refuse, SendEmail, IssueProposal, ReadProposal,
                  ConsumeProposal, Command, ReleaseIdempotency, RouterDies, queueVars
    <2> QED
      BY <2>1, DispatchRests
  <1>3. ASSUME NEW p \in Proposals, ExpireProposal(p) PROVE DispatchInv'
    BY <1>3, DispatchRests DEF ExpireProposal, queueVars
  <1>4. ASSUME NEW d \in Dispatchers, DispatcherStep(d) PROVE DispatchInv'
    <2>1. ASSUME NEW batch, Receive(d, batch) PROVE DispatchInv'
      <3>1. \A e \in Dispatchers : dispatcher'[e].pc = "claim" \/ dispatcher'[e] = dispatcher[e]
        BY <2>1 DEF Receive, ToolsTypeOK
      <3> QED
        BY <2>1, <3>1, DispatchRests DEF Receive
    <2>2. ASSUME dispatcher' = [dispatcher EXCEPT ![d] = NoBatch], UNCHANGED <<sent, dispatched>>
          PROVE  DispatchInv'
      <3>1. \A e \in Dispatchers : dispatcher'[e].pc = "idle" \/ dispatcher'[e] = dispatcher[e]
        BY <2>2 DEF ToolsTypeOK, NoBatch
      <3> QED
        BY <2>2, <3>1, DispatchRests
    <2> QED
      BY <1>4, <2>1, <2>2, ProcessHolds, SendMailHolds DEF DispatcherStep, EndBatch, DispatcherDies
  <1> QED
    BY <1>1, <1>2, <1>3, <1>4 DEF ToolsNext

-----------------------------------------------------------------------------
(***************************************************************************)
(* The theorems.                                                           *)
(***************************************************************************)
LEMMA ToolsInitHolds == ToolsInit => ToolsIInv
  <1> SUFFICES ASSUME ToolsInit PROVE ToolsIInv
    OBVIOUS
  <1>1. ToolsTypeOK
    BY DEF ToolsInit, ToolsTypeOK, NoInvocation, Unborn, NoMail, NoBatch
  <1>2. RouterInv
    BY DEF ToolsInit, RouterInv, NoInvocation, NoMail, Untouched, Exclusive, Busy, OneEffect, Redeemed,
           Holds, In
  <1>3. DispatchInv
    BY DEF ToolsInit, DispatchInv, Mailed, NoBatch
  <1> QED
    BY <1>1, <1>2, <1>3 DEF ToolsIInv

LEMMA ToolsInvariant == ToolsSpec => []ToolsIInv
  <1>1. ToolsIInv /\ [ToolsNext]_toolVars => ToolsIInv'
    BY ToolsTypesHold, RouterInvHolds, DispatchInvHolds DEF ToolsIInv
  <1> QED
    BY <1>1, ToolsInitHolds, PTL DEF ToolsSpec

\* Every variable keeps its type.
THEOREM ToolsTypeCorrect == ToolsSpec => []ToolsTypeOK
  <1>1. ToolsIInv => ToolsTypeOK
    BY DEF ToolsIInv
  <1> QED
    BY <1>1, ToolsInvariant, PTL

\* At most one element: the cardinality is at most 1.
LEMMA AtMostOneElement ==
  ASSUME NEW S, \A x, y \in S : x = y
  PROVE  Cardinality(S) \in {0, 1} /\ (S = {} => Cardinality(S) = 0)
  <1>1. CASE S = {}
    BY <1>1, FS_EmptySet
  <1>2. CASE S # {}
    <2>1. PICK x : x \in S
      BY <1>2
    <2>2. S = {x}
      BY <2>1
    <2>3. Cardinality(S) = 1
      BY <2>2, FS_Singleton
    <2> QED
      BY <1>2, <2>3
  <1> QED
    BY <1>1, <1>2

\* However often a call is posted it has one effect; a command is one that was
\* read back, and no other call uses its proposal; a message is mailed once.
THEOREM EffectsHappenOnce == ToolsSpec => []EffectsOnce
  <1>1. ToolsIInv => EffectsOnce
    <2> SUFFICES ASSUME ToolsIInv PROVE EffectsOnce
      OBVIOUS
    <2>1. ASSUME NEW c \in ToolUses PROVE Effects(c) <= 1
      <3> DEFINE S == {m \in Mails : mail[m].call = c}
      <3>1. OneEffect(c) /\ commanded[c] \in Nat
        BY DEF ToolsIInv, RouterInv, ToolsTypeOK
      <3>2. Cardinality(S) \in {0, 1} /\ (S = {} => Cardinality(S) = 0)
        <4>1. \A x, y \in S : x = y
          BY <3>1 DEF OneEffect
        <4> HIDE DEF S
        <4> QED
          BY <4>1, AtMostOneElement
      <3>3. commanded[c] <= 1 /\ (commanded[c] = 1 => S = {})
        BY <3>1 DEF OneEffect
      <3>4. Effects(c) = Cardinality(S) + commanded[c]
        BY DEF Effects
      <3> QED
        BY <3>1, <3>2, <3>3, <3>4
    <2>2. CommandReadBack
      <3>1. \A c \in ToolUses : commanded[c] > 0 => Holds(c)
        BY DEF Holds
      <3> QED
        BY <3>1 DEF CommandReadBack, ToolsIInv, RouterInv, Redeemed
    <2>3. MailedOnce
      BY DEF MailedOnce, ToolsIInv, DispatchInv
    <2> QED
      BY <2>1, <2>2, <2>3 DEF EffectsOnce, CalledOnce
  <1> QED
    BY <1>1, ToolsInvariant, PTL

===============================================================================
