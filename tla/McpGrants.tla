------------------------------ MODULE McpGrants ------------------------------
(***************************************************************************)
(* The authority that lets the owner's assistants act for them: consent, a *)
(* code, a grant with rotating credentials, and its end                    *)
(* (internal/mcpauth).  Every write is a transaction conditioned on the    *)
(* versions that were read; two handlers share nothing else.               *)
(***************************************************************************)
EXTENDS Naturals

CONSTANTS
  Invocations,   \* handlers that run at the same time
  Requests,      \* authorization requests, each with a consent page
  Codes, Grants, Credentials,  \* random names
  Scopes,        \* permissions
  Attempts,      \* tries of a revocation (3)
  MaxRenders,    \* bound on the times a consent page is shown
  McpFaults,     \* "die", "lost" for an answer of the table that does not arrive,
                 \* "store" for a call that fails
  OwnerOps,      \* "suspend", "logoutAll": what else happens to the owner's account
  Nothing

ASSUME GrantAssumption ==
  /\ Attempts \in Nat /\ MaxRenders \in Nat
  /\ Nothing \notin Requests \cup Codes \cup Grants \cup Credentials
  /\ Codes \cap Credentials = {} /\ Codes \cap Grants = {}

VARIABLES
  request,     \* "pending:" rows
  code,        \* "code:" rows
  grant,       \* "grant:" rows
  credential,  \* "refresh:" rows and the "access:" rows issued with them
  standing,    \* the owner's account: whether it is active, and the codes and grants
               \* that are older than the last log-out everywhere
  handler      \* what each invocation has read and is about to do

mcpVars == <<request, code, grant, credential, standing, handler>>

-----------------------------------------------------------------------------
\* What an invocation works on, and what it has read of it.
Working(pc, of, g, ver, scope, tries) ==
  [pc |-> pc, of |-> of, grant |-> g, ver |-> ver, scope |-> scope, tries |-> tries, said |-> "none"]

Answered(of, answer) ==
  [pc |-> "idle", of |-> of, grant |-> Nothing, ver |-> 0, scope |-> {}, tries |-> 0, said |-> answer]

NoCode == [of |-> Nothing, state |-> "none"]
NoGrant == [scope |-> {}, state |-> "none", ver |-> 0]
NoCredential == [grant |-> Nothing, from |-> Nothing, scope |-> {}, state |-> "none"]

\* Of a row: "none", "fresh", "spent" for what is used once; "live", "revoked" for
\* a grant.  A row that is used once has one version while it is fresh.
GrantTypeOK ==
  /\ request \in [Requests -> [state : {"fresh", "spent"}, ver : 1..MaxRenders + 2]]
  /\ code \in [Codes -> [of : Requests \cup {Nothing}, state : {"none", "fresh", "spent"}]]
  /\ grant \in [Grants -> [scope : SUBSET Scopes, state : {"none", "live", "revoked"}, ver : Nat]]
  /\ credential \in [Credentials -> [grant : Grants \cup {Nothing},
                                     from : Codes \cup Credentials \cup {Nothing},
                                     scope : SUBSET Scopes, state : {"none", "fresh", "spent"}]]
  /\ standing \in [active : BOOLEAN, cut : SUBSET (Codes \cup Grants)]
  /\ handler \in [Invocations ->
       [pc : {"idle", "consent", "exchange", "grant", "reused", "check", "caught", "issue",
              "recheck", "revoke", "commit"},
        of : Requests \cup Codes \cup Credentials \cup {Nothing},
        grant : Grants \cup {Nothing}, ver : Nat, scope : SUBSET Scopes,
        tries : 0..Attempts,
        said : {"none", "tokens", "invalid", "blind", "ended", "error", "done"}]]

McpInit ==
  /\ request = [n \in Requests |-> [state |-> "fresh", ver |-> 1]]
  /\ code = [c \in Codes |-> NoCode]
  /\ grant = [g \in Grants |-> NoGrant]
  /\ credential = [t \in Credentials |-> NoCredential]
  /\ standing = [active |-> TRUE, cut |-> {}]
  /\ handler = [p \in Invocations |-> Answered(Nothing, "none")]

\* What is asked for is never empty.
Asked == SUBSET Scopes \ {{}}

\* "invalid" is the answer invalid_grant, "blind" the same answer, or success, given
\* after a read that failed; "ended" says that the grant is revoked, and is invalid_grant
\* to a refresh and success to a client that disconnects.
Say(p, answer) == handler' = [handler EXCEPT ![p] = Answered(handler[p].of, answer)]
Work(p, working) == handler' = [handler EXCEPT ![p] = working]
Is(p, pc) == handler[p].pc = pc

\* The account is active, and has not logged out everywhere since id was issued.
OwnerActive(id) == standing.active /\ id \notin standing.cut

-----------------------------------------------------------------------------
(***************************************************************************)
(* Consent.  The page shown last carries the nonce of the row, so that the *)
(* version of the row stands for the nonce; an older page is refused.      *)
(***************************************************************************)
\* Reading and writing one row on condition of its version is one step.
BindConsent(n) ==
  /\ standing.active /\ request[n].state = "fresh" /\ request[n].ver <= MaxRenders
  /\ request' = [request EXCEPT ![n] = [state |-> "fresh", ver |-> @.ver + 1]]
  /\ UNCHANGED <<code, grant, credential, standing, handler>>

ConsentRead(p, n) ==
  /\ Is(p, "idle")
  /\ standing.active /\ request[n].state = "fresh" /\ request[n].ver > 1
  /\ Work(p, Working("consent", n, Nothing, request[n].ver, {}, 0))
  /\ UNCHANGED <<request, code, grant, credential, standing>>

RequestUnchanged(p) == request[handler[p].of].ver = handler[p].ver

Consent(p, approved) ==
  LET n == handler[p].of IN
  /\ Is(p, "consent") /\ RequestUnchanged(p)
  /\ request' = [request EXCEPT ![n] = [state |-> "spent", ver |-> @.ver + 1]]
  /\ IF approved
     THEN \E c \in Codes : /\ code[c] = NoCode
                           /\ code' = [code EXCEPT ![c] = [of |-> n, state |-> "fresh"]]
     ELSE UNCHANGED code
  /\ Say(p, "done")
  /\ UNCHANGED <<grant, credential, standing>>

ConsentConflict(p) ==
  /\ Is(p, "consent") /\ ~RequestUnchanged(p)
  /\ Say(p, "invalid")
  /\ UNCHANGED <<request, code, grant, credential, standing>>

-----------------------------------------------------------------------------
(***************************************************************************)
(* A code is exchanged for a grant and its first credentials.              *)
(***************************************************************************)
ExchangeRead(p, c) ==
  /\ Is(p, "idle")
  /\ code[c].state = "fresh" /\ OwnerActive(c)
  /\ Work(p, Working("exchange", c, Nothing, 0, {}, 0))
  /\ UNCHANGED <<request, code, grant, credential, standing>>

\* Mutant: the version of the code is not compared.
CodeUnread(p) == TRUE

CodeUnchanged(p) == code[handler[p].of].state = "fresh"

ExchangeCode(p, scope) ==
  LET c == handler[p].of IN
  /\ Is(p, "exchange") /\ CodeUnchanged(p)
  /\ \E g \in Grants, t \in Credentials :
       /\ grant[g] = NoGrant /\ credential[t] = NoCredential
       /\ grant' = [grant EXCEPT ![g] = [scope |-> scope, state |-> "live", ver |-> 1]]
       /\ credential' = [credential EXCEPT ![t] = [grant |-> g, from |-> c, scope |-> scope,
                                                   state |-> "fresh"]]
  /\ code' = [code EXCEPT ![c] = [of |-> @.of, state |-> "spent"]]
  /\ Say(p, "tokens")
  /\ UNCHANGED <<request, standing>>

ExchangeConflict(p) ==
  /\ Is(p, "exchange") /\ ~CodeUnchanged(p)
  /\ Say(p, "invalid")
  /\ UNCHANGED <<request, code, grant, credential, standing>>

-----------------------------------------------------------------------------
(***************************************************************************)
(* A refresh spends its credential and issues the next.  The credential,   *)
(* the grant and the owner's account are read one after the other.  A      *)
(* client that the credential was not issued to, and everybody while the   *)
(* owner is not active, is refused before anybody asks whether it is       *)
(* spent; otherwise a credential that is spent already, or by somebody     *)
(* else meanwhile, ends the grant.                                         *)
(***************************************************************************)
RefreshRead(p, t) ==
  LET c == credential[t] IN
  /\ Is(p, "idle")
  /\ \/ c.state = "fresh" /\ Work(p, Working("grant", t, c.grant, 0, c.scope, 0))
     \/ c.state = "spent" /\ Work(p, Working("reused", t, c.grant, 0, c.scope, 0))
  /\ UNCHANGED <<request, code, grant, credential, standing>>

\* Another client presents the credential.
RefreshByStranger(p, t) ==
  /\ Is(p, "idle") /\ credential[t].state # "none"
  /\ handler' = [handler EXCEPT ![p] = Answered(t, "invalid")]
  /\ UNCHANGED <<request, code, grant, credential, standing>>

GrantRead(p) == grant[handler[p].grant]

RefreshRefused(p) ==
  /\ handler[p].pc \in {"grant", "reused"} /\ GrantRead(p).state = "revoked"
  /\ Say(p, "invalid")
  /\ UNCHANGED <<request, code, grant, credential, standing>>

RefreshReused(p) ==
  /\ Is(p, "reused") /\ GrantRead(p).state = "live"
  /\ Work(p, Working("caught", handler[p].of, handler[p].grant, 0, {}, 0))
  /\ UNCHANGED <<request, code, grant, credential, standing>>

\* The client asks for the scope of the grant, or for less than the credential's.
RefreshAsks(p, scope) ==
  /\ Is(p, "grant") /\ GrantRead(p).state = "live"
  /\ scope = GrantRead(p).scope \/ scope \subseteq handler[p].scope
  /\ Work(p, Working("check", handler[p].of, handler[p].grant, GrantRead(p).ver, scope, 0))
  /\ UNCHANGED <<request, code, grant, credential, standing>>

OwnerRefused(p) ==
  /\ handler[p].pc \in {"check", "caught"} /\ ~OwnerActive(handler[p].grant)
  /\ Say(p, "invalid")
  /\ UNCHANGED <<request, code, grant, credential, standing>>

OwnerChecked(p) ==
  LET h == handler[p] IN
  /\ h.pc \in {"check", "caught"} /\ OwnerActive(h.grant)
  /\ Work(p, Working(IF h.pc = "check" THEN "issue" ELSE "revoke", h.of, h.grant, h.ver, h.scope, 0))
  /\ UNCHANGED <<request, code, grant, credential, standing>>

\* Mutant: the version of the grant is not compared.
GrantUnread(p) == TRUE

\* The transaction spends the credential that was read and rewrites the grant that
\* was read, whose state was "live".
GrantUnchanged(p) == GrantRead(p).ver = handler[p].ver
CredentialUnchanged(p) == credential[handler[p].of].state = "fresh"
IssueHolds(p) == GrantUnchanged(p) /\ CredentialUnchanged(p)

IssueWrites(p) ==
  LET h == handler[p] IN
  \E t \in Credentials :
    /\ credential[t] = NoCredential
    /\ credential' = [credential EXCEPT
         ![t] = [grant |-> h.grant, from |-> h.of, scope |-> h.scope, state |-> "fresh"],
         ![h.of].state = "spent"]
    /\ grant' = [grant EXCEPT ![h.grant] = [scope |-> h.scope, state |-> "live", ver |-> h.ver + 1]]

Issue(p) ==
  /\ Is(p, "issue") /\ IssueHolds(p)
  /\ IssueWrites(p)
  /\ Say(p, "tokens")
  /\ UNCHANGED <<request, code, standing>>

\* The transaction fails, or its answer is lost: the credential is read again.
IssueFails(p) ==
  /\ Is(p, "issue")
  /\ \/ /\ IssueHolds(p) => "store" \in McpFaults
        /\ UNCHANGED <<grant, credential>>
     \/ IssueHolds(p) /\ "lost" \in McpFaults /\ IssueWrites(p)
  /\ Work(p, Working("recheck", handler[p].of, handler[p].grant, 0, {}, 0))
  /\ UNCHANGED <<request, code, standing>>

\* Mutant: the loser does not look why it lost.
RecheckBlindly(p) ==
  /\ Is(p, "recheck")
  /\ Say(p, "invalid")
  /\ UNCHANGED <<request, code, grant, credential, standing>>

Recheck(p) ==
  /\ Is(p, "recheck")
  /\ IF credential[handler[p].of].state = "spent"
     THEN Work(p, Working("revoke", handler[p].of, handler[p].grant, 0, {}, 0))
     ELSE Say(p, "invalid")
  /\ UNCHANGED <<request, code, grant, credential, standing>>

\* A read fails: the account counts as inactive, a row as missing.
RefreshBlind(p) ==
  /\ handler[p].pc \in {"grant", "reused", "check", "caught", "recheck"} /\ "store" \in McpFaults
  /\ Say(p, "blind")
  /\ UNCHANGED <<request, code, grant, credential, standing>>

-----------------------------------------------------------------------------
(***************************************************************************)
(* The end of a grant: by reuse of a credential, or by a client that       *)
(* disconnects (of is Nothing).                                            *)
(***************************************************************************)
Disconnect(p, t) ==
  /\ Is(p, "idle")
  /\ credential[t].state # "none"
  /\ Work(p, Working("revoke", Nothing, credential[t].grant, 0, {}, 0))
  /\ UNCHANGED <<request, code, grant, credential, standing>>

RevokeRead(p) ==
  /\ Is(p, "revoke")
  /\ IF GrantRead(p).state = "revoked"
     THEN Say(p, "ended")
     ELSE Work(p, Working("commit", handler[p].of, handler[p].grant, GrantRead(p).ver,
                          GrantRead(p).scope, handler[p].tries))
  /\ UNCHANGED <<request, code, grant, credential, standing>>

\* A client that disconnects is told so although the grant could not be read.
RevokeReadFails(p) ==
  /\ Is(p, "revoke") /\ handler[p].of = Nothing /\ "store" \in McpFaults
  /\ Say(p, "blind")
  /\ UNCHANGED <<request, code, grant, credential, standing>>

RevokeGrant(p) ==
  LET h == handler[p] IN
  /\ Is(p, "commit") /\ GrantUnchanged(p)
  /\ grant' = [grant EXCEPT ![h.grant] = [scope |-> h.scope, state |-> "revoked", ver |-> h.ver + 1]]
  /\ Say(p, "ended")
  /\ UNCHANGED <<request, code, credential, standing>>

RevokeConflict(p) ==
  /\ Is(p, "commit") /\ ~GrantUnchanged(p)
  /\ IF handler[p].tries + 1 < Attempts
     THEN Work(p, Working("revoke", handler[p].of, handler[p].grant, 0, {}, handler[p].tries + 1))
     ELSE Say(p, "error")
  /\ UNCHANGED <<request, code, grant, credential, standing>>

\* The invocation is killed, or a call fails whose error is returned.
McpDie(p) ==
  /\ "die" \in McpFaults /\ ~Is(p, "idle")
  /\ Say(p, "error")
  /\ UNCHANGED <<request, code, grant, credential, standing>>

-----------------------------------------------------------------------------
(***************************************************************************)
(* The owner's account.                                                    *)
(***************************************************************************)
\* What has been issued, or is about to be by a handler that may have taken the time
\* already.
Dated == {c \in Codes : code[c] # NoCode \/ \E p \in Invocations : Is(p, "consent")}
           \cup {g \in Grants : grant[g] # NoGrant \/ \E p \in Invocations : Is(p, "exchange")}

\* Times are whole seconds: of what is issued about now, any part counts as older.
Outdated(active) ==
  \E older \in SUBSET Dated :
    standing' = [active |-> active, cut |-> standing.cut \cup older]

\* A suspension logs out everywhere, too, and a reinstatement does not take that back.
SuspendUser ==
  /\ "suspend" \in OwnerOps /\ standing.active
  /\ Outdated(FALSE)
  /\ UNCHANGED <<request, code, grant, credential, handler>>

ReinstateUser ==
  /\ ~standing.active
  /\ standing' = [standing EXCEPT !.active = TRUE]
  /\ UNCHANGED <<request, code, grant, credential, handler>>

LogOutEverywhere ==
  /\ "logoutAll" \in OwnerOps
  /\ Outdated(standing.active)
  /\ UNCHANGED <<request, code, grant, credential, handler>>

-----------------------------------------------------------------------------
ConsentStep(p) ==
  \/ \E n \in Requests : ConsentRead(p, n)
  \/ \E approved \in BOOLEAN : Consent(p, approved)
  \/ ConsentConflict(p)
  \/ \E c \in Codes : ExchangeRead(p, c)
  \/ \E scope \in Asked : ExchangeCode(p, scope)
  \/ ExchangeConflict(p)

RefreshStep(p) ==
  \/ \E t \in Credentials : RefreshRead(p, t) \/ RefreshByStranger(p, t)
  \/ RefreshRefused(p) \/ RefreshReused(p)
  \/ \E scope \in Asked : RefreshAsks(p, scope)
  \/ OwnerRefused(p) \/ OwnerChecked(p)
  \/ Issue(p) \/ IssueFails(p) \/ Recheck(p) \/ RefreshBlind(p)

RevokeStep(p) ==
  \/ \E t \in Credentials : Disconnect(p, t)
  \/ RevokeRead(p) \/ RevokeReadFails(p) \/ RevokeGrant(p) \/ RevokeConflict(p)
  \/ McpDie(p)

McpNext ==
  \/ \E n \in Requests : BindConsent(n)
  \/ \E p \in Invocations : ConsentStep(p) \/ RefreshStep(p) \/ RevokeStep(p)
  \/ SuspendUser \/ ReinstateUser \/ LogOutEverywhere

McpSpec == McpInit /\ [][McpNext]_mcpVars

-----------------------------------------------------------------------------
(***************************************************************************)
(* Properties.                                                             *)
(***************************************************************************)
\* However many handlers consent, exchange and refresh at the same time, a request
\* yields one code, a code one grant and a credential one successor
\* (service.go, Consent, Exchange and Refresh).
UsedOnce ==
  /\ \A c, d \in Codes : c # d /\ code[c] # NoCode => code[c].of # code[d].of
  /\ \A t, u \in Credentials :
       t # u /\ credential[t] # NoCredential => credential[t].from # credential[u].from

\* A grant only shrinks: once revoked it stays revoked and issues nothing, although
\* a refresh that read it before may still write it, and a refresh never widens
\* its scope (service.go, issue and revokeFamily).
GrantShrinks ==
  [][\A g \in Grants :
       /\ grant[g].state # "none" => grant'[g].scope \subseteq grant[g].scope
       /\ grant[g].state = "revoked" =>
            /\ grant'[g].state = "revoked"
            /\ \A t \in Credentials : credential'[t].grant = g => credential[t].grant = g]_mcpVars

\* A client that presents a spent credential of its own and is refused, by a handler
\* whose reads did not fail, leaves the grant revoked, unless the handler found that
\* the owner is suspended, or has logged out everywhere since: then nobody looks at the
\* credential, and a grant as young as the suspension lives on after a reinstatement.
\* A disconnect that is said to be done leaves the grant revoked, too (service.go,
\* Refresh, revokeFamily and Revoke).
ReuseRevokes ==
  [][\A p \in Invocations :
       LET h == handler[p]
           refreshing == h.pc \in {"grant", "reused", "check", "caught", "issue", "recheck",
                                   "revoke", "commit"}
           unowned == h.pc \in {"check", "caught"} /\ ~OwnerActive(h.grant)
       IN refreshing =>
            /\ handler'[p].said = "ended" => grant'[h.grant].state = "revoked"
            /\ handler'[p].said = "invalid" /\ credential[h.of].state = "spent"
               => grant'[h.grant].state = "revoked" \/ unowned]_mcpVars
=============================================================================
