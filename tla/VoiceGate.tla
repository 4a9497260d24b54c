------------------------------ MODULE VoiceGate ------------------------------
(***************************************************************************)
(* The quota gate of the voice broker and of the bridge, for one member.   *)
(* A mint passes the suspension check, the token bucket, the hourly burn   *)
(* check and the count of live sessions before the engine is asked for a   *)
(* credential; the session's slot is recorded after it.  A bridge redeems  *)
(* the slot of a session once, after the connection has been upgraded.     *)
(* The daily and monthly ceilings only refuse, and any step may: the       *)
(* program writes no daySeconds.  The model is of one UTC day.             *)
(***************************************************************************)
EXTENDS MintBucket, FiniteSets

CONSTANTS
  Sids,           \* session identifiers, chosen by the broker
  NoSid,
  MaxConcurrent,  \* live sessions of a member (3)
  SessionCap,     \* time after which a session ends (600 seconds)
  HourLength,
  BurnLimit,      \* tokens of an hour that suspend the member (200,000)
  MaxUsed,        \* bound on the tokens used
  Lag,            \* how far behind a reading of the day's tokens may be
  Kinds,          \* engines: "direct", "bridge", "phone"
  Ops             \* operations that occur: "turn", "flush", "logoutAll", "reinstate",
                  \* "stale" for a profile read that lags, "store" for a failing write

ASSUME GateAssumption ==
  /\ IsFiniteSet(Takers) /\ IsFiniteSet(Sids) /\ NoSid \notin Sids
  /\ MaxConcurrent \in Nat \ {0} /\ SessionCap \in Nat /\ HourLength \in Nat \ {0}
  /\ BurnLimit \in Nat /\ MaxUsed \in Nat /\ Lag \in Nat

VARIABLES
  status, validAfter,  \* the member's profile
  used,                \* the day's tokens
  anchors,             \* the hour and the tokens the burn is reckoned from: all values that
                       \* were put, since a read may miss any of the latest
  slot,                \* when a session's slot expires, and whether it is redeemed
  issued,              \* bridge tokens: session and instant of issue
  gate,                \* what each invocation is doing
  usedAt,              \* history: tokens used when each instant began
  opened               \* history: connections opened for a session

profile == <<status, validAfter>>
sessions == <<slot, issued>>
meter == <<used, anchors, usedAt>>
gateVars == <<bucketVars, profile, meter, sessions, gate, opened>>

NoSlot == [exp |-> 0, redeemed |-> FALSE]
NoAnchor == [hour |-> 0, start |-> 0]
HourOf(t) == 1 + t \div HourLength
HourBegins(t) == (t \div HourLength) * HourLength

Out == [pc |-> "idle", sid |-> NoSid, kind |-> "turn", now |-> 0, day |-> 0, after |-> 0]

GateTypeOK ==
  /\ BucketTypeOK
  /\ status \in {"active", "suspended"} /\ validAfter \in 0..MaxTime
  /\ used \in 0..MaxUsed
  /\ anchors \subseteq [hour : 0..HourOf(MaxTime), start : 0..MaxUsed]
  /\ slot \in [Sids -> [exp : 0..MaxTime + SessionCap, redeemed : BOOLEAN]]
  /\ issued \subseteq Sids \X (0..MaxTime)
  /\ gate \in [Takers -> [pc : {"idle", "bucket", "usage", "burn", "anchor", "suspend", "count",
                                "mint", "record", "release", "upgrade", "recheck", "redeem"},
                          sid : Sids \cup {NoSid}, kind : Kinds \cup {"turn"},
                          now : 0..MaxTime, day : 0..MaxUsed, after : 0..MaxTime]]
  /\ usedAt \in [0..MaxTime -> 0..MaxUsed]
  /\ opened \in [Sids -> Nat]

GateInit ==
  /\ BucketInit
  /\ status = "active" /\ validAfter = 0
  /\ used = 0 /\ anchors = {NoAnchor}
  /\ slot = [s \in Sids |-> NoSlot] /\ issued = {}
  /\ gate = [p \in Takers |-> Out]
  /\ usedAt = [t \in 0..MaxTime |-> 0]
  /\ opened = [s \in Sids |-> 0]

GoOn(p, pc) == gate' = [gate EXCEPT ![p] = [@ EXCEPT !.pc = pc]]
Refuse(p) == gate' = [gate EXCEPT ![p] = Out]

-----------------------------------------------------------------------------
(***************************************************************************)
(* A mint and a fallback turn.                                             *)
(***************************************************************************)
\* The profile is read by an eventually consistent read.
SeenActive == status = "active" \/ "stale" \in Ops

Fresh(s) ==
  /\ slot[s] = NoSlot /\ opened[s] = 0
  /\ \A i \in issued : i[1] # s
  /\ \A p \in Takers : gate[p].sid # s

\* The session gets its identifier after the checks: which one it will be makes
\* no difference before.
CheckSuspended(p, kind) ==
  /\ gate[p].pc = "idle" /\ SeenActive
  /\ gate' = [gate EXCEPT ![p] = [Out EXCEPT !.pc = "bucket", !.kind = kind]]
  /\ Ask(p)
  /\ UNCHANGED <<profile, meter, sessions, opened>>

\* A fallback turn needs the token only; a mint goes on, and takes the instant
\* of its checks now.
TokenTaken(p) ==
  /\ gate[p].pc = "bucket" /\ taker[p].pc = "took"
  /\ gate' = [gate EXCEPT ![p] = IF gate[p].kind = "turn" THEN Out
                                 ELSE [@ EXCEPT !.pc = "usage", !.now = clock]]
  /\ Leave(p)
  /\ UNCHANGED <<profile, meter, sessions, opened>>

\* What an eventually consistent read may be behind of.
Before(t) == IF t > Lag THEN t - Lag ELSE 0

ReadUsage(p) ==
  /\ gate[p].pc = "usage"
  /\ \E day \in usedAt[Before(clock)]..used :
       gate' = [gate EXCEPT ![p] = [@ EXCEPT !.pc = "burn", !.day = day]]
  /\ UNCHANGED <<bucketVars, profile, meter, sessions, opened>>

BurnVerdict(p, anchor, fits) ==
  IF ~fits THEN "anchor" ELSE IF gate[p].day - anchor.start > BurnLimit THEN "suspend" ELSE "count"

\* Mutant: the hour of the anchor is not compared.
CheckBurnAnyHour(p) ==
  /\ gate[p].pc = "burn"
  /\ \E anchor \in anchors :
       GoOn(p, BurnVerdict(p, anchor, anchor # NoAnchor /\ gate[p].day >= anchor.start))
  /\ UNCHANGED <<bucketVars, profile, meter, sessions, opened>>

\* The burn is the day's tokens less those of the anchor, if the anchor is one
\* of this hour.  The anchor is read as it is, or as it was.
CheckBurn(p) ==
  /\ gate[p].pc = "burn"
  /\ \E anchor \in anchors :
       GoOn(p, BurnVerdict(p, anchor, anchor.hour = HourOf(gate[p].now)
                                      /\ gate[p].day >= anchor.start))
  /\ UNCHANGED <<bucketVars, profile, meter, sessions, opened>>

\* The anchor is put without a condition.
PutAnchor(p) ==
  /\ gate[p].pc = "anchor"
  /\ anchors' = anchors \cup {[hour |-> HourOf(gate[p].now), start |-> gate[p].day]}
  /\ GoOn(p, "count")
  /\ UNCHANGED <<bucketVars, profile, used, usedAt, sessions, opened>>

\* The mint is refused whether or not the suspension could be written.
Suspend(p) ==
  /\ gate[p].pc = "suspend"
  /\ IF status = "active"
     THEN status' = "suspended" /\ validAfter' = clock
     ELSE UNCHANGED profile
  /\ Refuse(p)
  /\ UNCHANGED <<bucketVars, meter, sessions, opened>>

LiveAt(t) == {s \in Sids : slot[s].exp > t}

\* Mutant: a member at the cap gets one more.
CountOneMore(p, s) ==
  /\ gate[p].pc = "count" /\ Fresh(s)
  /\ Cardinality(LiveAt(gate[p].now)) <= MaxConcurrent
  /\ gate' = [gate EXCEPT ![p] = [@ EXCEPT !.pc = "mint", !.sid = s]]
  /\ UNCHANGED <<bucketVars, profile, meter, sessions, opened>>

CountSessions(p, s) ==
  /\ gate[p].pc = "count" /\ Fresh(s)
  /\ Cardinality(LiveAt(gate[p].now)) < MaxConcurrent
  /\ gate' = [gate EXCEPT ![p] = [@ EXCEPT !.pc = "mint", !.sid = s]]
  /\ UNCHANGED <<bucketVars, profile, meter, sessions, opened>>

\* The credential is made; that of a bridge and of a phone call carries the
\* instant of its issue.
Mint(p) ==
  /\ gate[p].pc = "mint"
  /\ gate' = [gate EXCEPT ![p] = [@ EXCEPT !.pc = "record", !.now = clock]]
  /\ UNCHANGED <<bucketVars, profile, meter, sessions, opened>>

PutSlot(p) == slot' = [slot EXCEPT ![gate[p].sid] = [exp |-> clock + SessionCap, redeemed |-> FALSE]]

\* A client that talks to the engine directly gets its credential although the
\* slot could not be written; a bridge token without a slot is not given out.
\* The broker itself redeems the session of a phone call.
RecordMint(p) ==
  LET g == gate[p] IN
  /\ g.pc = "record"
  /\ \/ /\ PutSlot(p)
        /\ issued' = IF g.kind = "bridge" THEN issued \cup {<<g.sid, g.now>>} ELSE issued
        /\ gate' = [gate EXCEPT ![p] = IF g.kind = "phone"
                                       THEN [@ EXCEPT !.pc = "recheck", !.after = validAfter]
                                       ELSE Out]
     \/ /\ "store" \in Ops
        /\ PutSlot(p) \/ UNCHANGED slot
        /\ IF g.kind = "phone" THEN GoOn(p, "release") ELSE Refuse(p)
        /\ UNCHANGED issued
  /\ UNCHANGED <<bucketVars, profile, meter, opened>>

\* The final flush of a transcript, or a phone call that failed, frees the slot.
ReleaseSlot(s) ==
  /\ slot[s] # NoSlot
  /\ slot' = [slot EXCEPT ![s] = NoSlot]
  /\ UNCHANGED <<bucketVars, profile, meter, issued, gate, opened>>

ReleasePhone(p) ==
  /\ gate[p].pc = "release"
  /\ slot' = [slot EXCEPT ![gate[p].sid] = NoSlot]
  /\ Refuse(p)
  /\ UNCHANGED <<bucketVars, profile, meter, issued, opened>>

-----------------------------------------------------------------------------
(***************************************************************************)
(* A bridge connection.                                                    *)
(***************************************************************************)
Admits(iat) == status = "active" /\ iat >= validAfter

Connect(p, i) ==
  /\ gate[p].pc = "idle" /\ i \in issued
  /\ Admits(i[2]) /\ slot[i[1]].exp > clock
  /\ gate' = [gate EXCEPT ![p] = [Out EXCEPT !.pc = "upgrade", !.sid = i[1], !.kind = "bridge",
                                             !.now = i[2]]]
  /\ UNCHANGED <<bucketVars, profile, meter, sessions, opened>>

\* The handshake takes its time.
Upgrade(p) ==
  /\ gate[p].pc = "upgrade"
  /\ gate' = [gate EXCEPT ![p] = [@ EXCEPT !.pc = "recheck", !.after = validAfter]]
  /\ UNCHANGED <<bucketVars, profile, meter, sessions, opened>>

\* Mutant: the check before the handshake is enough.
RecheckNothing(p) ==
  /\ gate[p].pc = "recheck"
  /\ GoOn(p, "redeem")
  /\ UNCHANGED <<bucketVars, profile, meter, sessions, opened>>

Recheck(p) ==
  /\ gate[p].pc = "recheck"
  /\ Admits(gate[p].now)
  /\ GoOn(p, "redeem")
  /\ UNCHANGED <<bucketVars, profile, meter, sessions, opened>>

Redeem(p) ==
  LET s == gate[p].sid IN
  /\ gate[p].pc = "redeem" /\ slot[s].exp > clock /\ ~slot[s].redeemed
  /\ slot' = [slot EXCEPT ![s] = [@ EXCEPT !.redeemed = TRUE]]
  /\ opened' = [opened EXCEPT ![s] = @ + 1]
  /\ Refuse(p)
  /\ UNCHANGED <<bucketVars, profile, meter, issued>>

-----------------------------------------------------------------------------
(***************************************************************************)
(* What happens around.                                                    *)
(***************************************************************************)
\* A refused check, a failing call or the end of the invocation.  A phone call
\* whose session was not redeemed gives its slot back first.
GiveUp(p) ==
  /\ gate[p].pc \notin {"idle", "release"}
  /\ IF gate[p].kind = "phone" /\ gate[p].pc \in {"recheck", "redeem"}
     THEN GoOn(p, "release") ELSE Refuse(p)
  /\ IF taker[p].pc = "idle" THEN UNCHANGED bucketVars ELSE Leave(p)
  /\ UNCHANGED <<profile, meter, sessions, opened>>

\* The model has answered, and what it used is added to the day's tokens.
Use ==
  /\ used < MaxUsed /\ used' = used + 1
  /\ UNCHANGED <<bucketVars, profile, anchors, usedAt, sessions, gate, opened>>

Tick ==
  /\ ClockTicks
  /\ usedAt' = [usedAt EXCEPT ![clock'] = used]
  /\ UNCHANGED <<profile, used, anchors, sessions, gate, opened>>

LogoutAll ==
  /\ "logoutAll" \in Ops /\ validAfter # clock
  /\ validAfter' = clock
  /\ UNCHANGED <<bucketVars, status, meter, sessions, gate, opened>>

Reinstate ==
  /\ "reinstate" \in Ops /\ status = "suspended"
  /\ status' = "active"
  /\ UNCHANGED <<bucketVars, validAfter, meter, sessions, gate, opened>>

GateStep(p) ==
  \/ TakeToken(p) /\ UNCHANGED <<profile, meter, sessions, gate, opened>>
  \/ TokenTaken(p) \/ ReadUsage(p) \/ CheckBurn(p) \/ PutAnchor(p) \/ Suspend(p)
  \/ \E s \in Sids : CountSessions(p, s)
  \/ Mint(p) \/ RecordMint(p) \/ ReleasePhone(p)
  \/ Upgrade(p) \/ Recheck(p) \/ Redeem(p) \/ GiveUp(p)

GateNext ==
  \/ \E p \in Takers :
       \/ GateStep(p)
       \/ \E kind \in Kinds \cup ({"turn"} \cap Ops) : CheckSuspended(p, kind)
       \/ \E i \in issued : Connect(p, i)
  \/ "flush" \in Ops /\ \E s \in Sids : ReleaseSlot(s)
  \/ Use \/ Tick \/ LogoutAll \/ Reinstate

GateSpec == GateInit /\ [][GateNext]_gateVars

-----------------------------------------------------------------------------
(***************************************************************************)
(* Properties.                                                             *)
(***************************************************************************)
\* Mints that pass the count together overshoot the cap, but by no more than
\* the other invocations that were running.
SessionsBounded == Cardinality(LiveAt(clock)) <= MaxConcurrent + Cardinality(Takers) - 1

\* A member is suspended only for more than BurnLimit tokens used since the hour of
\* the mint began, or since Lag before that: an anchor that is put at the beginning of
\* the hour may be that far behind, and so charges the hour with what was used in the
\* last moments of the one before.  However old the anchor is that the mint reads, and
\* whatever other mints put, it is charged with no more (quota.go, checkHourlyBurn).
SuspendedFairly ==
  [][\A p \in Takers : gate[p].pc = "suspend" /\ status = "active" /\ status' = "suspended"
       => gate[p].day - usedAt[Before(HourBegins(gate[p].now))] > BurnLimit]_gateVars

\* A session is opened once, also when its slot has been freed in between, and
\* not by a token that was cut off before its connection was upgraded.
OpenedOnce ==
  [][\A s \in Sids : opened'[s] # opened[s] =>
       /\ opened[s] = 0
       /\ \A p \in Takers : gate[p].sid = s /\ gate[p].pc = "redeem" /\ gate'[p].pc = "idle"
            => gate[p].now >= gate[p].after]_gateVars
===============================================================================
