----------------------------- MODULE MCServices -----------------------------
(***************************************************************************)
(* Six services on small instances: the quota gate of voice sessions, a    *)
(* run of a phone-research job, the settings of an account, the approval   *)
(* of a coding intention, the topics of conversations and the analyses of  *)
(* tool calls that failed.  They share no state: a behaviour follows one   *)
(* scenario of one of them, with the operations, limits and bounds it      *)
(* needs.                                                                  *)
(***************************************************************************)
EXTENDS VoiceGate, PhoneResearch, SettingsSync, CodeApproval, Topics, RootCause, TLC

CONSTANTS OneSid, OneHotel, OneEditor, OneDevice, T1, T2, T3

\* The owner has two topics, which may be merged; a third is new.
KnownValue == {T1, T2}
MergesValue == {<<T1, T2>>}

VARIABLE scenario

\* Mints of three sessions, two of them at once, at the cap of live sessions.
Slots == INSTANCE VoiceGate WITH
  Kinds <- {"direct"}, Ops <- {}, MaxTime <- 2, MaxUsed <- 0

\* One session of the bridge or of a phone call, with the slot freed, the member
\* signed out or suspended, readings that lag and writes that fail.
Bridge == INSTANCE VoiceGate WITH
  Kinds <- {"bridge", "phone"}, Ops <- {"flush", "logoutAll", "stale", "store", "reinstate"},
  Sids <- OneSid, Capacity <- 1, RefillTime <- 9, HourLength <- 9, MaxTime <- 2, MaxUsed <- 0

\* Tokens are burnt across the change of an hour.
Burn == INSTANCE VoiceGate WITH
  Kinds <- {"direct"}, Ops <- {"reinstate"}, Sids <- {}, Capacity <- 2, RefillTime <- 9, Attempts <- 1,
  MaxTime <- 2, MaxUsed <- 2

\* Fallback turns, as fast as the bucket gives tokens.
Turns == INSTANCE VoiceGate WITH
  Kinds <- {}, Ops <- {"turn"}, Sids <- {}, MaxUsed <- 0

\* The owner stops a run of one call, whose results come back to the job.
OneCall == INSTANCE PhoneResearch WITH Hotels <- OneHotel

\* A run of one call is stopped and taken up again; nobody looks at it.
Resumed == INSTANCE PhoneResearch WITH Hotels <- OneHotel,
  MaxCommands <- 3, MaxVersion <- 3, Handlers <- {}

\* A run goes from one call to the next; nobody looks at it.
NextCall == INSTANCE PhoneResearch WITH MaxCommands <- 1, MaxVersion <- 6, Handlers <- {}

\* Settings are edited and a device is revoked, without messages to devices.
Edited == INSTANCE SettingsSync WITH MaxInFlight <- 0

\* The settings of one device go to and fro, on a line that breaks.
Relayed == INSTANCE SettingsSync WITH
  Editors <- OneEditor, Devices <- OneDevice, SyncOps <- {"put", "local"},
  SyncFaults <- {"lost", "offline"}, MaxEdits <- 1

\* A session is flushed at two times, and its extractions repeat and overlap.
Talk == INSTANCE Topics WITH
  Deliveries <- 2, Topics <- {T1, T3}, KnownTopics <- {T1}, Curators <- {},
  Merges <- {}, Removals <- {}

\* Two requests merge, archive and delete topics while a session is extracted.
Curated == INSTANCE Topics WITH
  Extractors <- OneEditor, Stamps <- {1}, Topics <- KnownValue

\* Two failures of the same signature or of two, on the same day or not.
Failing == INSTANCE RootCause WITH RcaFaults <- {"die", "lost"}

\* A message is with both analyzers at the same time.
Twice == INSTANCE RootCause WITH RcaFaults <- {"die", "twice"}, MaxClock <- 1

MCInit ==
  /\ GateInit /\ PhoneInit /\ SettingsInit /\ ApprovalInit /\ TopicsInit /\ RcaInit
  /\ scenario \in {"slots", "bridge", "burn", "turns", "stops", "resumed", "nextCall", "edited",
                   "relayed", "approvals", "talk", "curated", "failing", "twice"}
  /\ scenario \in {"edited", "relayed"} \/ settings.base = CHOOSE v \in Values : TRUE

\* Names of sessions and of signatures are interchangeable: they are taken in order,
\* and the failures occur in theirs.
SessionsInOrder == \A s, t \in Sids : s < t /\ Fresh(s) => Fresh(t)
FailuresInOrder ==
  \A f \in Failures :
    failure[f] # Unheard =>
      failure[f].signature <= f /\ \A g \in Failures : g < f => failure[g] # Unheard

gatedVars == <<gateVars, phoneVars>>
ownerVars == <<syncVars, approvalVars>>
talkVars == <<topicVars, rcaVars>>

MCNext ==
  /\ UNCHANGED scenario
  /\ \/ /\ \/ scenario = "slots" /\ Slots!GateNext
           \/ scenario = "bridge" /\ Bridge!GateNext
           \/ scenario = "burn" /\ Burn!GateNext
           \/ scenario = "turns" /\ Turns!GateNext
        /\ SessionsInOrder' /\ UNCHANGED <<phoneVars, ownerVars, talkVars>>
     \/ /\ \/ scenario = "stops" /\ OneCall!PhoneNext
           \/ scenario = "resumed" /\ Resumed!PhoneNext
           \/ scenario = "nextCall" /\ NextCall!PhoneNext
        /\ UNCHANGED <<gateVars, ownerVars, talkVars>>
     \/ /\ \/ scenario = "edited" /\ Edited!SettingsNext
           \/ scenario = "relayed" /\ Relayed!SettingsNext
        /\ UNCHANGED <<gatedVars, approvalVars, talkVars>>
     \/ scenario = "approvals" /\ ApprovalNext /\ UNCHANGED <<gatedVars, syncVars, talkVars>>
     \/ /\ \/ scenario = "talk" /\ Talk!TopicsNext
           \/ scenario = "curated" /\ Curated!TopicsNext
        /\ UNCHANGED <<gatedVars, ownerVars, rcaVars>>
     \/ /\ \/ scenario = "failing" /\ Failing!RcaNext
           \/ scenario = "twice" /\ Twice!RcaNext
        /\ FailuresInOrder' /\ UNCHANGED <<gatedVars, ownerVars, topicVars>>

MCSpec == MCInit /\ [][MCNext]_<<gatedVars, ownerVars, talkVars, scenario>>

\* The processes of every service have the same names, since one service runs at a
\* time; where a scenario leaves some of them out they never leave their initial state.
Symmetry == Permutations(Takers)
===============================================================================
