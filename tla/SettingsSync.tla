----------------------------- MODULE SettingsSync -----------------------------
(***************************************************************************)
(* Settings of an account: one versioned document with account defaults    *)
(* and overrides per device, written by the web application and the        *)
(* handler that revokes a device (internal/store, internal/webapp), pushed *)
(* to the devices through their shadows (internal/sync, cmd/shadow-ingest) *)
(* and applied by their firmware.  One setting stands for all of them.     *)
(***************************************************************************)
EXTENDS Naturals, Sequences

CONSTANTS
  Editors,        \* handlers that run at the same time
  Devices,
  Values,         \* values of the setting
  SyncOps,        \* "put", "patch", "all", "revoke", "local"
  SyncFaults,     \* "lost", a fan-out that fails; "offline", a device that disconnects
  PurgeAttempts,  \* tries of the removal of an override (5)
  MaxEdits,       \* bound on the versions operations begin at
  MaxInFlight,    \* bound on the messages on their way to or from a device
  Inherit,        \* no override: the default counts
  Same,           \* a field that a message does not carry
  GetShadow       \* a device's request for its shadow

ASSUME SettingsAssumption ==
  /\ PurgeAttempts \in Nat /\ MaxEdits \in Nat /\ MaxInFlight \in Nat
  /\ Inherit \notin Values /\ Same \notin Values

VARIABLES
  settings,   \* the document USER#<id>/SETTINGS
  enrolled,   \* devices whose row is active
  listed,     \* the same in the secondary index, which lags behind
  editor,     \* what each handler is doing
  pushes,     \* updates of "desired" that are on their way to a shadow
  accepted,   \* "reported" states that are on their way to shadow-ingest
  shadow,     \* desired and reported of each device
  device,     \* the settings a device has
  toDevice, toCloud,  \* messages of a device that is online
  online,
  forgotten,  \* history: devices whose override was purged
  late        \* history: devices given an override by a handler that found them
              \* active after they were revoked

document == <<settings, enrolled, listed, editor, forgotten, late>>
links == <<device, toDevice, toCloud, online>>
syncVars == <<document, pushes, accepted, shadow, links>>

-----------------------------------------------------------------------------
NoOverrides == [d \in Devices |-> Inherit]

Document(v, b, o) == [ver |-> v, base |-> b, over |-> o]

\* What a handler is doing, for which device, with which document, after how many
\* tries; "late" is the device if it was not active any more when it was looked for.
Editing(pc, d, s, n, l) == [pc |-> pc, dev |-> d, next |-> s, tries |-> n, late |-> l]

NoEdit == Editing("idle", Inherit, Document(0, Same, NoOverrides), 0, {})

\* EffectiveSettings: an override counts before the default.
Effective(s, d) == IF s.over[d] = Inherit THEN s.base ELSE s.over[d]

Desired(s, d) == [ver |-> s.ver, val |-> Effective(s, d)]

SettingsInit ==
  /\ \E v \in Values :
       /\ settings = Document(1, v, NoOverrides)
       /\ device = [d \in Devices |-> [ver |-> 1, val |-> v]]
       /\ shadow = [d \in Devices |-> [desired |-> [ver |-> 1, val |-> v],
                                       reported |-> [ver |-> 1, val |-> v]]]
  /\ enrolled = Devices /\ listed = Devices
  /\ editor = [p \in Editors |-> NoEdit]
  /\ pushes = {} /\ accepted = {}
  /\ toDevice = [d \in Devices |-> <<>>] /\ toCloud = [d \in Devices |-> <<>>]
  /\ online = Devices
  /\ forgotten = {} /\ late = {}

-----------------------------------------------------------------------------
(***************************************************************************)
(* Writers of the document.  Each computes the next document from the one  *)
(* it has read and puts it if the version is still the same.               *)
(***************************************************************************)
Edit(p, pc, d, s) ==
  editor' = [editor EXCEPT ![p] = Editing(pc, d, s, 0, {})]
Rest(p) == editor' = [editor EXCEPT ![p] = NoEdit]
Begins(p) == editor[p].pc = "idle" /\ settings.ver <= MaxEdits

\* The next document, with the value v for the device d.
Altered(d, v) == Document(settings.ver + 1, settings.base, [settings.over EXCEPT ![d] = v])

\* A client whose version is not the present one is refused.
Put(p, v) ==
  /\ "put" \in SyncOps /\ Begins(p)
  /\ Edit(p, "write", Inherit, Document(settings.ver + 1, v, settings.over))
  /\ UNCHANGED <<settings, enrolled, listed, forgotten, late, pushes, accepted, shadow, links>>

\* The document is read first, the list of devices after it.
Patch(p, d, v) ==
  /\ "patch" \in SyncOps /\ Begins(p)
  /\ Edit(p, "check", d, Altered(d, v))
  /\ UNCHANGED <<settings, enrolled, listed, forgotten, late, pushes, accepted, shadow, links>>

PatchAll(p, v) ==
  /\ "all" \in SyncOps /\ Begins(p)
  /\ Edit(p, "write", Inherit, Document(settings.ver + 1, v, NoOverrides))
  /\ UNCHANGED <<settings, enrolled, listed, forgotten, late, pushes, accepted, shadow, links>>

CheckTarget(p) ==
  /\ editor[p].pc = "check"
  /\ IF editor[p].dev \in listed
     THEN editor' = [editor EXCEPT ![p] =
                       Editing("write", @.dev, @.next, 0, {@.dev} \ enrolled)]
     ELSE Rest(p)
  /\ UNCHANGED <<settings, enrolled, listed, forgotten, late, pushes, accepted, shadow, links>>

Unchanged(p) == settings.ver + 1 = editor[p].next.ver

\* Mutant: what could not be written is pushed all the same.
WriteOrPush(p) ==
  /\ editor[p].pc = "write"
  /\ IF Unchanged(p)
     THEN /\ settings' = editor[p].next
          /\ late' = late \cup editor[p].late
     ELSE UNCHANGED <<settings, late>>
  /\ editor' = [editor EXCEPT ![p] = Editing("fanout", @.dev, @.next, 0, {})]
  /\ UNCHANGED <<enrolled, listed, forgotten, pushes, accepted, shadow, links>>

WriteSettings(p) ==
  /\ editor[p].pc = "write"
  /\ IF Unchanged(p)
     THEN /\ settings' = editor[p].next
          /\ late' = late \cup editor[p].late
          /\ editor' = [editor EXCEPT ![p] = Editing("fanout", @.dev, @.next, 0, {})]
     ELSE UNCHANGED <<settings, late>> /\ Rest(p)
  /\ UNCHANGED <<enrolled, listed, forgotten, pushes, accepted, shadow, links>>

\* The row of the device is flipped, and sessions are ended, before its override is
\* removed.  A device may be revoked again.
RevokeDevice(p, d) ==
  /\ "revoke" \in SyncOps /\ Begins(p)
  /\ enrolled' = enrolled \ {d}
  /\ Edit(p, "purge", d, NoEdit.next)
  /\ UNCHANGED <<settings, listed, forgotten, late, pushes, accepted, shadow, links>>

\* Mutant: nothing is written for a device without an override.
PurgeReadIfPresent(p) ==
  LET d == editor[p].dev IN
  /\ editor[p].pc = "purge"
  /\ IF settings.over[d] = Inherit
     THEN Rest(p) /\ forgotten' = forgotten \cup {d}
     ELSE /\ editor' = [editor EXCEPT ![p] =
                          Editing("purgeWrite", d, Altered(d, Inherit), @.tries, {})]
          /\ UNCHANGED forgotten
  /\ UNCHANGED <<settings, enrolled, listed, late, pushes, accepted, shadow, links>>

PurgeRead(p) ==
  LET d == editor[p].dev IN
  /\ editor[p].pc = "purge"
  /\ editor' = [editor EXCEPT ![p] = Editing("purgeWrite", d, Altered(d, Inherit), @.tries, {})]
  /\ UNCHANGED <<settings, enrolled, listed, forgotten, late, pushes, accepted, shadow, links>>

\* The version moves on even if there was nothing to remove.  When all tries lose,
\* the error is logged and the device counts as revoked.
PurgeWrite(p) ==
  /\ editor[p].pc = "purgeWrite"
  /\ IF Unchanged(p)
     THEN /\ settings' = editor[p].next
          /\ forgotten' = forgotten \cup {editor[p].dev} /\ late' = late \ {editor[p].dev}
          /\ editor' = [editor EXCEPT ![p] = Editing("fanout", @.dev, @.next, 0, {})]
     ELSE /\ UNCHANGED <<settings, forgotten, late>>
          /\ IF editor[p].tries + 1 < PurgeAttempts
             THEN editor' = [editor EXCEPT ![p] = Editing("purge", @.dev, @.next, @.tries + 1, {})]
             ELSE Rest(p)
  /\ UNCHANGED <<enrolled, listed, pushes, accepted, shadow, links>>

\* PublishDesired goes to the devices the index calls active; each update may fail
\* by itself.
Fanout(p) ==
  /\ editor[p].pc = "fanout"
  /\ \E sent \in SUBSET listed :
       /\ "lost" \in SyncFaults \/ sent = listed
       /\ pushes' = pushes \cup {[dev |-> d, want |-> Desired(editor[p].next, d)] : d \in sent}
  /\ Rest(p)
  /\ UNCHANGED <<settings, enrolled, listed, forgotten, late, accepted, shadow, links>>

Replicate ==
  /\ listed # enrolled /\ listed' = enrolled
  /\ UNCHANGED <<settings, enrolled, editor, forgotten, late, pushes, accepted, shadow, links>>

-----------------------------------------------------------------------------
(***************************************************************************)
(* The shadow of a device keeps what is desired and what is reported.  An  *)
(* update that is accepted sends the fields that differ to the device.     *)
(***************************************************************************)
Room(q) == Len(q) < MaxInFlight

Delta(s) ==
  [ver |-> IF s.desired.ver = s.reported.ver THEN 0 ELSE s.desired.ver,
   val |-> IF s.desired.val = s.reported.val THEN Same ELSE s.desired.val]

SendDelta(d, s) ==
  toDevice' = IF d \in online /\ s.desired # s.reported
              THEN [toDevice EXCEPT ![d] = Append(@, Delta(s))]
              ELSE toDevice

Push(x) ==
  LET s == [desired |-> x.want, reported |-> shadow[x.dev].reported] IN
  /\ Room(toDevice[x.dev])
  /\ pushes' = pushes \ {x}
  /\ shadow' = [shadow EXCEPT ![x.dev] = s]
  /\ SendDelta(x.dev, s)
  /\ UNCHANGED <<document, accepted, device, toCloud, online>>

TakeReport(d) ==
  LET m == Head(toCloud[d])
      s == [desired |-> shadow[d].desired, reported |-> m]
  IN
  /\ toCloud[d] # <<>> /\ m # GetShadow /\ Room(toDevice[d])
  /\ toCloud' = [toCloud EXCEPT ![d] = Tail(@)]
  /\ shadow' = [shadow EXCEPT ![d] = s]
  /\ accepted' = accepted \cup {[dev |-> d, ver |-> m.ver]}
  /\ SendDelta(d, s)
  /\ UNCHANGED <<document, pushes, device, online>>

TakeGet(d) ==
  /\ toCloud[d] # <<>> /\ Head(toCloud[d]) = GetShadow /\ Room(toDevice[d])
  /\ toCloud' = [toCloud EXCEPT ![d] = Tail(@)]
  /\ toDevice' = [toDevice EXCEPT ![d] = Append(@, shadow[d].desired)]
  /\ UNCHANGED <<document, pushes, accepted, shadow, device, online>>

\* Handle: a device of another version is sent the present document.  No device
\* reports a version later than the document's.
Ingest(e) ==
  /\ accepted' = accepted \ {e}
  /\ pushes' = IF e.dev \in enrolled /\ e.ver # settings.ver
               THEN pushes \cup {[dev |-> e.dev, want |-> Desired(settings, e.dev)]}
               ELSE pushes
  /\ UNCHANGED <<document, shadow, links>>

-----------------------------------------------------------------------------
(***************************************************************************)
(* The firmware.                                                           *)
(***************************************************************************)
\* The device has the settings c and reports them.
Report(d, c) ==
  /\ Room(toCloud[d])
  /\ device' = [device EXCEPT ![d] = c]
  /\ toCloud' = [toCloud EXCEPT ![d] = Append(@, c)]

\* A message without a version is dropped, an old one is answered with what the
\* device has, and of a newer one the fields it carries are applied.
TakeDelta(d) ==
  LET m == Head(toDevice[d])
      c == device[d]
  IN
  /\ toDevice[d] # <<>>
  /\ \/ m.ver = 0 /\ UNCHANGED <<device, toCloud>>
     \/ m.ver \in 1..c.ver /\ Report(d, c)
     \/ m.ver > c.ver /\ Report(d, [ver |-> m.ver, val |-> IF m.val = Same THEN c.val ELSE m.val])
  /\ toDevice' = [toDevice EXCEPT ![d] = Tail(@)]
  /\ UNCHANGED <<document, pushes, accepted, shadow, online>>

\* The user chooses a value on the device; the version stays.
ChooseLocally(d, v) ==
  /\ "local" \in SyncOps /\ d \in online /\ v # device[d].val
  /\ Report(d, [device[d] EXCEPT !.val = v])
  /\ UNCHANGED <<document, pushes, accepted, shadow, toDevice, online>>

Disconnect(d) ==
  /\ "offline" \in SyncFaults /\ d \in online
  /\ online' = online \ {d}
  /\ toDevice' = [toDevice EXCEPT ![d] = <<>>] /\ toCloud' = [toCloud EXCEPT ![d] = <<>>]
  /\ UNCHANGED <<document, pushes, accepted, shadow, device>>

ConnectDevice(d) ==
  /\ d \notin online
  /\ online' = online \cup {d}
  /\ toCloud' = [toCloud EXCEPT ![d] = <<GetShadow, device[d]>>]
  /\ UNCHANGED <<document, pushes, accepted, shadow, device, toDevice>>

-----------------------------------------------------------------------------
Request(p) ==
  \/ \E v \in Values : Put(p, v) \/ PatchAll(p, v)
  \/ \E d \in Devices : RevokeDevice(p, d) \/ \E v \in Values \cup {Inherit} : Patch(p, d, v)

Serve(p) == CheckTarget(p) \/ WriteSettings(p) \/ PurgeRead(p) \/ PurgeWrite(p) \/ Fanout(p)

Relay(d) == TakeReport(d) \/ TakeGet(d) \/ TakeDelta(d)

SettingsNext ==
  \/ \E p \in Editors : Request(p) \/ Serve(p)
  \/ Replicate
  \/ \E x \in pushes : Push(x)
  \/ \E e \in accepted : Ingest(e)
  \/ \E d \in Devices : Relay(d) \/ Disconnect(d) \/ ConnectDevice(d) \/ \E v \in Values : ChooseLocally(d, v)

\* Handlers run to their end, messages arrive and a device comes back.
SettingsFairness ==
  /\ \A p \in Editors : WF_syncVars(Serve(p))
  /\ WF_syncVars(Replicate) /\ WF_syncVars(\E x \in pushes : Push(x))
  /\ WF_syncVars(\E e \in accepted : Ingest(e))
  /\ \A d \in Devices : WF_syncVars(Relay(d)) /\ WF_syncVars(ConnectDevice(d))

SettingsSpec == SettingsInit /\ [][SettingsNext]_syncVars /\ SettingsFairness

-----------------------------------------------------------------------------
Documents(bases) == [ver : Nat, base : bases, over : [Devices -> Values \cup {Inherit}]]
Setting == [ver : Nat, val : Values]
EditorRow == [pc : {"idle", "check", "write", "purge", "purgeWrite", "fanout"},
              dev : Devices \cup {Inherit}, next : Documents(Values \cup {Same}),
              tries : Nat, late : SUBSET Devices]

\* The types.
SettingsTypeOK ==
  /\ settings \in Documents(Values)
  /\ enrolled \subseteq Devices /\ listed \subseteq Devices
  /\ editor \in [Editors -> EditorRow]
  /\ pushes \subseteq [dev : Devices, want : Setting]
  /\ accepted \subseteq [dev : Devices, ver : Nat]
  /\ shadow \in [Devices -> [desired : Setting, reported : Setting]]
  /\ device \in [Devices -> Setting]
  /\ toDevice \in [Devices -> Seq([ver : Nat, val : Values \cup {Same}])]
  /\ toCloud \in [Devices -> Seq(Setting \cup {GetShadow})]
  /\ online \subseteq Devices
  /\ forgotten \subseteq Devices /\ late \subseteq Devices

(***************************************************************************)
(* Properties.                                                             *)
(***************************************************************************)
\* Once the override of a revoked device was purged the device has none, unless it
\* was given one by a handler that found the device active in the index after it was
\* revoked: a handler that looked before loses its write, although nobody compares
\* the state of the device (settings.go, PurgeDeviceSettingsOverride).
OverridesForgotten ==
  \A d \in forgotten : settings.over[d] # Inherit => d \in late

\* What is desired of a device at the present version is what applies to it now:
\* no loser of a race, removal of an override or repeated push says something else
\* under that version, which the device would take for settled.
DesiredTruthful ==
  /\ \A x \in pushes : x.want.ver = settings.ver => x.want = Desired(settings, x.dev)
  /\ \A d \in Devices :
       shadow[d].desired.ver = settings.ver => shadow[d].desired = Desired(settings, d)

\* When the settings are not changed any more, a device that is not revoked ends
\* with those that apply to it (contracts/shadow.md, Reconciliation rule).
Converges ==
  \A d \in Devices : <>[](d \in enrolled => device[d].val = Effective(settings, d))
===============================================================================
