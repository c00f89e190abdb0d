------------------------------- MODULE CloudSync -------------------------------
(***************************************************************************)
(* Settings synced between the devices of one iCloud account.  A device    *)
(* exports all of its settings as one envelope, in which every entry has a *)
(* time stamp, and merges the envelopes of other devices key by key.  The  *)
(* platform settings live in UserDefaults, with a table in memory that has *)
(* their stamps; the preferences live in a file, and have none.            *)
(*                                                                         *)
(* A value is the number of the user's change that wrote it, 0 for the     *)
(* default, so that of two values the greater is what the user meant last. *)
(* A time stamp is a tick of one clock that never gives the same twice, 0  *)
(* for an entry that is absent.                                            *)
(***************************************************************************)
EXTENDS Naturals

CONSTANTS
    Devices,
    PlatformKeys, \* the UserDefaults keys that are synced
    Steps         \* bound: changes of settings by the user, and times that a
                  \* device's app is killed and starts again

RustKeys == {"pinned", "hidden", "home"}
Keys == PlatformKeys \cup RustKeys

ASSUME KeysAssumption == PlatformKeys \cap RustKeys = {}
ASSUME StepsAssumption == Steps \in Nat

VARIABLES
    defaults, \* device -> platform key -> value in UserDefaults
    prefs,    \* device -> rust key -> value in mobile_prefs.json
    table,    \* device -> key -> entry of PLATFORM_TABLE
    observed, \* device -> platform keys whose change is yet to be handled
    timer,    \* device -> an export is scheduled
    store,    \* device -> its copy of the key-value store: an envelope
    upload,   \* device -> its copy is yet to be uploaded
    outdated, \* device -> iCloud has an envelope that it does not
    notice,   \* device -> a didChangeExternally notification is on its way
    applied,  \* device -> the envelope of lastAppliedEnvelopeHash
    cloud,    \* the envelope in iCloud
    clock,    \* the last time stamp given
    changes,  \* the number of the user's last change
    restarts, \* restarts so far
    hides     \* auxiliary: the changes that hid a thread

settingVars == <<defaults, prefs, table, observed, timer, applied>>
storeVars == <<store, upload, outdated, notice, cloud>>
vars == <<settingVars, storeVars, clock, changes, restarts, hides>>

Entry == [value : Nat, at : Nat]
Envelope == [Keys -> Entry]

Absent == [value |-> 0, at |-> 0]
NoEnvelope == [k \in Keys |-> Absent]

(* Types, and no stamp is ahead of the clock.                              *)
TypeOK ==
    /\ defaults \in [Devices -> [PlatformKeys -> 0..changes]]
    /\ prefs \in [Devices -> [RustKeys -> 0..changes]]
    /\ table \in [Devices -> Envelope]
    /\ observed \in [Devices -> SUBSET PlatformKeys]
    /\ timer \in [Devices -> BOOLEAN]
    /\ store \in [Devices -> Envelope]
    /\ upload \in [Devices -> BOOLEAN]
    /\ outdated \in [Devices -> BOOLEAN]
    /\ notice \in [Devices -> BOOLEAN]
    /\ applied \in [Devices -> Envelope]
    /\ cloud \in Envelope
    /\ clock \in Nat
    /\ changes \in Nat
    /\ restarts \in Nat
    /\ changes + restarts <= Steps
    /\ hides \subseteq 1..changes
    /\ \A d \in Devices, k \in Keys : table[d][k].at <= clock /\ store[d][k].at <= clock

(* The first start of the app, which schedules an export.                  *)
Init ==
    /\ defaults = [d \in Devices |-> [k \in PlatformKeys |-> 0]]
    /\ prefs = [d \in Devices |-> [k \in RustKeys |-> 0]]
    /\ table = [d \in Devices |-> NoEnvelope]
    /\ observed = [d \in Devices |-> {}]
    /\ timer = [d \in Devices |-> TRUE]
    /\ store = [d \in Devices |-> NoEnvelope]
    /\ upload = [d \in Devices |-> FALSE]
    /\ outdated = [d \in Devices |-> FALSE]
    /\ notice = [d \in Devices |-> FALSE]
    /\ applied = [d \in Devices |-> NoEnvelope]
    /\ cloud = NoEnvelope
    /\ clock = 0
    /\ changes = 0
    /\ restarts = 0
    /\ hides = {}

--------------------------------------------------------------------------------
(***************************************************************************)
(* Changes by the user.                                                    *)
(***************************************************************************)

NewChange == changes + restarts < Steps /\ changes' = changes + 1

(* A UserDefaults value changes; its observer hops to the main actor.      *)
SetDefault(d, k) ==
    /\ NewChange
    /\ defaults' = [defaults EXCEPT ![d][k] = changes']
    /\ observed' = [observed EXCEPT ![d] = @ \cup {k}]
    /\ UNCHANGED <<prefs, table, timer, applied, storeVars, clock, restarts, hides>>

(* A preferences_* call that changes the keys of ks.                       *)
SetPrefs(d, ks) ==
    /\ NewChange
    /\ prefs' = [prefs EXCEPT ![d] = [k \in RustKeys |-> IF k \in ks THEN changes' ELSE @[k]]]
    /\ timer' = [timer EXCEPT ![d] = TRUE]
    /\ UNCHANGED <<defaults, table, observed, applied, storeVars, clock, restarts>>

Pin(d) == SetPrefs(d, {"pinned"}) /\ UNCHANGED hides

(* A thread that is hidden is no longer pinned.                            *)
Hide(d) == SetPrefs(d, {"hidden", "pinned"}) /\ hides' = hides \cup {changes'}

Unhide(d) == SetPrefs(d, {"hidden"}) /\ UNCHANGED hides

SelectHome(d) == SetPrefs(d, {"home"}) /\ UNCHANGED hides

--------------------------------------------------------------------------------
(***************************************************************************)
(* The bridge, outbound.                                                   *)
(***************************************************************************)

HandleLocalDefaultsChange(d, k) ==
    /\ k \in observed[d]
    /\ observed' = [observed EXCEPT ![d] = @ \ {k}]
    /\ clock' = clock + 1
    /\ table' = [table EXCEPT ![d][k] = [value |-> defaults[d][k], at |-> clock']]
    /\ timer' = [timer EXCEPT ![d] = TRUE]
    /\ UNCHANGED <<defaults, prefs, applied, storeVars, changes, restarts, hides>>

(* Mutant: a preference keeps the stamp it came with while it has not      *)
(* changed since.                                                          *)
SnapshotKeepsStamps(d, now) ==
    [k \in Keys |-> IF k \in RustKeys /\ prefs[d][k] # table[d][k].value
                    THEN [value |-> prefs[d][k], at |-> now]
                    ELSE table[d][k]]

(* Mutant: the stamp is taken after the next tick.                         *)
SnapshotAhead(d, now) ==
    [k \in Keys |-> IF k \in RustKeys THEN [value |-> prefs[d][k], at |-> now + 1]
                                      ELSE table[d][k]]

(* The platform entries have their own stamps; every preference is stamped *)
(* anew, whether it has changed or not.                                    *)
Snapshot(d, now) ==
    [k \in Keys |-> IF k \in RustKeys THEN [value |-> prefs[d][k], at |-> now]
                                      ELSE table[d][k]]

(* Mutant: an export waits until the one before it is uploaded.            *)
ExportNowAfterUpload(d) ==
    /\ timer[d]
    /\ ~upload[d]
    /\ timer' = [timer EXCEPT ![d] = FALSE]
    /\ clock' = clock + 1
    /\ store' = [store EXCEPT ![d] = Snapshot(d, clock')]
    /\ applied' = [applied EXCEPT ![d] = Snapshot(d, clock')]
    /\ upload' = [upload EXCEPT ![d] = TRUE]
    /\ UNCHANGED <<defaults, prefs, table, observed, outdated, notice, cloud, changes, restarts,
                   hides>>

ExportNow(d) ==
    /\ timer[d]
    /\ timer' = [timer EXCEPT ![d] = FALSE]
    /\ clock' = clock + 1
    /\ store' = [store EXCEPT ![d] = Snapshot(d, clock')]
    /\ applied' = [applied EXCEPT ![d] = Snapshot(d, clock')]
    /\ upload' = [upload EXCEPT ![d] = TRUE]
    /\ UNCHANGED <<defaults, prefs, table, observed, outdated, notice, cloud, changes, restarts,
                   hides>>

--------------------------------------------------------------------------------
(***************************************************************************)
(* iCloud: the envelope is one value, and the last one uploaded stays.     *)
(***************************************************************************)

Upload(d) ==
    /\ upload[d]
    /\ upload' = [upload EXCEPT ![d] = FALSE]
    /\ cloud' = store[d]
    /\ outdated' = [e \in Devices |-> e # d]
    /\ UNCHANGED <<settingVars, store, notice, clock, changes, restarts, hides>>

Download(d) ==
    /\ outdated[d]
    /\ ~upload[d]
    /\ outdated' = [outdated EXCEPT ![d] = FALSE]
    /\ store' = [store EXCEPT ![d] = cloud]
    /\ notice' = [notice EXCEPT ![d] = TRUE]
    /\ UNCHANGED <<settingVars, upload, cloud, clock, changes, restarts, hides>>

--------------------------------------------------------------------------------
(***************************************************************************)
(* The bridge, inbound.                                                    *)
(***************************************************************************)

(* Whether the entry a of an envelope wins over the entry t of the table.  *)
Wins(k, a, t) ==
    /\ a.at # 0
    /\ IF k \in RustKeys THEN t.at < a.at ELSE ~(t.at > a.at)

(* Merge the store's envelope with the table tab, unless it is known.  The *)
(* writebacks change UserDefaults, whose observers hop to the main actor,  *)
(* where isApplyingRemoteUpdate is no longer set.                          *)
ApplyEnvelopeFromStore(d, tab, seen, obs) ==
    LET env == store[d]
        new == env # NoEnvelope /\ env # seen
        won == {k \in Keys : new /\ Wins(k, env[k], tab[k])}
    IN  /\ table' = [table EXCEPT ![d] = [k \in Keys |-> IF k \in won THEN env[k] ELSE tab[k]]]
        /\ prefs' = [prefs EXCEPT ![d] =
                        [k \in RustKeys |-> IF k \in won THEN env[k].value ELSE @[k]]]
        /\ defaults' = [defaults EXCEPT ![d] =
                        [k \in PlatformKeys |-> IF k \in won THEN env[k].value ELSE @[k]]]
        /\ observed' = [observed EXCEPT ![d] =
                        obs \cup {k \in PlatformKeys : defaults'[d][k] # defaults[d][k]}]
        /\ applied' = [applied EXCEPT ![d] = IF new THEN env ELSE seen]

HandleExternalChange(d) ==
    /\ notice[d]
    /\ notice' = [notice EXCEPT ![d] = FALSE]
    /\ ApplyEnvelopeFromStore(d, table[d], applied[d], observed[d])
    /\ UNCHANGED <<timer, store, upload, outdated, cloud, clock, changes, restarts, hides>>

(* Mutant: start does not schedule an export.                              *)
RestartSilent(d) ==
    /\ changes + restarts < Steps
    /\ restarts' = restarts + 1
    /\ notice' = [notice EXCEPT ![d] = FALSE]
    /\ ApplyEnvelopeFromStore(d, NoEnvelope, NoEnvelope, {})
    /\ timer' = [timer EXCEPT ![d] = FALSE]
    /\ UNCHANGED <<store, upload, outdated, cloud, clock, changes, hides>>

(* The app is killed, and starts again with what is on disk.               *)
Restart(d) ==
    /\ changes + restarts < Steps
    /\ restarts' = restarts + 1
    /\ notice' = [notice EXCEPT ![d] = FALSE]
    /\ ApplyEnvelopeFromStore(d, NoEnvelope, NoEnvelope, {})
    /\ timer' = [timer EXCEPT ![d] = TRUE]
    /\ UNCHANGED <<store, upload, outdated, cloud, clock, changes, hides>>

--------------------------------------------------------------------------------
BridgeStep(d) ==
    \/ \E k \in PlatformKeys : HandleLocalDefaultsChange(d, k)
    \/ ExportNow(d)
    \/ HandleExternalChange(d)

Next ==
    \E d \in Devices :
        \/ \E k \in PlatformKeys : SetDefault(d, k)
        \/ Pin(d)
        \/ Hide(d)
        \/ Unhide(d)
        \/ SelectHome(d)
        \/ Upload(d)
        \/ Download(d)
        \/ BridgeStep(d)
        \/ Restart(d)

Spec == Init /\ [][Next]_vars

(* The main actor of a device runs.                                        *)
FairSpec ==
    /\ Spec
    /\ \A d \in Devices :
          /\ WF_vars(ExportNow(d))
          /\ WF_vars(HandleExternalChange(d))
          /\ \A k \in PlatformKeys : WF_vars(HandleLocalDefaultsChange(d, k))

--------------------------------------------------------------------------------
(***************************************************************************)
(* Properties.                                                             *)
(***************************************************************************)

(* Where a hide has arrived, so has its removal of the pin, or something   *)
(* newer: the preferences of two snapshots do not mix.                     *)
HideIsWhole ==
    \A d \in Devices :
        prefs[d]["hidden"] \in hides => prefs[d]["pinned"] >= prefs[d]["hidden"]

(* What is to be exported is exported, also after the app is killed: the   *)
(* device's store then agrees with its preferences.                        *)
PrefsArePushed ==
    \A d \in Devices :
        timer[d] ~> \A k \in RustKeys : store[d][k].value = prefs[d][k]

(* Devices do not keep answering one another's envelopes.                  *)
Quiesces == <>[](\A d \in Devices : ~timer[d] /\ observed[d] = {} /\ ~notice[d])

(* Of two changes of a preference the newer stays.  This is what           *)
(* build_snapshot says of its stamps; it does not hold: a device exports   *)
(* an old value with a new stamp.                                          *)
NewerWins ==
    [][\A d \in Devices, k \in RustKeys : prefs'[d][k] >= prefs[d][k]]_vars
================================================================================
