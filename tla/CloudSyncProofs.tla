---------------------------- MODULE CloudSyncProofs ----------------------------
(***************************************************************************)
(* Types, and hides that stay whole, for any number of devices, keys,      *)
(* changes and restarts.                                                   *)
(***************************************************************************)
EXTENDS CloudSync, TLAPS

--------------------------------------------------------------------------------
(* The inductive invariant: an envelope has the preferences of one moment  *)
(* of one device, under one stamp, so that they win together or not at     *)
(* all.  Its values are of changes that were made, its stamps were given.  *)

Whole(hidden, pinned, hid) == hidden \in hid => pinned >= hidden

GoodBy(env, made, given, hid) ==
    /\ env \in Envelope
    /\ \A k \in Keys : env[k].value <= made /\ env[k].at <= given
    /\ \A j, k \in RustKeys : env[j].at = env[k].at
    /\ Whole(env["hidden"].value, env["pinned"].value, hid)

Good(env) == GoodBy(env, changes, clock, hides)

CloudInv ==
    /\ TypeOK
    /\ \A d \in Devices : Good(table[d]) /\ Good(store[d])
    /\ Good(cloud)
    /\ HideIsWhole

--------------------------------------------------------------------------------
(* Envelopes.                                                              *)

LEMMA AbsentGood ==
    ASSUME NEW hid \in SUBSET Nat, 0 \notin hid, NEW made \in Nat, NEW given \in Nat
    PROVE  NoEnvelope \in Envelope /\ GoodBy(NoEnvelope, made, given, hid)
BY DEF NoEnvelope, Absent, GoodBy, Whole, Envelope, Entry, Keys, RustKeys

(* Time, and changes of which the envelope knows nothing, leave it good.   *)
LEMMA StaysGood ==
    ASSUME NEW env, NEW made \in Nat, NEW given \in Nat, NEW hid \in SUBSET Nat,
           GoodBy(env, made, given, hid),
           NEW made2 \in Nat, NEW given2 \in Nat, NEW hid2 \in SUBSET Nat,
           made <= made2, given <= given2,
           \A n \in hid2 : n \in hid \/ n > made
    PROVE  GoodBy(env, made2, given2, hid2)
<1>1. \A k \in Keys : /\ env[k].value \in Nat /\ env[k].at \in Nat
                      /\ env[k].value <= made /\ env[k].at <= given
    BY DEF GoodBy, Envelope, Entry
<1>2. "hidden" \in Keys
    BY DEF Keys, RustKeys
<1>. QED
    BY <1>1, <1>2 DEF GoodBy, Whole

(* What TypeOK says of an envelope, entry by entry.                        *)
LEMMA EntryOf ==
    ASSUME NEW env \in Envelope, NEW k \in Keys
    PROVE  env[k].value \in Nat /\ env[k].at \in Nat
BY DEF Envelope, Entry

LEMMA KeysOf ==
    /\ RustKeys \subseteq Keys /\ PlatformKeys \subseteq Keys
    /\ \A k \in PlatformKeys : k \notin RustKeys
    /\ "hidden" \in RustKeys /\ "pinned" \in RustKeys
BY KeysAssumption DEF Keys, RustKeys

LEMMA HidesOf ==
    ASSUME TypeOK
    PROVE  hides \in SUBSET Nat /\ 0 \notin hides /\ changes \in Nat /\ clock \in Nat
BY DEF TypeOK

LEMMA InitCloudInv == Init => CloudInv
<1>. SUFFICES ASSUME Init PROVE CloudInv
    OBVIOUS
<1>1. Good(NoEnvelope) /\ NoEnvelope \in Envelope
    <2>1. hides \in SUBSET Nat /\ 0 \notin hides /\ changes \in Nat /\ clock \in Nat
        BY DEF Init
    <2>. QED
        BY <2>1, AbsentGood DEF Good
<1>2. \A k \in Keys : NoEnvelope[k].at <= clock
    BY DEF Init, NoEnvelope, Absent
<1>3. TypeOK
    <2>1. /\ defaults \in [Devices -> [PlatformKeys -> 0..changes]]
          /\ prefs \in [Devices -> [RustKeys -> 0..changes]]
        BY DEF Init
    <2>2. /\ table \in [Devices -> Envelope] /\ store \in [Devices -> Envelope]
          /\ applied \in [Devices -> Envelope] /\ cloud \in Envelope
        BY <1>1 DEF Init
    <2>3. \A d \in Devices, k \in Keys : table[d][k].at <= clock /\ store[d][k].at <= clock
        BY <1>2 DEF Init
    <2>. QED
        BY <2>1, <2>2, <2>3, StepsAssumption DEF Init, TypeOK
<1>4. HideIsWhole
    BY DEF Init, HideIsWhole
<1>. QED
    BY <1>1, <1>3, <1>4 DEF Init, CloudInv

--------------------------------------------------------------------------------
(* Changes by the user.                                                    *)

(* The user's change is newer than whatever an envelope has.               *)
LEMMA ChangeKeepsGood ==
    ASSUME CloudInv, NewChange, UNCHANGED <<table, storeVars, clock>>,
           hides' = hides \/ hides' = hides \cup {changes'}
    PROVE  /\ changes' \in Nat /\ changes' = changes + 1 /\ hides' \subseteq 1..changes'
           /\ changes' + restarts <= Steps
           /\ Good(cloud)' /\ \A d \in Devices : Good(table[d])' /\ Good(store[d])'
<1>1. /\ changes \in Nat /\ clock \in Nat /\ restarts \in Nat /\ hides \subseteq 1..changes
      /\ changes' = changes + 1 /\ changes + restarts < Steps
    BY DEF CloudInv, TypeOK, NewChange
<1>2. /\ changes' \in Nat /\ hides' \subseteq 1..changes' /\ changes' + restarts <= Steps
      /\ hides \in SUBSET Nat /\ hides' \in SUBSET Nat /\ changes <= changes' /\ clock <= clock
      /\ \A n \in hides' : n \in hides \/ n > changes
    <2>1. /\ changes' \in Nat /\ changes <= changes' /\ clock <= clock
          /\ changes' + restarts <= Steps
        BY <1>1, StepsAssumption
    <2>2. 1..changes \subseteq 1..changes' /\ changes' \in 1..changes' /\ changes' > changes
        BY <1>1
    <2>3. \A n \in hides' : n \in hides \/ n = changes'
        OBVIOUS
    <2>4. hides' \subseteq 1..changes'
        BY <1>1, <2>2, <2>3
    <2>5. 1..changes' \subseteq Nat /\ 1..changes \subseteq Nat
        OBVIOUS
    <2>. QED
        BY <1>1, <2>1, <2>2, <2>3, <2>4, <2>5
<1>3. \A env : Good(env) => GoodBy(env, changes', clock, hides')
    BY <1>1, <1>2, StaysGood DEF Good
<1>. QED
    BY <1>1, <1>2, <1>3 DEF CloudInv, Good, storeVars

LEMMA SetDefaultInv ==
    ASSUME CloudInv, NEW d \in Devices, NEW k \in PlatformKeys, SetDefault(d, k)
    PROVE  CloudInv'
<1>0. /\ changes' \in Nat /\ changes' = changes + 1 /\ hides' \subseteq 1..changes'
      /\ changes' + restarts <= Steps
      /\ Good(cloud)' /\ \A e \in Devices : Good(table[e])' /\ Good(store[e])'
    BY ChangeKeepsGood DEF SetDefault
<1>1. changes \in Nat /\ 0..changes \subseteq 0..changes'
    BY <1>0 DEF CloudInv, TypeOK
<1>2. defaults' \in [Devices -> [PlatformKeys -> 0..changes']]
    <2>1. \A e \in Devices : defaults[e] \in [PlatformKeys -> 0..changes']
        BY <1>1 DEF CloudInv, TypeOK
    <2>2. changes' \in 0..changes'
        BY <1>0
    <2>3. [defaults[d] EXCEPT ![k] = changes'] \in [PlatformKeys -> 0..changes']
        BY <2>1, <2>2
    <2>4. defaults' = [defaults EXCEPT ![d] = [defaults[d] EXCEPT ![k] = changes']]
        BY DEF SetDefault
    <2>. QED
        BY <2>1, <2>3, <2>4 DEF CloudInv, TypeOK
<1>3. prefs' \in [Devices -> [RustKeys -> 0..changes']]
    BY <1>1 DEF SetDefault, CloudInv, TypeOK
<1>4. TypeOK'
    BY <1>0, <1>2, <1>3 DEF SetDefault, CloudInv, TypeOK, storeVars
<1>5. HideIsWhole'
    BY DEF SetDefault, CloudInv, HideIsWhole
<1>. QED
    BY <1>0, <1>4, <1>5 DEF CloudInv

LEMMA SetPrefsInv ==
    ASSUME CloudInv, NEW d \in Devices, NEW ks \in SUBSET RustKeys, SetPrefs(d, ks),
           \/ hides' = hides
           \/ hides' = hides \cup {changes'} /\ "hidden" \in ks /\ "pinned" \in ks
    PROVE  CloudInv'
<1>0. /\ changes' \in Nat /\ changes' = changes + 1 /\ hides' \subseteq 1..changes'
      /\ changes' + restarts <= Steps
      /\ Good(cloud)' /\ \A e \in Devices : Good(table[e])' /\ Good(store[e])'
    BY ChangeKeepsGood DEF SetPrefs
<1>1. changes \in Nat /\ 0..changes \subseteq 0..changes' /\ hides \subseteq 1..changes
    BY <1>0 DEF CloudInv, TypeOK
<1>. DEFINE p == [k \in RustKeys |-> IF k \in ks THEN changes' ELSE prefs[d][k]]
<1>2. prefs' = [prefs EXCEPT ![d] = p]
    BY DEF SetPrefs
<1>3. p \in [RustKeys -> 0..changes']
    BY <1>0, <1>1 DEF CloudInv, TypeOK
<1>4. TypeOK'
    <2>1. prefs' \in [Devices -> [RustKeys -> 0..changes']]
        BY <1>1, <1>2, <1>3 DEF CloudInv, TypeOK
    <2>2. defaults' \in [Devices -> [PlatformKeys -> 0..changes']]
        BY <1>1 DEF SetPrefs, CloudInv, TypeOK
    <2>. QED
        BY <1>0, <2>1, <2>2 DEF SetPrefs, CloudInv, TypeOK, storeVars
<1>5. HideIsWhole'
    <2>. SUFFICES ASSUME NEW e \in Devices, prefs'[e]["hidden"] \in hides'
                  PROVE  prefs'[e]["pinned"] >= prefs'[e]["hidden"]
        BY DEF HideIsWhole
    <2>1. /\ prefs[e]["hidden"] \in 0..changes /\ prefs[e]["pinned"] \in 0..changes
          /\ prefs[e]["hidden"] \in hides => prefs[e]["pinned"] >= prefs[e]["hidden"]
        BY KeysOf DEF CloudInv, TypeOK, HideIsWhole
    <2>2. CASE e = d
        <3>1. /\ prefs'[e]["hidden"] = IF "hidden" \in ks THEN changes' ELSE prefs[e]["hidden"]
              /\ prefs'[e]["pinned"] = IF "pinned" \in ks THEN changes' ELSE prefs[e]["pinned"]
            BY <1>2, <2>2, KeysOf DEF CloudInv, TypeOK
        <3>. QED
            BY <1>0, <1>1, <2>1, <3>1
    <2>3. CASE e # d
        BY <1>0, <1>1, <1>2, <2>1, <2>3 DEF CloudInv, TypeOK
    <2>. QED
        BY <2>2, <2>3
<1>. QED
    BY <1>0, <1>4, <1>5 DEF CloudInv

--------------------------------------------------------------------------------
(* The bridge and iCloud.                                                  *)

(* The next tick leaves the envelopes good.                                *)
LEMMA TickKeepsGood ==
    ASSUME TypeOK, NEW env, Good(env)
    PROVE  /\ clock + 1 \in Nat /\ clock <= clock + 1
           /\ GoodBy(env, changes, clock + 1, hides)
<1>1. clock + 1 \in Nat /\ clock <= clock + 1 /\ changes <= changes
    BY HidesOf
<1>. QED
    BY <1>1, HidesOf, StaysGood DEF Good

LEMMA HandleLocalInv ==
    ASSUME CloudInv, NEW d \in Devices, NEW k \in PlatformKeys, HandleLocalDefaultsChange(d, k)
    PROVE  CloudInv'
<1>. DEFINE entry == [value |-> defaults[d][k], at |-> clock + 1]
            env == [table[d] EXCEPT ![k] = entry]
<1>1. /\ TypeOK /\ table[d] \in Envelope /\ Good(table[d]) /\ k \in Keys
      /\ defaults[d][k] \in 0..changes /\ changes \in Nat
      /\ clock' = clock + 1 /\ table' = [table EXCEPT ![d] = env]
      /\ UNCHANGED <<defaults, prefs, applied, storeVars, changes, restarts, hides>>
    BY KeysOf DEF CloudInv, TypeOK, HandleLocalDefaultsChange
<1>2. clock + 1 \in Nat /\ \A e : Good(e) => GoodBy(e, changes, clock + 1, hides)
    BY <1>1, HidesOf, TickKeepsGood
<1>3. env \in Envelope
    BY <1>1, <1>2 DEF Envelope, Entry
<1>4. GoodBy(env, changes, clock + 1, hides)
    <2>1. /\ env[k] = entry /\ \A j \in Keys \ {k} : env[j] = table[d][j]
        BY <1>1 DEF Envelope
    <2>2. GoodBy(table[d], changes, clock + 1, hides)
        BY <1>1, <1>2
    <2>3. \A j \in Keys : env[j].value <= changes /\ env[j].at <= clock + 1
        BY <1>1, <1>2, <2>1, <2>2 DEF GoodBy
    <2>4. \A j \in RustKeys : env[j] = table[d][j]
        BY <2>1, KeysOf
    <2>. HIDE DEF env
    <2>. QED
        BY <1>3, <2>2, <2>3, <2>4, KeysOf DEF GoodBy
<1>. HIDE DEF env
<1>5. \A e \in Devices : Good(table[e])' /\ Good(store[e])'
    BY <1>1, <1>2, <1>4 DEF CloudInv, Good, TypeOK, storeVars
<1>6. Good(cloud)'
    BY <1>1, <1>2 DEF CloudInv, Good, storeVars
<1>7. TypeOK'
    <2>1. table' \in [Devices -> Envelope]
        BY <1>1, <1>3 DEF TypeOK
    <2>2. /\ observed' \in [Devices -> SUBSET PlatformKeys]
          /\ timer' \in [Devices -> BOOLEAN]
        BY DEF HandleLocalDefaultsChange, CloudInv, TypeOK
    <2>3. \A e \in Devices, j \in Keys : table'[e][j].at <= clock' /\ store'[e][j].at <= clock'
        BY <1>5 DEF Good, GoodBy
    <2>. QED
        BY <1>1, <1>2, <2>1, <2>2, <2>3 DEF TypeOK, storeVars
<1>8. HideIsWhole'
    BY <1>1 DEF CloudInv, HideIsWhole
<1>. QED
    BY <1>5, <1>6, <1>7, <1>8 DEF CloudInv

(* A fresh entry reads back as it was written.                             *)
LEMMA FreshEntry ==
    ASSUME NEW v \in Nat, NEW t \in Nat, NEW e, e = [value |-> v, at |-> t]
    PROVE  e \in Entry /\ e.value = v /\ e.at = t
BY DEF Entry

(* A snapshot has the preferences as they are, under one stamp.            *)
LEMMA SnapshotGood ==
    ASSUME CloudInv, NEW d \in Devices
    PROVE  /\ Snapshot(d, clock + 1) \in Envelope
           /\ GoodBy(Snapshot(d, clock + 1), changes, clock + 1, hides)
<1>1. PICK env : env = Snapshot(d, clock + 1)
    OBVIOUS
<1>2. /\ TypeOK /\ table[d] \in Envelope /\ changes \in Nat /\ clock + 1 \in Nat
      /\ \A k \in RustKeys : prefs[d][k] \in 0..changes
      /\ GoodBy(table[d], changes, clock + 1, hides)
    BY TickKeepsGood, HidesOf DEF CloudInv, TypeOK
<1>3. /\ env = [k \in Keys |-> env[k]]
      /\ \A k \in RustKeys : env[k] = [value |-> prefs[d][k], at |-> clock + 1]
      /\ \A k \in Keys \ RustKeys : env[k] = table[d][k]
    BY <1>1, KeysOf DEF Snapshot
<1>4. ASSUME NEW k \in RustKeys
      PROVE  env[k] \in Entry /\ env[k].value = prefs[d][k] /\ env[k].at = clock + 1
    <2>1. prefs[d][k] \in Nat
        BY <1>2
    <2>2. env[k] = [value |-> prefs[d][k], at |-> clock + 1]
        BY <1>3
    <2>. QED
        BY <1>2, <2>1, <2>2, FreshEntry
<1>5. env \in Envelope
    <2>1. \A k \in Keys \ RustKeys : env[k] \in Entry
        BY <1>2, <1>3 DEF Envelope
    <2>2. \A k \in Keys : env[k] \in Entry
        BY <1>4, <2>1
    <2>. QED
        BY <1>3, <2>2 DEF Envelope
<1>6. \A k \in Keys : env[k].value <= changes /\ env[k].at <= clock + 1
    <2>1. \A k \in RustKeys : env[k].value <= changes /\ env[k].at <= clock + 1
        BY <1>2, <1>4
    <2>2. \A k \in Keys \ RustKeys : env[k].value <= changes /\ env[k].at <= clock + 1
        BY <1>2, <1>3 DEF GoodBy
    <2>. QED
        BY <2>1, <2>2
<1>7. Whole(env["hidden"].value, env["pinned"].value, hides)
    BY <1>4, KeysOf DEF CloudInv, HideIsWhole, Whole
<1>8. GoodBy(env, changes, clock + 1, hides)
    BY <1>4, <1>5, <1>6, <1>7 DEF GoodBy
<1>. QED
    BY <1>1, <1>5, <1>8

LEMMA ExportInv ==
    ASSUME CloudInv, NEW d \in Devices, ExportNow(d)
    PROVE  CloudInv'
<1>. DEFINE env == Snapshot(d, clock + 1)
<1>0. env \in Envelope /\ GoodBy(env, changes, clock + 1, hides)
    BY SnapshotGood
<1>1. /\ TypeOK /\ clock' = clock + 1
      /\ store' = [store EXCEPT ![d] = env] /\ applied' = [applied EXCEPT ![d] = env]
      /\ UNCHANGED <<defaults, prefs, table, observed, outdated, notice, cloud, changes,
                     restarts, hides>>
    BY DEF CloudInv, ExportNow
<1>. HIDE DEF env
<1>2. clock + 1 \in Nat /\ \A e : Good(e) => GoodBy(e, changes, clock + 1, hides)
    BY <1>1, HidesOf, TickKeepsGood
<1>3. \A e \in Devices : Good(table[e])' /\ Good(store[e])'
    BY <1>0, <1>1, <1>2 DEF CloudInv, Good, TypeOK
<1>4. Good(cloud)'
    BY <1>1, <1>2 DEF CloudInv, Good
<1>5. TypeOK'
    <2>1. store' \in [Devices -> Envelope] /\ applied' \in [Devices -> Envelope]
        BY <1>0, <1>1 DEF TypeOK
    <2>2. timer' \in [Devices -> BOOLEAN] /\ upload' \in [Devices -> BOOLEAN]
        BY DEF ExportNow, CloudInv, TypeOK
    <2>3. \A e \in Devices, j \in Keys : table'[e][j].at <= clock' /\ store'[e][j].at <= clock'
        BY <1>3 DEF Good, GoodBy
    <2>. QED
        BY <1>1, <1>2, <2>1, <2>2, <2>3 DEF TypeOK
<1>6. HideIsWhole'
    BY <1>1 DEF CloudInv, HideIsWhole
<1>. QED
    BY <1>3, <1>4, <1>5, <1>6 DEF CloudInv

LEMMA TransferInv ==
    ASSUME CloudInv, NEW d \in Devices, Upload(d) \/ Download(d)
    PROVE  CloudInv'
<1>1. /\ UNCHANGED <<settingVars, clock, changes, restarts, hides>>
      /\ cloud' = cloud \/ cloud' = store[d]
      /\ store' = store \/ store' = [store EXCEPT ![d] = cloud]
    BY DEF Upload, Download
<1>2. Good(cloud)' /\ \A e \in Devices : Good(table[e])' /\ Good(store[e])'
    BY <1>1 DEF CloudInv, Good, TypeOK, settingVars
<1>3. TypeOK'
    <2>1. /\ upload' \in [Devices -> BOOLEAN] /\ outdated' \in [Devices -> BOOLEAN]
          /\ notice' \in [Devices -> BOOLEAN]
        BY DEF Upload, Download, CloudInv, TypeOK
    <2>2. store' \in [Devices -> Envelope] /\ cloud' \in Envelope
        <3>1. /\ store \in [Devices -> Envelope] /\ cloud \in Envelope
              /\ store[d] \in Envelope
            BY DEF CloudInv, TypeOK
        <3>. QED
            BY <1>1, <3>1
    <2>3. \A e \in Devices, j \in Keys : table'[e][j].at <= clock' /\ store'[e][j].at <= clock'
        BY <1>2 DEF Good, GoodBy
    <2>. QED
        BY <1>1, <2>1, <2>2, <2>3 DEF CloudInv, TypeOK, settingVars
<1>4. HideIsWhole'
    BY <1>1 DEF CloudInv, HideIsWhole, settingVars
<1>. QED
    BY <1>2, <1>3, <1>4 DEF CloudInv

(* The preferences of an envelope replace those of a device together.      *)
LEMMA ApplyInv ==
    ASSUME CloudInv, NEW d \in Devices, NEW tab, Good(tab), NEW seen \in Envelope,
           NEW obs \in SUBSET PlatformKeys, ApplyEnvelopeFromStore(d, tab, seen, obs),
           UNCHANGED <<store, upload, outdated, cloud, clock, changes, hides>>,
           notice' \in [Devices -> BOOLEAN], timer' \in [Devices -> BOOLEAN],
           restarts' \in Nat, changes + restarts' <= Steps
    PROVE  CloudInv'
<1>. DEFINE env == store[d]
            new == env # NoEnvelope /\ env # seen
            won == {k \in Keys : new /\ Wins(k, env[k], tab[k])}
            merged == [k \in Keys |-> IF k \in won THEN env[k] ELSE tab[k]]
            set == [k \in RustKeys |-> IF k \in won THEN env[k].value ELSE prefs[d][k]]
            def == [k \in PlatformKeys |-> IF k \in won THEN env[k].value ELSE defaults[d][k]]
<1>1. /\ table' = [table EXCEPT ![d] = merged]
      /\ prefs' = [prefs EXCEPT ![d] = set]
      /\ defaults' = [defaults EXCEPT ![d] = def]
      /\ observed' = [observed EXCEPT ![d] = obs \cup {k \in PlatformKeys : defaults'[d][k] # defaults[d][k]}]
      /\ applied' = [applied EXCEPT ![d] = IF new THEN env ELSE seen]
    BY DEF ApplyEnvelopeFromStore
<1>2. /\ TypeOK /\ GoodBy(env, changes, clock, hides) /\ env \in Envelope
      /\ GoodBy(tab, changes, clock, hides) /\ tab \in Envelope
      /\ changes \in Nat /\ clock \in Nat
    BY DEF CloudInv, Good, GoodBy, TypeOK
<1>3. RustKeys \subseteq won \/ RustKeys \cap won = {}
    <2>1. \A j, k \in RustKeys : Wins(j, env[j], tab[j]) <=> Wins(k, env[k], tab[k])
        BY <1>2, KeysOf DEF GoodBy, Wins
    <2>. QED
        BY <2>1, KeysOf
<1>. HIDE DEF env, new, won
<1>4. merged \in Envelope /\ GoodBy(merged, changes, clock, hides)
    <2>1. \A k \in Keys : merged[k] = IF k \in won THEN env[k] ELSE tab[k]
        OBVIOUS
    <2>2. merged \in Envelope
        BY <1>2 DEF Envelope
    <2>. HIDE DEF merged
    <2>3. \A k \in Keys : merged[k].value <= changes /\ merged[k].at <= clock
        BY <1>2, <2>1 DEF GoodBy
    <2>4. \/ \A k \in RustKeys : merged[k] = env[k]
          \/ \A k \in RustKeys : merged[k] = tab[k]
        BY <1>3, <2>1, KeysOf
    <2>. QED
        BY <1>2, <2>2, <2>3, <2>4, KeysOf DEF GoodBy
<1>5. set \in [RustKeys -> 0..changes] /\ def \in [PlatformKeys -> 0..changes]
    <2>1. \A k \in Keys : env[k].value \in 0..changes
        BY <1>2, EntryOf DEF GoodBy
    <2>. QED
        BY <1>2, <2>1, KeysOf DEF TypeOK
<1>6. Whole(set["hidden"], set["pinned"], hides)
    <2>1. CASE RustKeys \subseteq won
        BY <1>2, <2>1, KeysOf DEF GoodBy
    <2>2. CASE RustKeys \cap won = {}
        <3>1. set["hidden"] = prefs[d]["hidden"] /\ set["pinned"] = prefs[d]["pinned"]
            BY <2>2, KeysOf
        <3>. QED
            BY <3>1 DEF CloudInv, HideIsWhole, Whole
    <2>. QED
        BY <1>3, <2>1, <2>2
<1>. HIDE DEF merged, set, def
<1>7. Good(cloud)' /\ \A e \in Devices : Good(table[e])' /\ Good(store[e])'
    BY <1>1, <1>2, <1>4 DEF CloudInv, Good, TypeOK
<1>8. TypeOK'
    <2>1. /\ table' \in [Devices -> Envelope]
          /\ prefs' \in [Devices -> [RustKeys -> 0..changes]]
          /\ defaults' \in [Devices -> [PlatformKeys -> 0..changes]]
        BY <1>1, <1>2, <1>4, <1>5 DEF TypeOK
    <2>2. observed' \in [Devices -> SUBSET PlatformKeys]
        BY <1>1, <1>2 DEF TypeOK
    <2>3. applied' \in [Devices -> Envelope]
        BY <1>1, <1>2 DEF TypeOK
    <2>4. \A e \in Devices, j \in Keys : table'[e][j].at <= clock' /\ store'[e][j].at <= clock'
        BY <1>7 DEF Good, GoodBy
    <2>. QED
        BY <1>2, <2>1, <2>2, <2>3, <2>4 DEF TypeOK
<1>9. HideIsWhole'
    BY <1>1, <1>2, <1>6 DEF CloudInv, HideIsWhole, Whole, TypeOK
<1>. QED
    BY <1>7, <1>8, <1>9 DEF CloudInv

LEMMA ExternalInv ==
    ASSUME CloudInv, NEW d \in Devices, HandleExternalChange(d)
    PROVE  CloudInv'
<1>1. PICK tab, seen, obs : tab = table[d] /\ seen = applied[d] /\ obs = observed[d]
    OBVIOUS
<1>2. /\ Good(tab) /\ seen \in Envelope /\ obs \in SUBSET PlatformKeys
      /\ ApplyEnvelopeFromStore(d, tab, seen, obs)
      /\ UNCHANGED <<timer, store, upload, outdated, cloud, clock, changes, restarts, hides>>
    BY <1>1 DEF CloudInv, TypeOK, HandleExternalChange
<1>3. /\ notice' \in [Devices -> BOOLEAN] /\ timer' \in [Devices -> BOOLEAN]
      /\ restarts' \in Nat /\ changes + restarts' <= Steps
    BY DEF CloudInv, TypeOK, HandleExternalChange
<1>. QED
    BY <1>2, <1>3, ApplyInv

LEMMA RestartInv ==
    ASSUME CloudInv, NEW d \in Devices, Restart(d)
    PROVE  CloudInv'
<1>1. Good(NoEnvelope) /\ NoEnvelope \in Envelope
    BY AbsentGood, HidesOf DEF CloudInv, Good
<1>2. /\ notice' \in [Devices -> BOOLEAN] /\ timer' \in [Devices -> BOOLEAN]
    BY DEF CloudInv, TypeOK, Restart
<1>3. restarts' \in Nat /\ changes + restarts' <= Steps
    BY StepsAssumption DEF CloudInv, TypeOK, Restart
<1>. QED
    BY <1>1, <1>2, <1>3, ApplyInv DEF Restart

LEMMA NextCloudInv ==
    ASSUME CloudInv, [Next]_vars
    PROVE  CloudInv'
<1>1. ASSUME NEW d \in Devices, Pin(d) \/ Hide(d) \/ Unhide(d) \/ SelectHome(d)
      PROVE  CloudInv'
    BY <1>1, SetPrefsInv DEF Pin, Hide, Unhide, SelectHome, RustKeys
<1>2. CASE UNCHANGED vars
    BY <1>2 DEF vars, settingVars, storeVars, CloudInv, TypeOK, Good, HideIsWhole
<1>. QED
    BY <1>1, <1>2, SetDefaultInv, HandleLocalInv, ExportInv, TransferInv, ExternalInv,
       RestartInv DEF Next, BridgeStep

(* Every variable keeps its type; no stamp is ahead of the clock, and no   *)
(* value is of a change that nobody made.                                  *)
THEOREM TypeCorrect == Spec => []TypeOK
<1>1. CloudInv => TypeOK
    BY DEF CloudInv
<1>. QED
    BY <1>1, InitCloudInv, NextCloudInv, PTL DEF Spec

(* A device that hides a thread as the user asked has also removed its     *)
(* pin, or was told something newer, whichever envelopes it has merged,    *)
(* killed and started again in between.                                    *)
THEOREM HidesStayWhole == Spec => []HideIsWhole
<1>1. CloudInv => HideIsWhole
    BY DEF CloudInv
<1>. QED
    BY <1>1, InitCloudInv, NextCloudInv, PTL DEF Spec

--------------------------------------------------------------------------------
(***************************************************************************)
(* What PrefsArePushed and Quiesces rest on: a device at which nothing is  *)
(* under way has the preferences of its store, or has merged something as  *)
(* new before; no change waits for an export that nobody scheduled.        *)
(***************************************************************************)

(* The preferences of d are those of env, or d has merged something newer. *)
Reflects(d, env) ==
    \A k \in RustKeys : prefs[d][k] = env[k].value \/ env[k].at <= table[d][k].at

RestAgrees == \A d \in Devices : ~timer[d] /\ ~notice[d] => Reflects(d, store[d])

(* The envelope that the device takes for known is what it exported or     *)
(* merged last, and with no notification on its way the store has it.      *)
RestInv ==
    /\ CloudInv
    /\ \A d \in Devices : /\ ~timer[d] => Reflects(d, applied[d])
                          /\ ~notice[d] => store[d] \in {NoEnvelope, applied[d]}

LEMMA InitRestInv == Init => RestInv
BY InitCloudInv DEF Init, RestInv

LEMMA RestIsAgreed == RestInv => RestAgrees
<1>. SUFFICES ASSUME RestInv, NEW d \in Devices, ~timer[d], ~notice[d]
              PROVE  Reflects(d, store[d])
    BY DEF RestAgrees
<1>1. CASE store[d] = NoEnvelope
    <2>1. \A k \in RustKeys : table[d][k].at \in Nat /\ NoEnvelope[k].at = 0
        BY EntryOf, KeysOf DEF RestInv, CloudInv, TypeOK, NoEnvelope, Absent
    <2>2. \A k \in RustKeys : store[d][k].at <= table[d][k].at
        BY <1>1, <2>1
    <2>. QED
        BY <2>2 DEF Reflects
<1>2. CASE store[d] = applied[d]
    BY <1>2 DEF RestInv
<1>. QED
    BY <1>1, <1>2 DEF RestInv

(* A snapshot has the preferences as they are.                             *)
LEMMA ExportRest ==
    ASSUME RestInv, NEW d \in Devices, ExportNow(d), NEW e \in Devices
    PROVE  /\ ~timer'[e] => Reflects(e, applied[e])'
           /\ ~notice'[e] => store'[e] \in {NoEnvelope, applied'[e]}
<1>. PICK env : env = Snapshot(d, clock + 1)
    OBVIOUS
<1>1. /\ store' = [store EXCEPT ![d] = env] /\ applied' = [applied EXCEPT ![d] = env]
      /\ timer' = [timer EXCEPT ![d] = FALSE] /\ UNCHANGED <<prefs, table, notice>>
      /\ CloudInv /\ TypeOK
    BY DEF ExportNow, RestInv, CloudInv
<1>2. CASE e = d
    <2>1. store'[e] = env /\ applied'[e] = env
        BY <1>1, <1>2 DEF TypeOK
    <2>2. \A k \in RustKeys : env[k].value = prefs[d][k]
        BY KeysOf DEF Snapshot
    <2>. QED
        BY <1>1, <1>2, <2>1, <2>2 DEF Reflects
<1>3. CASE e # d
    <2>1. store'[e] = store[e] /\ applied'[e] = applied[e] /\ timer'[e] = timer[e]
        BY <1>1, <1>3 DEF TypeOK
    <2>. QED
        BY <1>1, <2>1 DEF RestInv, Reflects
<1>. QED
    BY <1>2, <1>3

(* What is merged as new becomes the preferences, or loses to what was     *)
(* merged before.                                                          *)
LEMMA ExternalRest ==
    ASSUME RestInv, NEW d \in Devices, HandleExternalChange(d), NEW e \in Devices
    PROVE  /\ ~timer'[e] => Reflects(e, applied[e])'
           /\ ~notice'[e] => store'[e] \in {NoEnvelope, applied'[e]}
<1>. DEFINE env == store[d]
            new == env # NoEnvelope /\ env # applied[d]
            won == {k \in Keys : new /\ Wins(k, env[k], table[d][k])}
            merged == [k \in Keys |-> IF k \in won THEN env[k] ELSE table[d][k]]
            set == [k \in RustKeys |-> IF k \in won THEN env[k].value ELSE prefs[d][k]]
<1>1. /\ table' = [table EXCEPT ![d] = merged]
      /\ prefs' = [prefs EXCEPT ![d] = set]
      /\ applied' = [applied EXCEPT ![d] = IF new THEN env ELSE applied[d]]
      /\ notice' = [notice EXCEPT ![d] = FALSE]
      /\ UNCHANGED <<timer, store>> /\ TypeOK
    BY DEF HandleExternalChange, ApplyEnvelopeFromStore, RestInv, CloudInv
<1>2. \A k \in RustKeys : merged[k] = IF k \in won THEN env[k] ELSE table[d][k]
    BY KeysOf
<1>3. \A k \in RustKeys : set[k] = IF k \in won THEN env[k].value ELSE prefs[d][k]
    OBVIOUS
<1>4. \A k \in RustKeys : /\ k \in won => new
                          /\ new /\ k \notin won => env[k].at <= table[d][k].at
    <2>. TAKE k \in RustKeys
    <2>1. env[k].at \in Nat /\ table[d][k].at \in Nat /\ k \in Keys
        BY <1>1, EntryOf, KeysOf DEF TypeOK
    <2>2. ~Wins(k, env[k], table[d][k]) => env[k].at <= table[d][k].at
        BY <2>1 DEF Wins
    <2>. QED
        BY <2>1, <2>2
<1>. HIDE DEF env, won, merged, set, new
<1>5. CASE e = d
    <2>1. /\ table'[e] = merged /\ prefs'[e] = set /\ timer'[e] = timer[d] /\ store'[e] = env
          /\ applied'[e] = IF new THEN env ELSE applied[d]
        BY <1>1, <1>5 DEF TypeOK, env
    <2>2. CASE new
        <3>1. \A k \in RustKeys : set[k] = env[k].value \/ env[k].at <= merged[k].at
            BY <1>2, <1>3, <1>4, <2>2
        <3>. QED
            BY <2>1, <2>2, <3>1 DEF Reflects
    <2>3. CASE ~new
        <3>1. \A k \in RustKeys : set[k] = prefs[d][k] /\ merged[k] = table[d][k]
            BY <1>2, <1>3, <1>4, <2>3
        <3>2. env \in {NoEnvelope, applied[d]}
            BY <2>3 DEF new
        <3>. QED
            BY <2>1, <2>3, <3>1, <3>2 DEF RestInv, Reflects
    <2>. QED
        BY <2>2, <2>3
<1>6. CASE e # d
    <2>1. /\ table'[e] = table[e] /\ prefs'[e] = prefs[e] /\ timer'[e] = timer[e]
          /\ store'[e] = store[e] /\ applied'[e] = applied[e] /\ notice'[e] = notice[e]
        BY <1>1, <1>6 DEF TypeOK
    <2>. QED
        BY <2>1 DEF RestInv, Reflects
<1>. QED
    BY <1>5, <1>6

(* A start schedules an export, which makes up for what it forgets.        *)
LEMMA RestartRest ==
    ASSUME RestInv, NEW d \in Devices, Restart(d), NEW e \in Devices
    PROVE  /\ ~timer'[e] => Reflects(e, applied[e])'
           /\ ~notice'[e] => store'[e] \in {NoEnvelope, applied'[e]}
<1>1. /\ timer' = [timer EXCEPT ![d] = TRUE] /\ notice' = [notice EXCEPT ![d] = FALSE]
      /\ store' = store /\ TypeOK
      /\ \E new \in BOOLEAN :
            /\ new = (store[d] # NoEnvelope)
            /\ applied' = [applied EXCEPT ![d] = IF new THEN store[d] ELSE NoEnvelope]
      /\ \A f \in Devices \ {d} : table'[f] = table[f] /\ prefs'[f] = prefs[f]
    BY DEF Restart, ApplyEnvelopeFromStore, RestInv, CloudInv, TypeOK
<1>2. CASE e = d
    BY <1>1, <1>2 DEF TypeOK
<1>3. CASE e # d
    BY <1>1, <1>3 DEF RestInv, Reflects, TypeOK
<1>. QED
    BY <1>2, <1>3

LEMMA NextRestInv ==
    ASSUME RestInv, [Next]_vars
    PROVE  RestInv'
<1>. DEFINE Rest(e) == /\ ~timer'[e] => Reflects(e, applied[e])'
                       /\ ~notice'[e] => store'[e] \in {NoEnvelope, applied'[e]}
<1>0. CloudInv' /\ TypeOK
    BY NextCloudInv DEF RestInv, CloudInv
<1>1. ASSUME NEW d \in Devices, NEW k \in PlatformKeys,
             SetDefault(d, k) \/ HandleLocalDefaultsChange(d, k), NEW e \in Devices
      PROVE  Rest(e)
    <2>1. /\ UNCHANGED <<prefs, applied, store, notice>>
          /\ timer'[e] \/ (timer'[e] = timer[e] /\ table'[e] = table[e])
        BY <1>0, <1>1 DEF SetDefault, HandleLocalDefaultsChange, storeVars, TypeOK
    <2>. QED
        BY <2>1 DEF RestInv, Reflects
<1>2. ASSUME NEW d \in Devices, Pin(d) \/ Hide(d) \/ Unhide(d) \/ SelectHome(d), NEW e \in Devices
      PROVE  Rest(e)
    <2>1. PICK ks : SetPrefs(d, ks)
        BY <1>2 DEF Pin, Hide, Unhide, SelectHome
    <2>2. /\ UNCHANGED <<table, applied, store, notice>>
          /\ timer'[e] \/ (timer'[e] = timer[e] /\ prefs'[e] = prefs[e])
        BY <1>0, <2>1 DEF SetPrefs, storeVars, TypeOK
    <2>. QED
        BY <2>2 DEF RestInv, Reflects
<1>3. ASSUME NEW d \in Devices, Upload(d) \/ Download(d), NEW e \in Devices
      PROVE  Rest(e)
    <2>1. /\ UNCHANGED <<prefs, table, applied, timer>>
          /\ notice'[e] \/ (notice'[e] = notice[e] /\ store'[e] = store[e])
        BY <1>0, <1>3 DEF Upload, Download, settingVars, TypeOK
    <2>. QED
        BY <2>1 DEF RestInv, Reflects
<1>4. ASSUME UNCHANGED vars, NEW e \in Devices
      PROVE  Rest(e)
    BY <1>4 DEF vars, settingVars, storeVars, RestInv, Reflects
<1>5. ASSUME NEW e \in Devices PROVE Rest(e)
    BY <1>1, <1>2, <1>3, <1>4, ExportRest, ExternalRest, RestartRest DEF Next, BridgeStep
<1>. QED
    BY <1>0, <1>5 DEF RestInv

(* A device at rest has the preferences of its copy of the key-value       *)
(* store, or has merged newer ones before: however often it was killed,    *)
(* and whatever the other devices sent, nothing it holds waits to be sent. *)
THEOREM NothingWaitsAtRest == Spec => []RestAgrees
BY InitRestInv, NextRestInv, RestIsAgreed, PTL DEF Spec

================================================================================
