-------------------------- MODULE WebDisplayProofs --------------------------
(***************************************************************************)
(* Proofs about the web service and the display.  Of the web service: what *)
(* a save keeps, what the gate lets in and what the maintenance workflow   *)
(* puts back, for any set of requests, passwords and updates and any       *)
(* number of saves.  Of the display: its types, that the panel is dark     *)
(* only when the loop knows it is, and that a press which wakes does       *)
(* nothing else in the life of one Display, for any number of power-offs   *)
(* and setups.                                                             *)
(***************************************************************************)
EXTENDS WebService, Tft, TLAPS

\* The settings of a configuration, however many the update has.
Fields == {"call", "pw", "rms", "port"}

\* c has the fields of a configuration; what is in them does not matter here.
IsConfig(c) == c = [f \in Fields |-> c[f]]

\* _deep_merge() keeps the fields of its base, whatever the update brings.
LEMMA MergeFields ==
  ASSUME NEW base, NEW override, IsConfig(base)
  PROVE  IsConfig(Merge(base, override))
<1>1. DOMAIN base = Fields
  BY DEF IsConfig
<1>2. QED
  BY <1>1 DEF IsConfig, Merge

\* A configuration merged over another one replaces it.
LEMMA MergeWhole ==
  ASSUME NEW base, NEW override, IsConfig(base), IsConfig(override)
  PROVE  Merge(base, override) = override
<1>1. DOMAIN base = Fields /\ DOMAIN override = Fields
  BY DEF IsConfig
<1>2. QED
  BY <1>1 DEF IsConfig, Merge

\* The defaults are a configuration; a file that is not YAML is none.
LEMMA DefaultsConfig == IsConfig(Defaults) /\ ~IsConfig(Unreadable)
<1>1. IsConfig(Defaults)
  <2>1. ASSUME NEW a, NEW b, NEW c, NEW d
        PROVE  IsConfig([call |-> a, pw |-> b, rms |-> c, port |-> d])
    BY DEF IsConfig, Fields
  <2> DEFINE R == [on |-> FALSE, call |-> ""]
  <2>2. Defaults = [call |-> NoCall, pw |-> None, rms |-> R, port |-> 8300]
    BY DEF Defaults
  <2> HIDE DEF R
  <2>3. IsConfig([call |-> NoCall, pw |-> None, rms |-> R, port |-> 8300])
    BY <2>1
  <2>4. QED
    BY <2>2, <2>3
<1>2. ASSUME IsConfig(Unreadable) PROVE FALSE
  <2>1. DOMAIN Unreadable = Fields
    BY <1>2 DEF IsConfig
  <2>2. DOMAIN Unreadable = {"bad"}
    BY DEF Unreadable
  <2>3. QED
    BY <2>1, <2>2 DEF Fields
<1>3. QED
  BY <1>1, <1>2

\* A configuration stays one when its password is replaced.
LEMMA PasswordConfig ==
  ASSUME NEW c, IsConfig(c), NEW p PROVE IsConfig([c EXCEPT !.pw = p])
  BY DEF IsConfig, Fields

-----------------------------------------------------------------------------
(* The settings.                                                           *)

\* The phases in which a worker thread has read the file itself.
Missed == {"missedGet", "missedPost"}

\* Every copy of the settings is a configuration, but for a file edited by
\* hand and a cache that is being filled.
Readable ==
  /\ IsConfig(saved) /\ IsConfig(kept)
  /\ IsConfig(file) \/ file = Unreadable
  /\ IsConfig(disk) \/ disk = Unreadable
  /\ up /\ (cache # None \/ ~reloading) => IsConfig(cache)

\* What a worker thread has read itself is a configuration.
ReadsHeld ==
  /\ phase = [r \in Requests |-> phase[r]] /\ read = [r \in Requests |-> read[r]]
  /\ \A r \in Requests : phase[r] \in Missed => IsConfig(read[r])

\* Without hand edits and late stores the file and the disk are what the user
\* was told, and a running service has the file in its cache, or nothing while
\* it loads it.  That is what makes a save, which merges into the cache, a
\* change of the file.
InStep == ~astray => /\ file = saved /\ disk = kept
                     /\ up => cache = file \/ (reloading /\ cache = None)

\* web_app's own copy is the cache, unless a worker thread straddled a save.
OwnCopy == up /\ ~astray /\ ~raced /\ ~reloading => cfg \in {None, cache}

ConfigInv == Readable /\ ReadsHeld /\ InStep /\ OwnCopy

\* The service starts with the defaults on file.
LEMMA InitConfig == Init => ConfigInv
<1> SUFFICES ASSUME Init PROVE ConfigInv
  OBVIOUS
<1> USE DEF Init, ConfigInit
<1>1. Readable /\ InStep /\ OwnCopy
  BY DefaultsConfig DEF Readable, InStep, OwnCopy
<1>2. ReadsHeld
  BY DEF ReadsHeld, Missed
<1>3. QED
  BY <1>1, <1>2 DEF ConfigInv

\* What load_config() makes of the file is a configuration, the file's own when
\* it has one.
LEMMA LoadedConfig ==
  ASSUME Readable
  PROVE  IsConfig(LoadFile) /\ (IsConfig(file) => LoadFile = file)
<1>1. IsConfig(file) => Merge(Defaults, file) = file /\ file # Unreadable
  BY MergeWhole, DefaultsConfig
<1>2. IsConfig(Merge(Defaults, file)) /\ IsConfig(Defaults)
  BY MergeFields, DefaultsConfig
<1>3. QED
  BY <1>1, <1>2 DEF LoadFile

\* A request that goes on in another phase takes nothing else along, and one
\* that starts to hold a configuration of its own holds one.
LEMMA HoldsOn ==
  ASSUME ReadsHeld, NEW r \in Requests, NEW x, NEW y,
         phase' = [phase EXCEPT ![r] = x],
         \/ read' = read
         \/ read' = [read EXCEPT ![r] = y] /\ (x \in Missed => IsConfig(y)),
         read' = read => x \notin Missed
  PROVE  ReadsHeld'
  BY DEF ReadsHeld

\* A save keeps the settings in step: the new file is the old one with the
\* update.
LEMMA SaveKeeps ==
  ASSUME ConfigInv, up, ~reloading, NEW u, Save(u), UNCHANGED up
  PROVE  Readable' /\ InStep' /\ OwnCopy'
<1> USE DEF ConfigInv
<1>1. IsConfig(file') /\ IsConfig(saved')
  BY MergeFields DEF Readable, Save
<1>2. Readable'
  BY <1>1 DEF Readable, Save
<1>3. InStep'
  BY DEF InStep, Save
<1>4. OwnCopy'
  BY DEF OwnCopy, Save
<1>5. QED
  BY <1>2, <1>3, <1>4

\* The rest of the save does: the cache is what the file gives, or what a
\* worker thread has read there.
LEMMA ReloadKeeps == ASSUME ConfigInv, Reload PROVE ConfigInv'
<1> USE DEF ConfigInv, storeVars, gateVars
<1>1. IsConfig(LoadFile) /\ (IsConfig(file) => LoadFile = file)
  BY LoadedConfig
<1>2. cache' = LoadFile \/ (cache # None /\ cache' = cache)
  BY DEF Reload, Reloaded
<1>3. Readable'
  BY <1>1, <1>2 DEF Readable, Reload
<1>4. InStep'
  BY <1>1, <1>2 DEF Readable, InStep, Reload
<1>5. OwnCopy' /\ ReadsHeld'
  BY DEF OwnCopy, ReadsHeld, Reload
<1>6. QED
  BY <1>3, <1>4, <1>5

\* A worker thread that caches its reading keeps the cache in step or leads it
\* astray.
LEMMA CachesKeeps == ASSUME ConfigInv, NEW r \in Requests, GateCaches(r) PROVE ConfigInv'
<1> USE DEF ConfigInv
<1>1. IsConfig(LoadFile) /\ (IsConfig(file) => LoadFile = file)
  BY LoadedConfig
<1>2. IsConfig(read[r])
  BY DEF ReadsHeld, GateCaches, Missed
<1>3. Readable'
  BY <1>2 DEF Readable, GateCaches
<1>4. InStep'
  <2> SUFFICES ASSUME ~astray' PROVE InStep'
    BY DEF InStep
  <2>1. ~astray /\ cache' = LoadFile
    BY DEF GateCaches
  <2>2. QED
    BY <1>1, <2>1 DEF Readable, InStep, GateCaches
<1>5. OwnCopy'
  <2> SUFFICES ASSUME up', ~astray', ~raced', ~reloading' PROVE cfg' \in {None, cache'}
    BY DEF OwnCopy
  <2>1. ~astray /\ cache' = LoadFile
    BY DEF GateCaches
  <2>2. cache' = cache
    BY <1>1, <2>1 DEF Readable, InStep, GateCaches
  <2>3. QED
    BY <2>1, <2>2 DEF OwnCopy, GateCaches
<1>6. ReadsHeld'
  <2>1. PICK x \in {"loadedPost", "loadedGet"} : phase' = [phase EXCEPT ![r] = x]
    BY DEF GateCaches
  <2>2. QED
    BY <2>1, HoldsOn DEF GateCaches, Missed
<1>7. QED
  BY <1>3, <1>4, <1>5, <1>6

\* A start of the service keeps ConfigInv: the cache is the file again.
LEMMA StartKeeps == ASSUME ConfigInv, WebStarts PROVE ConfigInv'
<1> USE DEF ConfigInv
<1>1. IsConfig(LoadFile) /\ (IsConfig(file) => LoadFile = file)
  BY LoadedConfig
<1>2. Readable'
  BY <1>1 DEF Readable, WebStarts
<1>3. InStep'
  BY <1>1 DEF Readable, InStep, WebStarts
<1>4. OwnCopy' /\ ReadsHeld'
  BY DEF OwnCopy, ReadsHeld, WebStarts, gateVars
<1>5. QED
  BY <1>2, <1>3, <1>4

\* A hand edit leaves a configuration or something unreadable.
LEMMA EditKeeps == ASSUME ConfigInv, HandEdit PROVE ConfigInv'
<1>1. IsConfig(LoadFile)
  BY LoadedConfig DEF ConfigInv
<1>2. IsConfig([LoadFile EXCEPT !.pw = None])
  BY <1>1, PasswordConfig
<1>3. PICK c \in {Unreadable, [LoadFile EXCEPT !.pw = None]} : file' = c /\ disk' = c
  BY DEF HandEdit
<1>4. IsConfig(c) \/ c = Unreadable
  BY <1>2
<1>5. Readable' /\ InStep' /\ OwnCopy'
  BY <1>3, <1>4 DEF ConfigInv, Readable, InStep, OwnCopy, HandEdit
<1>6. ReadsHeld'
  BY DEF ConfigInv, ReadsHeld, HandEdit, gateVars
<1>7. QED
  BY <1>5, <1>6 DEF ConfigInv

\* Every other step leaves the settings alone, but for web_app's own copy.
LEMMA OthersKeep ==
  ASSUME ConfigInv,
         UNCHANGED <<file, cache, reloading, up, astray, saved>>,
         \/ UNCHANGED <<disk, kept>>
         \/ disk' = file /\ kept' = saved,
         \/ UNCHANGED <<cfg, raced>>
         \/ cfg' = GetConfig /\ UNCHANGED raced
         \/ \E c : cfg' = c /\ raced' = (raced \/ c # cache)
  PROVE  Readable' /\ InStep' /\ OwnCopy'
  BY DEF ConfigInv, Readable, InStep, OwnCopy, GetConfig

\* A web service that ends leaves the file or, with the power, the disk.
LEMMA EndKeeps ==
  ASSUME ConfigInv, WebEnds, UNCHANGED <<cache, astray, disk, kept>>,
         \/ UNCHANGED <<file, saved>>
         \/ file' = disk /\ saved' = kept
  PROVE  ConfigInv'
<1>1. Readable' /\ InStep' /\ OwnCopy'
  BY DEF ConfigInv, Readable, InStep, OwnCopy, WebEnds
<1>2. ReadsHeld'
  BY DEF ReadsHeld, WebEnds, Missed
<1>3. QED
  BY <1>1, <1>2 DEF ConfigInv

\* The steps of a request at the gate.
LEMMA GateKeeps ==
  ASSUME ConfigInv, NEW r \in Requests,
         Get(r) \/ Post(r) \/ GateKnows(r) \/ GateLoads(r) \/ GateStores(r)
  PROVE  ConfigInv'
<1> USE DEF storeVars
<1>1. Readable' /\ InStep' /\ OwnCopy'
  <2>1. CASE Get(r) \/ GateKnows(r) \/ GateLoads(r)
    BY <2>1, OthersKeep DEF Get, GateKnows, GateLoads
  <2>2. CASE Post(r)
    BY <2>2, OthersKeep DEF Post
  <2>3. CASE GateStores(r)
    BY <2>3, OthersKeep DEF GateStores
  <2>4. QED
    BY <2>1, <2>2, <2>3
<1>2. ReadsHeld'
  <2>1. CASE Get(r) \/ Post(r)
    BY <2>1, HoldsOn DEF Get, Post, Missed, ConfigInv
  <2>2. CASE GateKnows(r) \/ GateStores(r)
    <3>1. PICK x \in {"admitted", "idle"} : phase' = [phase EXCEPT ![r] = x]
      BY <2>2 DEF GateKnows, GateStores, Decide
    <3>2. read' = read \/ read' = [read EXCEPT ![r] = None]
      BY <2>2 DEF GateKnows, GateStores
    <3>3. QED
      BY <3>1, <3>2, HoldsOn DEF ConfigInv, Missed
  <2>3. CASE GateLoads(r)
    <3>1. CASE cache # None
      <4>1. /\ \E x \in {"loadedPost", "loadedGet"} : phase' = [phase EXCEPT ![r] = x]
            /\ read' = [read EXCEPT ![r] = cache]
        BY <2>3, <3>1 DEF GateLoads
      <4>2. QED
        BY <4>1, HoldsOn DEF ConfigInv, Missed
    <3>2. CASE cache = None
      <4>1. PICK x \in Missed :
               phase' = [phase EXCEPT ![r] = x] /\ read' = [read EXCEPT ![r] = LoadFile]
        BY <2>3, <3>2 DEF GateLoads, Missed
      <4>2. IsConfig(LoadFile)
        BY LoadedConfig DEF ConfigInv
      <4>3. QED
        BY <4>1, <4>2 DEF ConfigInv, ReadsHeld
    <3>3. QED
      BY <3>1, <3>2
  <2>4. QED
    BY <2>1, <2>2, <2>3
<1>3. QED
  BY <1>1, <1>2 DEF ConfigInv

\* The handlers of an admitted request, which end it.
LEMMA AdmittedKeeps ==
  ASSUME ConfigInv, Free, NEW r \in Requests,
         \/ \E u \in Updates : ConfigSave(r, u)
         \/ \E p, q \in Passwords : DashboardPassword(r, p, q)
         \/ ServiceByHand(r) \/ Provision(r)
  PROVE  ConfigInv'
<1> USE DEF storeVars
<1>1. up /\ ~reloading
  BY DEF Free
<1>2. Readable' /\ InStep' /\ OwnCopy'
  <2>1. CASE \E u \in Updates : ConfigSave(r, u)
    BY <1>1, <2>1, SaveKeeps, OthersKeep DEF ConfigSave
  <2>2. CASE \E p, q \in Passwords : DashboardPassword(r, p, q)
    BY <1>1, <2>2, SaveKeeps, OthersKeep DEF DashboardPassword
  <2>3. CASE ServiceByHand(r) \/ Provision(r)
    BY <2>3, OthersKeep DEF ServiceByHand, Provision
  <2>4. QED
    BY <2>1, <2>2, <2>3
<1>3. ReadsHeld'
  <2>1. phase' = [phase EXCEPT ![r] = "idle"] /\ read' = read
    BY DEF ConfigSave, DashboardPassword, ServiceByHand, Provision, Done
  <2>2. QED
    BY <2>1, HoldsOn DEF ConfigInv, Missed
<1>4. QED
  BY <1>2, <1>3 DEF ConfigInv

\* Every step keeps ConfigInv.
LEMMA NextConfig == ConfigInv /\ [Next]_vars => ConfigInv'
<1> SUFFICES ASSUME ConfigInv, [Next]_vars PROVE ConfigInv'
  OBVIOUS
<1> USE DEF storeVars, gateVars
<1>1. ASSUME NEW r \in Requests, ServiceByHand(r) \/ Provision(r) PROVE ConfigInv'
  BY <1>1, AdmittedKeeps DEF ServiceByHand, Provision
<1>2. CASE Free /\ Handler
  <2>1. ASSUME NEW p \in Passwords, Login(p) PROVE ConfigInv'
    <3>1. Readable' /\ InStep' /\ OwnCopy'
      BY <2>1, OthersKeep DEF Login
    <3>2. ReadsHeld'
      BY <2>1 DEF ConfigInv, ReadsHeld, Login
    <3>3. QED
      BY <3>1, <3>2 DEF ConfigInv
  <2>2. QED
    BY <1>2, <2>1, AdmittedKeeps, GateKeeps DEF Handler
<1>3. CASE SessionGoes \/ Flush \/ RwFlips \/ UNCHANGED configVars
  <2>1. Readable' /\ InStep' /\ OwnCopy'
    BY <1>3, OthersKeep DEF SessionGoes, Flush, RwFlips, configVars
  <2>2. ReadsHeld'
    BY <1>3 DEF ConfigInv, ReadsHeld, SessionGoes, Flush, RwFlips, configVars
  <2>3. QED
    BY <2>1, <2>2 DEF ConfigInv
<1>4. CASE WebStops \/ PowerCut
  BY <1>4, EndKeeps DEF WebStops, PowerCut
<1>5. QED
  BY <1>1, <1>2, <1>3, <1>4, StartKeeps, EditKeeps, ReloadKeeps, CachesKeeps, GateKeeps
  DEF Next, Around, vars

\* ConfigInv holds in every reachable state.
THEOREM ConfigInvariant == Spec => []ConfigInv
  BY InitConfig, NextConfig, PTL DEF Spec

\* SavedStays: save_config() never loses a setting of an earlier save, whatever
\* the pages send, however often, and whenever the service or the power goes,
\* unless the file is edited by hand or a worker thread caches an old reading.
THEOREM SavesAreKept == Spec => []SavedStays
<1>1. ConfigInv => SavedStays
  BY DEF ConfigInv, InStep, SavedStays
<1>2. QED
  BY ConfigInvariant, <1>1, PTL

\* GateStays: require_auth() decides by the settings on file, unless its thread
\* straddled a save or the save is still under way.
THEOREM GateHolds == Spec => GateStays
<1> DEFINE Stays == \A r \in Requests :
                      (GateKnows(r) \/ GateStores(r)) /\ passed' => astray \/ raced' \/ reloading
<1>1. ConfigInv => Stays
  <2> SUFFICES ASSUME ConfigInv, NEW r \in Requests, passed', ~astray, ~raced', ~reloading,
                      GateKnows(r) \/ GateStores(r)
               PROVE  FALSE
    OBVIOUS
  <2>1. ASSUME NEW c, NEW post, Decide(r, c, post), c = file PROVE FALSE
    BY <2>1 DEF Decide
  <2>2. up /\ cache = file
    BY DEF ConfigInv, InStep, GateKnows, GateStores
  <2>3. CASE GateKnows(r)
    BY <2>1, <2>2, <2>3 DEF ConfigInv, OwnCopy, GateKnows
  <2>4. CASE GateStores(r)
    BY <2>1, <2>2, <2>4 DEF GateStores
  <2>5. QED
    BY <2>3, <2>4
<1>2. QED
  BY ConfigInvariant, <1>1, PTL DEF GateStays

-----------------------------------------------------------------------------
(* The maintenance workflow.                                               *)

\* While nothing has failed: a root filesystem that is read-only at boot may be
\* writable between the two remounts and at no other time, and the second comes
\* whenever the first was tried; the workflow ends with the bridge started or a
\* reboot under way.
ProvInv ==
  /\ step \in {"idle", "stop", "rw", "act", "ro", "finish", "restart", "reboot"}
  /\ home \in {"ro", "rw"} /\ root \in {"ro", "rw"}
  /\ step \in {"rw", "ro"} => needs
  /\ ~fault => /\ home = "ro" => root = "ro" \/ (step \in {"act", "ro"} /\ needs)
               /\ step = "idle" => bridge \/ reboot

\* Every step of the workflow, a cut and a reboot keep ProvInv.
LEMMA NextProv == ProvInv /\ [Next]_vars => ProvInv'
<1> SUFFICES ASSUME ProvInv, [Next]_vars PROVE ProvInv'
  OBVIOUS
<1> USE DEF ProvInv, locals, Returns
<1>1. CASE Begin
  BY <1>1 DEF Begin
<1>2. CASE StopBridge
  BY <1>2 DEF StopBridge
<1>3. CASE RemountRw
  BY <1>3 DEF RemountRw
<1>4. CASE Act
  BY <1>4 DEF Act
<1>5. CASE RemountRo
  BY <1>5 DEF RemountRo
<1>6. CASE Finish
  BY <1>6 DEF Finish
<1>7. CASE RestartBridge
  BY <1>7 DEF RestartBridge
<1>8. CASE ScheduleReboot
  BY <1>8 DEF ScheduleReboot
<1>9. ASSUME NEW on \in BOOLEAN, BridgeByHand(on) PROVE ProvInv'
  BY <1>9 DEF BridgeByHand
<1>10. CASE WorkflowCut
  BY <1>10 DEF WorkflowCut
<1>11. CASE Reboots
  BY <1>11 DEF Reboots
<1>12. CASE UNCHANGED provVars
  BY <1>12 DEF provVars
<1>13. QED
  BY <1>1, <1>2, <1>3, <1>4, <1>5, <1>6, <1>7, <1>8, <1>9, <1>10, <1>11, <1>12
  DEF Next, Workflow, Provision, ServiceByHand, vars

\* UnitRestored: whatever failed in pair, trust, untrust or remove, whatever
\* needs_remount was and though a failed remount may pass for a success, the
\* workflow leaves no read-only unit writable and the bridge running, or
\* reboots.
THEOREM Restored == Spec => []UnitRestored
<1>1. Init => ProvInv
  BY DEF Init, ProvInit, ProvInv
<1>2. ProvInv => UnitRestored
  BY DEF ProvInv, UnitRestored
<1>3. QED
  BY <1>1, <1>2, NextProv, PTL DEF Spec

(***************************************************************************)
(* The display.  It shares nothing with the state above but the power-off, *)
(* which its own module models.                                            *)
(***************************************************************************)

\* Between the two halves of set_off(True) the first one has been done, unless
\* the WiFi thread has undone it.
DarkenInv == life = "run" /\ ~crossed /\ pc = "darken" => off

PanelInv == PanelTrue /\ DarkenInv

\* As long as a press that only wakes is held, _swallow is set: whichever of the
\* countdown, the setup and the saver have looked at the buttons meanwhile.
PressInv == (woke => swallow) /\ ~misfired

(***************************************************************************)
(* The panel.                                                              *)
(***************************************************************************)

\* install_tick() lights the panel, shows the splash or leaves it alone.
LEMMA PanelSetup == ASSUME PanelInv, Setup PROVE PanelInv'
<1> USE DEF PanelInv, PanelTrue, DarkenInv, Running
<1>1. /\ life' = life /\ crossed' = crossed /\ pc' # "darken"
  BY DEF Setup
<1>2. \/ Lit
      \/ off' = FALSE /\ asleep' = (asleep /\ ~off) /\ saver' = saver
      \/ UNCHANGED <<off, saver, asleep>>
  BY DEF Setup
<1>3. CASE Lit
  BY <1>1, <1>3 DEF Lit
<1>4. CASE off' = FALSE /\ asleep' = (asleep /\ ~off) /\ saver' = saver
  BY <1>1, <1>4
<1>5. CASE UNCHANGED <<off, saver, asleep>>
  BY <1>1, <1>5
<1>6. QED
  BY <1>2, <1>3, <1>4, <1>5

\* The passes of the loop that neither end nor start a Display.
LEMMA PanelLoop ==
  ASSUME PanelInv, Top \/ Setup \/ ButtonPass \/ Darken \/ SaverPass
  PROVE  PanelInv'
<1> USE DEF PanelInv, PanelTrue, DarkenInv, Running
<1>1. CASE Top
  <2>1. life' = life /\ crossed' = crossed /\ pc' # "darken"
    BY <1>1 DEF Top
  <2>2. Lit \/ UNCHANGED <<off, saver, asleep>>
    BY <1>1 DEF Top, ShutdownTick
  <2>3. CASE Lit
    BY <2>1, <2>3 DEF Lit
  <2>4. CASE UNCHANGED <<off, saver, asleep>>
    BY <2>1, <2>4
  <2>5. QED
    BY <2>2, <2>3, <2>4
<1>2. CASE Setup
  BY <1>2, PanelSetup
<1>3. CASE ButtonPass
  <2>1. PICK l \in [Buttons -> BOOLEAN] : Swallowed(l) \/ Pressed(l)
    BY <1>3 DEF ButtonPass
  <2>2. life' = life /\ crossed' = crossed
    BY <1>3 DEF ButtonPass
  <2>3. CASE Swallowed(l)
    BY <2>2, <2>3 DEF Swallowed
  <2>4. CASE Pressed(l)
    <3>1. PICK a, b \in BOOLEAN :
            /\ off' = IF b THEN ~(off /\ ~a) ELSE off /\ ~a
            /\ pc' = IF b /\ ~(off /\ ~a) THEN "darken" ELSE "saver"
            /\ asleep' = (asleep /\ ~(off /\ (a \/ b))) /\ saver' = saver
      BY <2>4, Zenon DEF Pressed
    <3>2. QED
      BY <2>2, <3>1
  <2>5. QED
    BY <2>1, <2>3, <2>4
<1>4. CASE Darken
  BY <1>4 DEF Darken
<1>5. CASE SaverPass
  BY <1>5 DEF SaverPass, SaverTick
<1>6. QED
  BY <1>1, <1>2, <1>3, <1>4, <1>5

\* A Display that ends is not running, and a new one has a lit panel.
LEMMA PanelLife ==
  ASSUME PanelInv, Terminated \/ Leaves \/ Opens \/ Restarts
  PROVE  PanelInv'
<1> USE DEF PanelInv, PanelTrue, DarkenInv
<1>1. CASE Terminated \/ Leaves
  BY <1>1 DEF Terminated, Leaves
<1>2. CASE Opens \/ Restarts
  BY <1>2 DEF Opens, Restarts, Fresh, Blank
<1>3. QED
  BY <1>1, <1>2

\* The threads light the panel if they touch it, the unit never does.
LEMMA PanelBeside ==
  ASSUME PanelInv, WifiShow \/ SplashEnds \/ Frame
                   \/ Outside \/ NoticeAges
  PROVE  PanelInv'
<1> USE DEF PanelInv, PanelTrue, DarkenInv
<1>1. CASE WifiShow
  BY <1>1 DEF WifiShow, threadFrame
<1>2. CASE SplashEnds \/ Frame
  BY <1>2 DEF SplashEnds, Frame, threadFrame
<1>3. CASE Outside \/ NoticeAges
  BY <1>3 DEF Outside, Shutdown, Cancel, WebRestarts, Stops, SetupWrites, NoticeAges,
              unitFrame, panelVars
<1>4. QED
  BY <1>1, <1>2, <1>3

\* PanelTrue: whichever of the loop, the countdown, the setup screen and the
\* WiFi thread touched the panel last, it is dark only when self.off or
\* self.saver says so, unless a WiFi splash fell between the two halves of
\* set_off(True).
THEOREM PanelKnown == DisplaySpec => []PanelTrue
<1>1. DisplayInit => PanelInv
  BY DEF DisplayInit, PanelInv, PanelTrue, DarkenInv
<1>2. PanelInv /\ [DisplayNext]_displayVars => PanelInv'
  <2> SUFFICES ASSUME PanelInv, [DisplayNext]_displayVars PROVE PanelInv'
    OBVIOUS
  <2>1. CASE UNCHANGED displayVars
    BY <2>1 DEF displayVars, panelVars, PanelInv, PanelTrue, DarkenInv
  <2>2. CASE DisplayNext
    BY <2>2, PanelLoop, PanelLife, PanelBeside DEF DisplayNext, MainLoop
  <2>3. QED
    BY <2>1, <2>2
<1>3. PanelInv => PanelTrue
  BY DEF PanelInv
<1>4. QED
  BY <1>1, <1>2, <1>3, PTL DEF DisplaySpec

(***************************************************************************)
(* The types.                                                              *)
(***************************************************************************)

Levels == [Buttons -> BOOLEAN]

\* TypeOK by parts: the loop, the panel, the buttons and the unit.
LoopTypes ==
  /\ life \in {"run", "kept", "idle"}
  /\ pc \in {"top", "setup", "buttons", "darken", "saver"}
  /\ saver \in {"none", "worm", "blank"}
  /\ install \in {"none", "active", "failed"} /\ painted \in {"none", "active", "failed"}
PanelTypes ==
  /\ off \in BOOLEAN /\ asleep \in BOOLEAN /\ shown \in BOOLEAN /\ splash \in BOOLEAN
  /\ fresh \in BOOLEAN /\ traffic \in BOOLEAN /\ countdown \in BOOLEAN /\ drawn \in BOOLEAN
  /\ crossed \in BOOLEAN /\ wifi \in BOOLEAN /\ dismissed \in BOOLEAN
PressTypes ==
  /\ prev \in Levels /\ down \in Levels /\ fired \in Levels
  /\ swallow \in BOOLEAN /\ woke \in BOOLEAN /\ misfired \in BOOLEAN
UnitTypes ==
  /\ setup \in Setups /\ notice \in {"none", "counting", "past", "stale"}
  /\ poweroff \in BOOLEAN /\ term \in BOOLEAN /\ events \in 0..MaxEvents
  /\ system \in {"up", "poweroff", "reboot"}

\* They make up TypeOK.
LEMMA TypeParts == DisplayTypeOK <=> LoopTypes /\ PanelTypes /\ PressTypes /\ UnitTypes
  BY DEF DisplayTypeOK, LoopTypes, PanelTypes, PressTypes, UnitTypes, Levels

\* Only the unit's own events and a restart change the unit.
LEMMA TypeUnit == ASSUME UnitTypes, DisplayNext PROVE UnitTypes'
<1> USE DEF UnitTypes
<1>1. CASE Outside
  <2>1. events' \in 0..MaxEvents
    BY <1>1, EventsAssumption DEF Outside
  <2>2. QED
    BY <1>1, <2>1 DEF Outside, Shutdown, Cancel, WebRestarts, Stops, SetupWrites, webVars
<1>2. CASE NoticeAges
  BY <1>2 DEF NoticeAges
<1>3. CASE Restarts
  BY <1>3 DEF Restarts, webVars
<1>4. CASE MainLoop
  BY <1>4 DEF MainLoop, Terminated, Top, Setup, ButtonPass, Darken, SaverPass, webVars
<1>5. CASE Leaves \/ Opens \/ WifiShow \/ SplashEnds \/ Frame
  BY <1>5 DEF Leaves, Opens, WifiShow, SplashEnds, Frame, threadFrame, webVars
<1>6. QED
  BY <1>1, <1>2, <1>3, <1>4, <1>5 DEF DisplayNext

\* The loop goes through its steps, and install_tick() takes what is on file.
LEMMA TypeLoop ==
  ASSUME LoopTypes, setup \in Setups, DisplayNext
  PROVE  LoopTypes'
<1> USE DEF LoopTypes
<1>1. CASE Terminated \/ Leaves \/ Opens \/ Restarts
  BY <1>1 DEF Terminated, Leaves, Opens, Restarts, Fresh, Blank
<1>2. CASE Top
  BY <1>2 DEF Top, ShutdownTick, Lit
<1>3. CASE Setup
  <2>1. SetupSeen \subseteq Setups
    BY DEF SetupSeen, Setups
  <2>2. QED
    BY <1>3, <2>1 DEF Setup, Lit, DrawInstall, Setups
<1>4. CASE ButtonPass
  BY <1>4 DEF ButtonPass, Swallowed, Pressed
<1>5. CASE Darken \/ SaverPass
  BY <1>5 DEF Darken, SaverPass, SaverTick
<1>6. CASE WifiShow \/ SplashEnds \/ Frame
  BY <1>6 DEF WifiShow, SplashEnds, Frame, threadFrame
<1>7. CASE Outside \/ NoticeAges
  BY <1>7 DEF Outside, Shutdown, Cancel, WebRestarts, Stops, SetupWrites, NoticeAges,
              unitFrame, panelVars
<1>8. QED
  BY <1>1, <1>2, <1>3, <1>4, <1>5, <1>6, <1>7 DEF DisplayNext, MainLoop

\* What is on the panel, whoever touches it.
LEMMA TypePanel == ASSUME PanelTypes, DisplayNext PROVE PanelTypes'
<1> USE DEF PanelTypes
<1>1. CASE Terminated \/ Leaves \/ Opens \/ Restarts
  <2>1. CASE Terminated
    BY <2>1, Zenon DEF Terminated, Blank
  <2>2. CASE Leaves \/ Opens \/ Restarts
    BY <2>2 DEF Leaves, Opens, Restarts, Fresh, Blank
  <2>3. QED
    BY <1>1, <2>1, <2>2
<1>2. CASE Top
  <2>1. countdown' \in BOOLEAN
    BY <1>2 DEF Top, ShutdownTick, Pending
  <2>2. /\ off' \in BOOLEAN /\ asleep' \in BOOLEAN /\ splash' \in BOOLEAN
        /\ fresh' \in BOOLEAN
    <3>1. CASE Lit /\ splash' = FALSE /\ fresh' = TRUE
      BY <3>1, Zenon DEF Lit
    <3>2. CASE fresh' = (countdown /\ ~Pending) /\ UNCHANGED <<off, asleep, splash>>
      BY <3>2, Zenon
    <3>3. QED
      BY <1>2, <3>1, <3>2 DEF Top, ShutdownTick
  <2>3. drawn' \in BOOLEAN /\ shown' \in BOOLEAN
    <3>1. CASE DrawShutdown
      BY <3>1, Zenon DEF DrawShutdown
    <3>2. CASE drawn' = FALSE /\ shown' = shown
      BY <3>2
    <3>3. QED
      BY <1>2, <3>1, <3>2 DEF Top
  <2>4. UNCHANGED <<traffic, crossed, wifi, dismissed>>
    BY <1>2 DEF Top
  <2>5. QED
    BY <2>1, <2>2, <2>3, <2>4
<1>3. CASE Setup
  <2>1. off' \in BOOLEAN /\ asleep' \in BOOLEAN /\ splash' \in BOOLEAN
    <3>1. CASE Lit /\ UNCHANGED splash
      BY <3>1, Zenon DEF Lit
    <3>2. CASE splash' = TRUE /\ off' = FALSE /\ asleep' = (asleep /\ ~off)
      BY <3>2, Zenon
    <3>3. CASE UNCHANGED <<off, asleep, splash>>
      BY <3>3
    <3>4. QED
      BY <1>3, <3>1, <3>2, <3>3 DEF Setup
  <2>2. shown' \in BOOLEAN /\ fresh' \in BOOLEAN /\ dismissed' \in BOOLEAN
    BY <1>3 DEF Setup, DrawInstall
  <2>3. UNCHANGED <<traffic, countdown, drawn, crossed, wifi>>
    BY <1>3 DEF Setup
  <2>4. QED
    BY <2>1, <2>2, <2>3
<1>4. CASE ButtonPass
  <2>1. PICK l \in [Buttons -> BOOLEAN] :
          /\ Swallowed(l) \/ Pressed(l)
          /\ fresh' = (fresh \/ Wakes(l) \/ \E x \in Buttons : l[x] /\ ~prev[x])
    BY <1>4 DEF ButtonPass
  <2>2. fresh' \in BOOLEAN
    BY <2>1, Zenon
  <2>3. off' \in BOOLEAN /\ asleep' \in BOOLEAN /\ splash' \in BOOLEAN /\ wifi' \in BOOLEAN
    <3>1. CASE Swallowed(l)
      BY <3>1 DEF Swallowed
    <3>2. CASE Pressed(l)
      BY <3>2 DEF Pressed
    <3>3. QED
      BY <2>1, <3>1, <3>2
  <2>4. UNCHANGED <<shown, traffic, countdown, drawn, dismissed, crossed>>
    BY <1>4 DEF ButtonPass
  <2>5. QED
    BY <2>2, <2>3, <2>4
<1>5. CASE Darken \/ SaverPass
  <2>1. asleep' \in BOOLEAN
    BY <1>5 DEF Darken, SaverPass, SaverTick
  <2>2. shown' \in BOOLEAN
    BY <1>5 DEF Darken, SaverPass, Draw
  <2>3. fresh' \in BOOLEAN /\ traffic' \in BOOLEAN
    BY <1>5 DEF Darken, SaverPass
  <2>4. UNCHANGED <<off, splash, countdown, drawn, crossed, wifi, dismissed>>
    BY <1>5 DEF Darken, SaverPass
  <2>5. QED
    BY <2>1, <2>2, <2>3, <2>4
<1>6. CASE WifiShow \/ SplashEnds \/ Frame
  <2>1. CASE WifiShow
    <3>1. asleep' \in BOOLEAN /\ crossed' \in BOOLEAN
      BY <2>1 DEF WifiShow
    <3>2. /\ off' = FALSE /\ shown' = FALSE /\ splash' = TRUE /\ wifi' = FALSE
          /\ UNCHANGED <<fresh, traffic, countdown, drawn, dismissed>>
      BY <2>1 DEF WifiShow, threadFrame
    <3>3. QED
      BY <3>1, <3>2
  <2>2. CASE SplashEnds \/ Frame
    <3>1. splash' \in BOOLEAN /\ traffic' \in BOOLEAN
      BY <2>2 DEF SplashEnds, Frame
    <3>2. UNCHANGED <<off, asleep, shown, fresh, countdown, drawn, crossed, wifi, dismissed>>
      BY <2>2 DEF SplashEnds, Frame, threadFrame
    <3>3. QED
      BY <3>1, <3>2
  <2>3. QED
    BY <1>6, <2>1, <2>2
<1>7. CASE Outside \/ NoticeAges
  <2>1. dismissed' \in BOOLEAN
    BY <1>7 DEF Outside, Shutdown, Cancel, WebRestarts, Stops, SetupWrites, NoticeAges
  <2>2. UNCHANGED unitFrame
    BY <1>7 DEF Outside, Shutdown, Cancel, WebRestarts, Stops, SetupWrites, NoticeAges
  <2>3. QED
    BY <2>1, <2>2 DEF unitFrame, panelVars
<1>8. QED
  BY <1>1, <1>2, <1>3, <1>4, <1>5, <1>6, <1>7 DEF DisplayNext, MainLoop

\* A held press that only wakes stays swallowed: on_buttons() keeps _swallow
\* until both buttons are up, and Setup sets it with the press that closes.
LEMMA PressStep == ASSUME PressTypes, PressInv, DisplayNext PROVE PressTypes' /\ PressInv'
<1> USE DEF PressTypes, PressInv, Levels
<1>1. CASE Terminated \/ Leaves \/ Opens \/ Restarts
  <2>1. Blank
    BY <1>1 DEF Terminated, Leaves, Opens, Restarts, Fresh
  <2>2. prev' \in Levels /\ down' \in Levels /\ fired' \in Levels
    BY <2>1 DEF Blank, Idle
  <2>3. swallow' = FALSE /\ woke' = FALSE /\ misfired' = misfired
    BY <2>1 DEF Blank
  <2>4. QED
    BY <2>2, <2>3, Zenon
<1>2. CASE Top
  BY <1>2, Zenon DEF Top, pressVars
<1>3. CASE Setup
  BY <1>3, Zenon DEF Setup
<1>4. CASE ButtonPass
  <2>1. PICK l \in Levels : (Swallowed(l) \/ Pressed(l)) /\ prev' = l
    BY <1>4 DEF ButtonPass
  <2>2. CASE Swallowed(l)
    BY <2>1, <2>2, Zenon DEF Swallowed, StaysSwallowed, Idle
  <2>3. CASE Pressed(l)
    <3>1. swallow' = swallow /\ ~swallow /\ ~woke
      BY <2>3 DEF Pressed
    <3>2. down' \in Levels /\ fired' \in Levels
      BY <2>1, <2>3, Zenon DEF Pressed
    <3>3. ~misfired' /\ ~woke' /\ misfired' \in BOOLEAN /\ woke' \in BOOLEAN
      BY <2>3, <3>1, Zenon DEF Pressed
    <3>4. QED
      BY <2>1, <3>1, <3>2, <3>3
  <2>4. QED
    BY <2>1, <2>2, <2>3
<1>5. CASE Darken \/ SaverPass
  BY <1>5 DEF Darken, SaverPass, pressVars
<1>6. CASE WifiShow \/ SplashEnds \/ Frame
  BY <1>6 DEF WifiShow, SplashEnds, Frame, threadFrame, pressVars
<1>7. CASE Outside \/ NoticeAges
  BY <1>7 DEF Outside, Shutdown, Cancel, WebRestarts, Stops, SetupWrites, NoticeAges,
              unitFrame, pressVars
<1>8. QED
  BY <1>1, <1>2, <1>3, <1>4, <1>5, <1>6, <1>7 DEF DisplayNext, MainLoop

\* Every step of the display, its threads and the unit keeps the types.
LEMMA TypeStep ==
  ASSUME DisplayTypeOK, PressInv, [DisplayNext]_displayVars
  PROVE  DisplayTypeOK' /\ PressInv'
<1>1. CASE DisplayNext
  <2>1. LoopTypes' /\ PanelTypes' /\ PressTypes' /\ UnitTypes' /\ PressInv'
    BY <1>1, TypeParts, TypeUnit, TypeLoop, TypePanel, PressStep DEF UnitTypes
  <2>2. QED
    BY <2>1 DEF DisplayTypeOK, LoopTypes, PanelTypes, PressTypes, UnitTypes, Levels
<1>2. CASE UNCHANGED displayVars
  BY <1>2 DEF displayVars, panelVars, pressVars, webVars, DisplayTypeOK, PressInv
<1>3. QED
  BY <1>1, <1>2

\* The display starts with nothing pressed.
LEMMA PressInit == DisplayInit => PressTypes /\ PressInv
  BY DEF DisplayInit, Idle, PressTypes, PressInv, Levels

\* Type correctness of the display, for any number of events.
THEOREM DisplayTypeCorrect == DisplaySpec => []DisplayTypeOK
<1>1. DisplayInit => DisplayTypeOK /\ PressInv
  <2>1. DisplayInit => LoopTypes /\ PanelTypes /\ UnitTypes
    <3>1. DisplayInit => LoopTypes /\ PanelTypes
      BY DEF DisplayInit, LoopTypes, PanelTypes
    <3>2. 0 \in 0..MaxEvents
      BY EventsAssumption
    <3>3. DisplayInit => UnitTypes
      BY <3>2 DEF DisplayInit, Setups, UnitTypes
    <3>4. QED
      BY <3>1, <3>3
  <2>2. QED
    BY <2>1, PressInit, TypeParts
<1>2. (DisplayTypeOK /\ PressInv) /\ [DisplayNext]_displayVars => (DisplayTypeOK /\ PressInv)'
  BY TypeStep
<1>3. QED
  BY <1>1, <1>2, PTL DEF DisplaySpec

\* A press that wakes the screen saver or closes the failed setup screen does
\* nothing else until both buttons are up: on_buttons() swallows it, through
\* any number of countdowns, setups and splashes in the life of the Display it
\* woke.  A new Display takes a button still held for a new press.
THEOREM WakesOnly == DisplaySpec => []OnlyWakes
<1> DEFINE I == PressTypes /\ PressInv
<1>1. DisplayInit => I
  BY PressInit
<1>2. I /\ [DisplayNext]_displayVars => I'
  <2>1. I /\ UNCHANGED displayVars => I'
    BY DEF displayVars, pressVars, PressTypes, PressInv
  <2>2. QED
    BY <2>1, PressStep
<1>3. I => OnlyWakes
  BY DEF PressInv, OnlyWakes
<1>4. QED
  BY <1>1, <1>2, <1>3, PTL DEF DisplaySpec
=============================================================================
