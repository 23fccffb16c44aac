----------------------------- MODULE WebConfig -----------------------------
(***************************************************************************)
(* The settings of the unit and the gate in front of the dashboard.        *)
(*                                                                         *)
(* config.yaml is cached twice in the web process: _config_cache of        *)
(* common/config.py, emptied and filled again by every save, and _config   *)
(* of web_app.py, dropped by every save and filled by whoever asks next.   *)
(* Handlers run on the event loop; require_auth() is a plain function, so  *)
(* FastAPI runs it on a worker thread, and its "is it None? load it, store *)
(* it", of either cache, may straddle a save.  The file is replaced by a   *)
(* rename of a synced copy; a power cut leaves one whole version or the    *)
(* other.                                                                  *)
(***************************************************************************)
EXTENDS Naturals

CONSTANTS
  Requests,       \* dashboard requests in flight at the same time
  Passwords,      \* dashboard passwords (in the file: their scrypt hashes)
  None,           \* no value: an empty cache, no password, no cookie
  Updates,        \* what the Config page may send to /api/config/save
  CallSigns,      \* well formed callsigns
  UsedPorts,      \* TCP ports of the other services of the unit
  MaxSaves        \* bound on the saves of a behaviour

ASSUME ConfigAssumption ==
  /\ None \notin Passwords
  /\ UsedPorts \subseteq Nat /\ MaxSaves \in Nat

VARIABLES
  file,           \* config.yaml as a reader sees it now
  disk,           \* the version of config.yaml a power cut leaves
  cache,          \* _config_cache of common/config.py
  reloading,      \* the event loop is in reload_config() after a rename
  cfg,            \* _config of web_app.py
  up,             \* the web service runs
  rw,             \* /rw/kp4pra-tnc is writable
  phase,          \* where each dashboard request is
  read,           \* what its require_auth() has loaded and not stored yet
  keyFile,        \* session.key exists
  cookie,         \* the key that signed the browser's session, if it has one
  saves,          \* saves so far
  saved,          \* history: the settings the user was told are saved
  kept,           \* history: the value of saved that disk corresponds to
  astray,         \* history: since the last start the file was edited by hand or
                  \* a worker thread put an old reading of it into the cache
  raced,          \* history: a require_auth() straddled the last save
  passed          \* history: the last gate let a request in without a session
                  \* although the file has a password

configVars == <<file, disk, cache, reloading, cfg, up, rw, phase, read, keyFile, cookie,
                saves, saved, kept, astray, raced, passed>>
gateVars == <<phase, read, passed>>
storeVars == <<file, disk, saves, saved, kept, astray>>

NoCall == "N0CALL"      \* the callsign of an unconfigured unit
Unreadable == [bad |-> TRUE]

\* DEFAULT_CONFIG, cut down to the settings the properties tell apart
Defaults == [call |-> NoCall, pw |-> None,
             rms |-> [on |-> FALSE, call |-> ""], port |-> 8300]

Configs == [call : CallSigns \cup {NoCall}, pw : Passwords \cup {None},
            rms : [on : BOOLEAN, call : CallSigns \cup {""}], port : Nat]

\* _deep_merge(): the override wins field by field, the rest stays
Merge(base, override) ==
  [f \in DOMAIN base |-> IF f \in DOMAIN override THEN override[f] ELSE base[f]]

\* load_config() with an empty cache: the file over the defaults, or the
\* defaults when it is missing or is not YAML
LoadFile == IF file = Unreadable THEN Defaults ELSE Merge(Defaults, file)

\* validate_config_updates().  Every section has its own ranges and patterns,
\* here those of the callsign, the RMS call and Xara's port stand for them;
\* two checks look at more than one value: an enabled RMS needs its call, and
\* Xara takes its port and the next one
ValidStation(u) == "call" \in DOMAIN u => u.call \in CallSigns \cup {NoCall}

ValidRms(u) ==
  "rms" \in DOMAIN u => /\ u.rms.call \in CallSigns \cup {""}
                        /\ u.rms.on => u.rms.call # ""

ValidXara(u) ==
  "port" \in DOMAIN u => /\ u.port \in 1024..65534
                         /\ {u.port, u.port + 1} \cap UsedPorts = {}

Valid(u) == ValidStation(u) /\ ValidRms(u) /\ ValidXara(u)

ConfigInit ==
  /\ file = Defaults /\ disk = Defaults /\ cache = Defaults /\ cfg = None
  /\ reloading = FALSE
  /\ up = TRUE /\ rw = TRUE
  /\ phase = [r \in Requests |-> "idle"] /\ read = [r \in Requests |-> None]
  /\ keyFile = FALSE /\ cookie = None
  /\ saves = 0 /\ saved = Defaults /\ kept = Defaults
  /\ astray = FALSE /\ raced = FALSE /\ passed = FALSE

-----------------------------------------------------------------------------
\* Sessions.

\* _secret_key(): the key of the file, made on first use, or a random one of
\* this process while the directory cannot be written
SecretKey == IF keyFile \/ rw THEN "kept" ELSE "temp"

\* session_valid(): the cookie was signed with the key of now
SessionValid == cookie # None /\ cookie = SecretKey

\* get_config() on the event loop
GetConfig == IF cfg # None THEN cfg ELSE cache

\* login_submit(): the password is right, and the browser gets a session
Login(p) ==
  /\ up
  /\ cfg' = GetConfig
  /\ GetConfig.pw = p
  /\ cookie' = SecretKey
  /\ keyFile' = (keyFile \/ rw)
  /\ UNCHANGED <<storeVars, gateVars, cache, reloading, up, rw, raced>>

\* logout(), or the session is older than SESSION_TTL
SessionGoes ==
  /\ cookie # None
  /\ cookie' = None
  /\ UNCHANGED <<storeVars, gateVars, cache, cfg, reloading, up, rw, keyFile, raced>>

-----------------------------------------------------------------------------
\* The gate.  A GET goes straight to require_auth(); a POST passes
\* csrf_middleware() first, which calls get_config() on the event loop (the
\* pages send the token, so the middleware lets them on).

Get(r) ==
  /\ up /\ phase[r] = "idle"
  /\ phase' = [phase EXCEPT ![r] = "get"]
  /\ UNCHANGED <<storeVars, cache, cfg, reloading, up, rw, read, keyFile, cookie, raced, passed>>

Post(r) ==
  /\ up /\ phase[r] = "idle"
  /\ cfg' = GetConfig
  /\ phase' = [phase EXCEPT ![r] = "post"]
  /\ UNCHANGED <<storeVars, cache, reloading, up, rw, read, keyFile, cookie, raced, passed>>

\* require_auth() decides on the settings c
Decide(r, c, post) ==
  LET ok == c.pw = None \/ SessionValid
  IN  /\ phase' = [phase EXCEPT ![r] = IF ok /\ post THEN "admitted" ELSE "idle"]
      /\ passed' = (ok /\ ~SessionValid /\ file # Unreadable /\ file.pw # None)
      /\ keyFile' = (keyFile \/ (cookie # None /\ c.pw # None /\ rw))

\* get_config() on the worker thread: _config is there, and decides
GateKnows(r) ==
  /\ up /\ phase[r] \in {"get", "post"} /\ cfg # None
  /\ Decide(r, cfg, phase[r] = "post")
  /\ UNCHANGED <<storeVars, cache, cfg, reloading, up, rw, read, cookie, raced>>

\* ... or it is None, and the thread has load_config()'s answer in hand: the
\* cached settings or, in the middle of a reload, what it has read from the
\* file itself (when the cache is emptied between its test and its answer,
\* auth_required() calls it again)
GateLoads(r) ==
  /\ up /\ phase[r] \in {"get", "post"} /\ cfg = None
  /\ IF cache # None
     THEN /\ read' = [read EXCEPT ![r] = cache]
          /\ phase' = [phase EXCEPT ![r] = IF @ = "post" THEN "loadedPost" ELSE "loadedGet"]
     ELSE /\ read' = [read EXCEPT ![r] = LoadFile]
          /\ phase' = [phase EXCEPT ![r] = IF @ = "post" THEN "missedPost" ELSE "missedGet"]
  /\ UNCHANGED <<storeVars, cache, cfg, reloading, up, rw, keyFile, cookie, raced, passed>>

\* ... which it caches, whatever has been saved meanwhile
GateCaches(r) ==
  /\ up /\ phase[r] \in {"missedGet", "missedPost"}
  /\ cache' = read[r]
  /\ astray' = (astray \/ read[r] # LoadFile)
  /\ phase' = [phase EXCEPT ![r] = IF @ = "missedPost" THEN "loadedPost" ELSE "loadedGet"]
  /\ UNCHANGED <<file, disk, saves, saved, kept, cfg, reloading, up, rw, read, keyFile, cookie,
                 raced, passed>>

\* ... and stores it, whatever happened meanwhile
GateStores(r) ==
  /\ up /\ phase[r] \in {"loadedGet", "loadedPost"}
  /\ cfg' = read[r]
  /\ read' = [read EXCEPT ![r] = None]
  /\ raced' = (raced \/ read[r] # cache)
  /\ Decide(r, read[r], phase[r] = "loadedPost")
  /\ UNCHANGED <<storeVars, cache, reloading, up, rw, cookie>>

-----------------------------------------------------------------------------
\* Handlers of an admitted POST.

Done(r) == phase' = [phase EXCEPT ![r] = "idle"]

\* Faulty variant of Save: the cache is not emptied after the rename.
SaveKeepsCache(u) ==
  /\ saves < MaxSaves
  /\ file' = Merge(cache, u)
  /\ reloading' = TRUE
  /\ saves' = saves + 1 /\ saved' = Merge(saved, u)
  /\ UNCHANGED <<cache, cfg, disk, kept, astray, raced>>

\* save_config(): merge into the cached settings, write a copy, sync it, rename
\* it, and empty the cache
Save(u) ==
  /\ saves < MaxSaves
  /\ file' = Merge(cache, u)
  /\ cache' = None /\ reloading' = TRUE
  /\ saves' = saves + 1
  /\ saved' = Merge(saved, u)
  /\ UNCHANGED <<cfg, disk, kept, astray, raced>>

\* What load_config() leaves in the cache: the file, or what a worker thread
\* put there first
Reloaded == cache' \in ({cache} \ {None}) \cup {LoadFile}

\* Faulty variant of Reload: web_app's own copy is left as it was.
ReloadKeepsConfig ==
  /\ up /\ reloading
  /\ Reloaded /\ reloading' = FALSE /\ raced' = FALSE
  /\ UNCHANGED <<storeVars, gateVars, cfg, up, rw, keyFile, cookie>>

\* The rest of the save on the event loop: the file is loaded again, and the
\* handler drops _config and answers
Reload ==
  /\ up /\ reloading
  /\ Reloaded /\ reloading' = FALSE
  /\ cfg' = None /\ raced' = FALSE
  /\ UNCHANGED <<storeVars, gateVars, up, rw, keyFile, cookie>>

\* api_config_save(); a save that is refused, or whose copy cannot be
\* written, leaves everything as it was
ConfigSave(r, u) ==
  /\ up /\ phase[r] = "admitted"
  /\ \/ Valid(u) /\ rw /\ Save(u)
     \/ UNCHANGED <<storeVars, cache, reloading, cfg, raced>>
  /\ Done(r)
  /\ UNCHANGED <<up, rw, read, keyFile, cookie, passed>>

\* api_dashboard_password(): a configured callsign first, and the current
\* password when there is one
PasswordAllowed(current) ==
  /\ GetConfig.call # NoCall
  /\ GetConfig.pw \in {None, current}

DashboardPassword(r, current, new) ==
  /\ up /\ phase[r] = "admitted"
  /\ \/ PasswordAllowed(current) /\ rw /\ Save([pw |-> new])
     \/ cfg' = GetConfig /\ UNCHANGED <<storeVars, cache, reloading, raced>>
  /\ Done(r)
  /\ UNCHANGED <<up, rw, read, keyFile, cookie, passed>>

-----------------------------------------------------------------------------
\* The unit around the web service.

\* main(): the settings are loaded before the first request
WebStarts ==
  /\ ~up
  /\ up' = TRUE
  /\ cache' = LoadFile /\ cfg' = None /\ raced' = FALSE
  /\ IF astray /\ disk = file /\ file # Unreadable
     THEN astray' = FALSE /\ saved' = file /\ kept' = file
     ELSE UNCHANGED <<astray, saved, kept>>
  /\ UNCHANGED <<file, disk, reloading, rw, gateVars, keyFile, cookie, saves>>

\* The process ends: its requests, its caches and its random key go with it
WebEnds ==
  /\ up' = FALSE /\ reloading' = FALSE
  /\ phase' = [r \in Requests |-> "idle"] /\ read' = [r \in Requests |-> None]
  /\ cookie' = IF cookie = "temp" THEN None ELSE cookie
  /\ passed' = FALSE

WebStops ==
  /\ up /\ WebEnds
  /\ UNCHANGED <<storeVars, cache, cfg, rw, keyFile, raced>>

\* The kernel commits the rename
Flush ==
  /\ disk # file \/ kept # saved
  /\ disk' = file /\ kept' = saved
  /\ UNCHANGED <<file, cache, cfg, reloading, up, rw, gateVars, keyFile, cookie, saves, saved, astray, raced>>

PowerCut ==
  /\ WebEnds
  /\ file' = disk /\ saved' = kept
  /\ UNCHANGED <<disk, cache, cfg, rw, keyFile, saves, kept, astray, raced>>

\* The /rw partition goes read-only, or comes back
RwFlips ==
  /\ rw' = ~rw
  /\ UNCHANGED <<storeVars, gateVars, cache, cfg, reloading, up, keyFile, cookie, raced>>

\* The trustee edits config.yaml, which may leave it unreadable
HandEdit ==
  /\ ~astray
  /\ \E c \in {Unreadable, [LoadFile EXCEPT !.pw = None]} :
       file' = c /\ disk' = c /\ file # c
  /\ astray' = TRUE
  /\ UNCHANGED <<cache, cfg, reloading, up, rw, gateVars, keyFile, cookie, saves, saved, kept, raced>>

-----------------------------------------------------------------------------
ConfigTypeOK ==
  /\ {file, disk} \subseteq Configs \cup {Unreadable}
  /\ {saved, kept} \subseteq Configs /\ {cache, cfg} \subseteq Configs \cup {None}
  /\ phase \in [Requests -> {"idle", "get", "post", "missedGet", "missedPost", "loadedGet",
                          "loadedPost", "admitted"}]
  /\ \A r \in Requests : read[r] \in Configs \cup {None}
  /\ cookie \in {None, "kept", "temp"} /\ saves \in 0..MaxSaves
  /\ {reloading, up, rw, keyFile, astray, raced, passed} \subseteq BOOLEAN

\* What the user was told is saved is what config.yaml says: no save, by
\* whichever page, loses a setting of an earlier one, no restart does, and
\* the file always is a configuration (save_config() merges into its cache,
\* which it reloads after every rename) - unless somebody edits the file or a
\* worker thread caches what it read from it before a later save.
SavedStays == ~astray => file = saved

\* Once a dashboard password is saved, no request gets past require_auth()
\* without a session, however settings are saved, the service restarted or
\* /rw remounted meanwhile - unless a worker thread's get_config() straddled
\* the last save, see the README, or that save is not answered yet.
GateStays ==
  [][\A r \in Requests :
       (GateKnows(r) \/ GateStores(r)) /\ passed' => astray \/ raced' \/ reloading]_configVars
=============================================================================
