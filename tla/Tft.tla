-------------------------------- MODULE Tft --------------------------------
(***************************************************************************)
(* The Mini PiTFT: the main loop of tft/main.py, the threads beside it     *)
(* (WiFi switch, journal reader, Xara feed), and the power-off of the web  *)
(* service it follows through /run/kp4pra-tnc/shutdown.json.               *)
(*                                                                         *)
(* One pass of the loop is the steps Top, Setup, Buttons and Saver, with   *)
(* Darken between the two halves of set_off(True), which assigns self.off  *)
(* before it takes dev_lock.  Time is not counted: between two passes any  *)
(* delay may run out (a 3 s press, 180 s without traffic, 120 s of worm),  *)
(* but nothing that happened in this pass is old already.  What is drawn   *)
(* is reduced to which screen it is.                                       *)
(***************************************************************************)
EXTENDS Naturals

CONSTANT MaxEvents    \* bound on what happens to the unit: see Outside

ASSUME EventsAssumption == MaxEvents \in Nat

VARIABLES
  life,         \* of Display: "run", "kept" (left lit on exit), "idle" (none)
  pc,           \* the main loop's next step
  off,          \* self.off: the user switched the screen off
  saver,        \* self.saver
  asleep,       \* the panel itself: backlight and display off
  shown,        \* the last image is about the power-off
  splash,       \* now < self.splash_until
  fresh,        \* last_activity is this pass's now
  traffic,      \* self.traffic_seen, or XaraState.activity, which vara_tick()
                \* turns into it in the same pass
  countdown,    \* self.shutdown_deadline is not None
  drawn,        \* self._shutdown_shown is not None: a number is on the panel
  install,      \* self.install
  painted,      \* self._install_drawn
  dismissed,    \* the failed setup on file was closed with a button
  prev,         \* the button levels of the last pass
  down, fired,  \* _a_down, _b_down (is not None); _a_fired, _b_fired
  swallow,      \* self._swallow
  wifi,         \* a WiFi switch thread is about to show its splash
  setup,        \* install-state.json
  notice,       \* shutdown.json and where its deadline is
  poweroff,     \* the web service's "sleep 10 && poweroff" is asleep
  system,       \* "up", or what systemd stops it for
  term,         \* SIGTERM came
  woke,         \* history of this Display: buttons of a press that only wakes
                \* are still down
  misfired,     \* history: such a press did something else
  crossed,      \* history: a WiFi splash fell inside set_off(True)
  events        \* the events of Outside so far

webVars == <<notice, poweroff>>
pressVars == <<prev, down, fired, swallow, woke, misfired>>
panelVars == <<off, saver, asleep, shown, splash, painted>>
displayVars == <<life, pc, panelVars, fresh, traffic, countdown, drawn, install, dismissed,
          pressVars, wifi, setup, webVars, system, term, crossed, events>>

Buttons == {"A", "B"}
Setups == {"complete", "active", "failed"}
Idle == [x \in Buttons |-> FALSE]

\* Display.__init__(): a new object, or none.  _prev is (False, False): to a new
\* Display a button that is still down is pressed, whatever the press was to the
\* one before.
Blank ==
  /\ pc' = "top" /\ off' = FALSE /\ saver' = "none" /\ fresh' = FALSE /\ traffic' = FALSE
  /\ countdown' = FALSE /\ drawn' = FALSE /\ install' = "none" /\ painted' = "none"
  /\ dismissed' = FALSE
  /\ prev' = Idle /\ down' = Idle /\ fired' = Idle /\ swallow' = FALSE
  /\ wifi' = FALSE /\ woke' = FALSE /\ crossed' = FALSE
  /\ UNCHANGED misfired

\* ... with the splash of _run() on a panel just initialised
Fresh == Blank /\ life' = "run" /\ asleep' = FALSE /\ shown' = FALSE /\ splash' = TRUE

DisplayInit ==
  /\ life = "run" /\ pc = "top" /\ off = FALSE /\ saver = "none"
  /\ asleep = FALSE /\ shown = FALSE /\ splash = TRUE /\ fresh = FALSE
  /\ traffic = FALSE
  /\ countdown = FALSE /\ drawn = FALSE /\ install = "none" /\ painted = "none"
  /\ dismissed = FALSE
  /\ prev = Idle /\ down = Idle /\ fired = Idle /\ swallow = FALSE
  /\ wifi = FALSE /\ woke = FALSE /\ misfired = FALSE /\ crossed = FALSE
  /\ setup = "complete" /\ notice = "none" /\ poweroff = FALSE
  /\ system = "up" /\ term = FALSE /\ events = 0

Running(p) == life = "run" /\ pc = p

-----------------------------------------------------------------------------
\* Top of a pass: SIGTERM, then shutdown_tick() and, while a power-off is
\* pending, the countdown instead of everything else.

\* Faulty variant of Lit: exit_saver() does not wake a blanked panel.
LitKeepsDark == off' = FALSE /\ saver' = "none" /\ asleep' = (asleep /\ ~off)

\* exit_saver() and set_off(False): the panel is lit and back to normal
Lit == off' = FALSE /\ saver' = "none" /\ asleep' = (asleep /\ ~off /\ saver # "blank")

\* _run() on SIGTERM.  The message of a reboot or a power-off stays on the
\* panel; otherwise, and when systemd cannot be asked, close() blanks it.
\* set_off(False) does not leave the screen saver.
Terminated ==
  /\ Running("top") /\ term
  /\ \/ /\ countdown \/ system # "up"
        /\ life' = "kept" /\ asleep' = (asleep /\ ~off)
        /\ shown' = (countdown \/ system = "poweroff")
     \/ /\ ~countdown
        /\ life' = "idle" /\ asleep' = TRUE /\ shown' = FALSE
  /\ Blank /\ splash' = FALSE
  /\ UNCHANGED <<setup, webVars, system, term, events>>

\* The power-off on file, unless its deadline is SHUTDOWN_STALE_S ago
Pending == notice \in {"counting", "past"}

\* Faulty variant of ShutdownTick: the countdown leaves the saver alone.
ShutdownTickSleeps ==
  /\ countdown' = Pending
  /\ IF Pending /\ ~countdown
     THEN off' = FALSE /\ asleep' = (asleep /\ ~off) /\ splash' = FALSE /\ UNCHANGED <<saver, fresh>>
     ELSE UNCHANGED <<off, saver, asleep, splash, fresh>>

\* shutdown_tick(): a new countdown leaves the saver and wakes the panel; a
\* cancelled one counts as activity
ShutdownTick ==
  /\ countdown' = Pending
  /\ IF Pending /\ ~countdown
     THEN Lit /\ splash' = FALSE /\ fresh' = TRUE
     ELSE fresh' = (countdown /\ ~Pending) /\ UNCHANGED <<off, saver, asleep, splash>>

\* Both buttons are up: a press that only wakes is over
Released(l) == ~l["A"] /\ ~l["B"]

\* What install-state.json says to this Display; an active setup that is an
\* hour old counts as failed
SetupSeen == IF dismissed THEN {"complete"}
             ELSE IF setup = "active" THEN {"active", "failed"} ELSE {setup}

\* draw_shutdown(): the seconds left, which change; after the last one the
\* final message once, in place of a number of this countdown
DrawShutdown ==
  /\ drawn' = (notice = "counting")
  /\ shown' = (shown \/ notice = "counting" \/ drawn)

Top ==
  /\ Running("top") /\ ~term
  /\ ShutdownTick
  /\ IF countdown'
     THEN /\ DrawShutdown
          /\ \E l \in [Buttons -> BOOLEAN] :
               prev' = l /\ woke' = (woke /\ ~Released(l))
          /\ UNCHANGED pc
     ELSE /\ pc' = IF install = "none" /\ SetupSeen = {"complete"}
                   THEN "buttons" ELSE "setup"
          /\ drawn' = FALSE          \* the next countdown starts from None
          /\ UNCHANGED <<shown, prev, woke>>
  /\ UNCHANGED <<life, traffic, install, painted, dismissed, down, fired, swallow,
                 misfired, wifi, setup, webVars, system, term, crossed, events>>

-----------------------------------------------------------------------------
\* install_tick(), draw_install() and the button that closes a failure.

\* draw_install(): not the image that was drawn last, whatever the panel shows
\* by now; a new message of the same state is a new image
DrawInstall ==
  /\ painted' = install'
  /\ shown' \in IF painted = install' THEN {shown, FALSE} ELSE {FALSE}

Setup ==
  /\ Running("setup")
  /\ \E st \in SetupSeen, l \in [Buttons -> BOOLEAN] :
       LET begins == st # "complete" /\ install = "none"
           ends == st = "complete" /\ install # "none"
           closes == st = "failed" /\ \E x \in Buttons : l[x] /\ ~prev[x]
       IN /\ IF begins THEN Lit /\ UNCHANGED splash
             ELSE IF ends /\ install = "active"        \* show_splash()
             THEN splash' = TRUE /\ off' = FALSE /\ asleep' = (asleep /\ ~off) /\ UNCHANGED saver
             ELSE UNCHANGED <<off, saver, asleep, splash>>
          /\ install' = IF st = "complete" \/ closes THEN "none" ELSE st
          /\ dismissed' = (dismissed \/ closes)
          /\ swallow' = (swallow \/ closes)
          /\ fresh' = (fresh \/ begins \/ ends)
          /\ IF st = "complete"
             THEN UNCHANGED <<prev, woke>>
             ELSE prev' = l /\ woke' = (closes \/ (woke /\ ~Released(l)))
          /\ IF install' = "none"
             THEN painted' = "none" /\ shown' = (shown /\ ~(ends /\ install = "active"))
             ELSE IF splash THEN UNCHANGED <<painted, shown>> ELSE DrawInstall
          /\ pc' = IF install' # "none" THEN "top" ELSE "buttons"
  /\ UNCHANGED <<life, traffic, countdown, drawn, down, fired, misfired, wifi, setup,
                 webVars, system, term, crossed, events>>

-----------------------------------------------------------------------------
\* on_buttons() with the levels l, and the thread its answer starts.

\* A press during the saver wakes it, and swallows everything until both
\* buttons are up
Wakes(l) == saver # "none" /\ ~Released(l)

\* A button held since an earlier pass may have reached 3 s
Held(l, x) == l[x] /\ prev[x] /\ down[x] /\ ~fired[x]

\* Faulty variant of StaysSwallowed: until one of the buttons is up.
StaysSwallowedLess(l) == l["A"] /\ l["B"]

StaysSwallowed(l) == ~Released(l)

Swallowed(l) ==
  /\ swallow \/ Wakes(l)
  /\ IF Wakes(l)
     THEN saver' = "none" /\ asleep' = (asleep /\ saver # "blank")
     ELSE UNCHANGED <<saver, asleep>>
  /\ swallow' = StaysSwallowed(l)
  /\ woke' = ((woke \/ Wakes(l)) /\ ~Released(l))
  /\ down' = Idle
  /\ pc' = "saver"
  /\ UNCHANGED <<off, splash, fired, wifi, misfired>>

\* The presses and releases of a pass without the saver.  Where both
\* reach 3 s at once the beacon is sent and the WiFi left alone; a beacon
\* thread only sends and sets a toast.
Pressed(l) ==
  LET released(x) == ~l[x] /\ prev[x]
      short(x) == released(x) /\ ~fired[x]
  IN /\ ~swallow /\ ~Wakes(l)
     /\ \E long \in SUBSET {x \in Buttons : Held(l, x)} :
          /\ fired' = [x \in Buttons |-> IF l[x] /\ ~prev[x] THEN FALSE
                                         ELSE fired[x] \/ x \in long]
          /\ down' = [x \in Buttons |-> IF l[x] THEN down[x] \/ ~prev[x]
                                        ELSE down[x] /\ ~prev[x]]
          /\ wifi' = (wifi \/ ("A" \in long /\ "B" \notin long))
          /\ misfired' = (misfired \/ (woke /\ (long # {} \/ short("A") \/ short("B"))))
     \* A wakes (or turns the page), then B switches off and on
     /\ LET offA == off /\ ~short("A")
        IN /\ off' = IF short("B") THEN ~offA ELSE offA
           /\ pc' = IF short("B") /\ ~offA THEN "darken" ELSE "saver"
     /\ asleep' = (asleep /\ ~(off /\ (short("A") \/ short("B"))))
     /\ splash' = (splash /\ ~short("A") /\ ~released("B"))
     /\ woke' = (woke /\ ~Released(l))
     /\ UNCHANGED <<saver, swallow>>

ButtonPass ==
  /\ Running("buttons")
  /\ \E l \in [Buttons -> BOOLEAN] :
       /\ Swallowed(l) \/ Pressed(l)
       /\ prev' = l
       /\ fresh' = (fresh \/ Wakes(l) \/ \E x \in Buttons : l[x] /\ ~prev[x])
  /\ UNCHANGED <<life, shown, traffic, countdown, drawn, install, painted, dismissed, setup,
                 webVars, system, term, crossed, events>>

\* The second half of set_off(True)
Darken ==
  /\ Running("darken")
  /\ asleep' = TRUE
  /\ pc' = "saver"
  /\ UNCHANGED <<life, off, saver, shown, splash, fresh, traffic, countdown, drawn, install,
                 painted, dismissed, pressVars, wifi, setup, webVars, system, term, crossed,
                 events>>

-----------------------------------------------------------------------------
\* vara_tick(), saver_tick() and the drawing at the end of a pass.

\* saver_tick(): traffic leaves the saver; no traffic starts it, then blanks
SaverTick ==
  IF traffic
  THEN /\ saver' = "none" /\ asleep' = (asleep /\ saver # "blank")
  ELSE \/ UNCHANGED <<saver, asleep>>
       \/ /\ saver = "none" /\ ~off /\ ~splash /\ ~fresh
          /\ \A x \in Buttons : prev[x] /\ down[x] => fired[x]   \* 180 s > 3 s
          /\ saver' = "worm" /\ UNCHANGED asleep
       \/ saver = "worm" /\ saver' = "blank" /\ asleep' = TRUE

Draw ==
  shown' = (shown /\ saver' # "worm" /\ ~(saver' = "none" /\ ~off /\ ~splash))

SaverPass ==
  /\ Running("saver")
  /\ SaverTick
  /\ Draw
  /\ traffic' = FALSE
  /\ fresh' = FALSE /\ pc' = "top"
  /\ UNCHANGED <<life, off, splash, countdown, drawn, install, painted, dismissed, pressVars,
                 wifi, setup, webVars, system, term, crossed, events>>

\* The settings turn the display off or around, or an access to the device
\* raises anywhere in a pass: close() blanks the panel, and main() tries again
Leaves ==
  /\ life = "run"
  /\ life' = "idle" /\ asleep' = TRUE /\ shown' = FALSE
  /\ Blank /\ splash' = FALSE
  /\ UNCHANGED <<setup, webVars, system, term, events>>

Opens ==
  /\ life = "idle" /\ ~term
  /\ Fresh
  /\ UNCHANGED <<setup, webVars, system, term, events>>

MainLoop == Terminated \/ Top \/ Setup \/ ButtonPass \/ Darken \/ SaverPass

-----------------------------------------------------------------------------
\* The threads.

threadFrame == <<life, pc, saver, fresh, countdown, drawn, install, painted, dismissed,
                 pressVars, setup, webVars, system, term, events>>

\* switch_wifi() has asked for the mode of now, and show_splash() lights the
\* panel under dev_lock; then kp4pra-wifi-mode runs
WifiShow ==
  /\ life = "run" /\ wifi
  /\ off' = FALSE /\ asleep' = (asleep /\ ~off) /\ shown' = FALSE /\ splash' = TRUE
  /\ wifi' = FALSE
  /\ crossed' = (crossed \/ pc = "darken")
  /\ UNCHANGED <<threadFrame, traffic>>

\* SPLASH_S pass, or the switch failed and ends the splash early
SplashEnds ==
  /\ life = "run" /\ splash
  /\ splash' = FALSE
  /\ UNCHANGED <<threadFrame, off, asleep, shown, traffic, wifi, crossed>>

\* journal_reader() hears Dire Wolf, or run_feed() a message of Xara's
\* worth waking for
Frame ==
  /\ life = "run" /\ traffic' = TRUE
  /\ UNCHANGED <<threadFrame, off, asleep, shown, splash, wifi, crossed>>

-----------------------------------------------------------------------------
\* The unit: the web service's power-off, the setup, systemd.

unitFrame == <<life, pc, panelVars, fresh, traffic, countdown, drawn, install, pressVars,
               wifi, crossed>>

\* api_system_shutdown(): one pending process, and its deadline on file
Shutdown ==
  /\ system = "up" /\ ~poweroff
  /\ poweroff' = TRUE /\ notice' = "counting"
  /\ UNCHANGED <<unitFrame, dismissed, setup, system, term>>

\* api_system_shutdown_cancel()
Cancel ==
  /\ poweroff /\ poweroff' = FALSE /\ notice' = "none"
  /\ UNCHANGED <<unitFrame, dismissed, setup, system, term>>

\* The web service is restarted: systemd ends the sleeping process with it,
\* and the file stays
WebRestarts ==
  /\ poweroff /\ poweroff' = FALSE
  /\ UNCHANGED <<unitFrame, dismissed, setup, notice, system, term>>

\* The deadline on file passes, and gets old
NoticeAges ==
  /\ \/ notice = "counting" /\ notice' = "past"
     \/ notice = "past" /\ notice' = "stale"
  /\ UNCHANGED <<unitFrame, dismissed, setup, poweroff, system, term, events>>

\* poweroff, reboot, or a restart of the display service: SIGTERM
Stops ==
  /\ system = "up" /\ ~term
  /\ \/ poweroff /\ system' = "poweroff" /\ poweroff' = FALSE
     \/ system' = "reboot" /\ UNCHANGED poweroff
     \/ UNCHANGED <<system, poweroff>>
  /\ term' = TRUE
  /\ UNCHANGED <<unitFrame, dismissed, setup, notice>>

\* The display service is started again, on the same boot or the next one
Restarts ==
  /\ term /\ life # "run"
  /\ Fresh
  /\ term' = FALSE /\ system' = "up"
  /\ IF system = "up" THEN UNCHANGED webVars ELSE notice' = "none" /\ poweroff' = FALSE
  /\ UNCHANGED <<setup, events>>

\* bin/kp4pra-install-state writes a new state
SetupWrites ==
  /\ setup' \in Setups \ {setup} /\ dismissed' = FALSE
  /\ UNCHANGED <<unitFrame, webVars, system, term>>

Outside ==
  /\ events < MaxEvents /\ events' = events + 1
  /\ Shutdown \/ Cancel \/ WebRestarts \/ Stops \/ SetupWrites

DisplayNext ==
  \/ MainLoop \/ Leaves \/ Opens
  \/ WifiShow \/ SplashEnds \/ Frame
  \/ Outside \/ NoticeAges \/ Restarts

DisplaySpec == DisplayInit /\ [][DisplayNext]_displayVars

\* The loop runs every 50 ms for as long as the process does
FairSpec == DisplaySpec /\ WF_displayVars(MainLoop)

-----------------------------------------------------------------------------
DisplayTypeOK ==
  /\ life \in {"run", "kept", "idle"}
  /\ pc \in {"top", "setup", "buttons", "darken", "saver"}
  /\ saver \in {"none", "worm", "blank"} 
  /\ {install, painted} \subseteq {"none", "active", "failed"}
  /\ {prev, down, fired} \subseteq [Buttons -> BOOLEAN]
  /\ events \in 0..MaxEvents /\ system \in {"up", "poweroff", "reboot"}
  /\ setup \in Setups /\ notice \in {"none", "counting", "past", "stale"}
  /\ {off, asleep, splash, fresh, traffic, countdown, drawn, dismissed, swallow,
      poweroff, wifi, shown, term, woke, misfired, crossed} \subseteq BOOLEAN

\* The panel is dark only when the user switched it off or the saver blanked
\* it, whichever of the loop, the countdown, the setup screen and the WiFi
\* thread touched it last: a panel that is on in self.off and self.saver and
\* dark to the eye would take presses for things nobody sees.
PanelTrue == life = "run" /\ ~crossed => (asleep => off \/ saver = "blank")

\* A press that wakes the screen saver, or closes the failed setup screen,
\* does nothing else until both buttons are released (the docstring of
\* on_buttons()), also when the countdown or the setup come in between, for as
\* long as the Display lasts that it woke.
OnlyWakes == ~misfired

\* A power-off that counts down gets on a lit panel, and traffic ends the
\* screen saver, whatever the panel was doing (shutdown_tick(), saver_tick()).
CountdownShown ==
  /\ (life = "run" /\ notice = "counting") ~>
       ((~asleep /\ shown) \/ crossed \/ notice # "counting" \/ life # "run")
  /\ (life = "run" /\ traffic) ~>
       (saver = "none" \/ countdown \/ install # "none" \/ life # "run")
=============================================================================
