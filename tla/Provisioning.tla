---------------------------- MODULE Provisioning ----------------------------
(***************************************************************************)
(* The maintenance workflow behind the Pair, Trust, Untrust and Remove     *)
(* buttons (_permanent_provisioning_workflow of web_app.py, with the       *)
(* commands of bluez_manager.py and fs_manager.py).                        *)
(*                                                                         *)
(* It stops the RFCOMM bridge, makes the root filesystem writable when it  *)
(* cannot itself write in BlueZ's directory, runs the action, remounts the *)
(* root filesystem read-only, and starts the bridge again or reboots.      *)
(* Every command is one step: it may fail, say that it succeeded when it   *)
(* did not, or be given up after it took effect, and the web service may   *)
(* die between two of them.                                                *)
(***************************************************************************)
VARIABLES
  step,         \* the workflow's next step
  needs,        \* needs_remount
  ok,           \* the action succeeded
  root,         \* how the root filesystem is mounted
  home,         \* how it was mounted at boot
  bridge,       \* the RFCOMM bridge runs
  reboot,       \* systemctl reboot was accepted
  fault         \* history: putting things back failed or was cut short, the
                \* remount timed out, or the trustee stopped the bridge

provVars == <<step, needs, ok, root, home, bridge, reboot, fault>>
locals == <<needs, ok>>

Actions == {"pair", "trust", "untrust", "remove"}

ProvInit ==
  /\ step = "idle" /\ needs = FALSE /\ ok = FALSE
  /\ home \in {"ro", "rw"} /\ root = home /\ bridge = TRUE
  /\ reboot = FALSE /\ fault = FALSE

\* The function returns, and its local variables are gone
Returns == step' = "idle" /\ needs' = FALSE /\ ok' = FALSE

-----------------------------------------------------------------------------
\* The steps of the workflow.

\* The request comes with "confirmed"; can_perform_permanent_provisioning()
\* says yes either way.  needs_remount is that the web service's own user may
\* not write in /var/lib/bluetooth, a directory with its own owner and mode on
\* what may be a mount of its own: how root is mounted does not decide it.
Begin ==
  /\ step = "idle"
  /\ step' = "stop" /\ needs' \in BOOLEAN /\ ok' = FALSE
  /\ UNCHANGED <<root, home, bridge, reboot, fault>>

\* stop_service(); its result is not looked at
StopBridge ==
  /\ step = "stop"
  /\ bridge' \in {FALSE, bridge}
  /\ step' = IF needs THEN "rw" ELSE "act"
  /\ UNCHANGED <<locals, root, home, reboot, fault>>

\* remount_root_rw().  The script's status is that of its last line, "|| true",
\* so a mount of root that failed passes for one that succeeded.  When the
\* script cannot be run, or is not done in 10 s (it may be done later), the
\* bridge is started again and nothing is remounted read-only.
RemountRw ==
  /\ step = "rw"
  /\ \/ root' \in {root, "rw"} /\ step' = "act" /\ UNCHANGED fault
     \/ root' = root /\ step' = "restart" /\ UNCHANGED fault
     \/ root' \in {root, "rw"} /\ step' = "restart" /\ fault' = TRUE
  /\ UNCHANGED <<locals, home, bridge, reboot>>

\* What pair_device(), trust_device(), untrust_device() and remove_device()
\* return when the phone now is (paired, or trusted) and BlueZ's answer to
\* "info" was heard or not.  bluetoothctl's own words only count against a
\* pairing; an answer that does not come reads as "no" to either question.
\* trust_device() after a pairing only adds to the message.
Result(a, now, heard, words) ==
  CASE a = "pair" -> words /\ heard /\ now
    [] a = "trust" -> heard /\ now
    [] a \in {"untrust", "remove"} -> ~(heard /\ now)

\* Whichever of the four was asked for; it makes no difference but this.
Act ==
  /\ step = "act"
  /\ \E a \in Actions, now, heard, words \in BOOLEAN : ok' = Result(a, now, heard, words)
  /\ step' = IF needs THEN "ro" ELSE "finish"
  /\ UNCHANGED <<needs, root, home, bridge, reboot, fault>>

\* verify_bluez_state_written() answers yes on every path and sync changes
\* nothing here; remount_root_ro() is best effort, and is for read-only
\* whatever the mode was at the start
RemountRo ==
  /\ step = "ro"
  /\ \/ root' = "ro" /\ UNCHANGED fault
     \/ root' = root /\ fault' = TRUE
  /\ step' = "finish"
  /\ UNCHANGED <<locals, home, bridge, reboot>>

\* Faulty variant of Finish: a failed action ends the workflow there.
FinishGivesUp ==
  /\ step = "finish"
  /\ step' = IF ~ok THEN "idle" ELSE IF ~needs THEN "restart" ELSE "reboot"
  /\ UNCHANGED <<locals, root, home, bridge, reboot, fault>>

\* Failed, or the filesystem was writable all along: the bridge is started
\* again.  Otherwise a reboot does it.
Finish ==
  /\ step = "finish"
  /\ step' = IF ~ok \/ ~needs THEN "restart" ELSE "reboot"
  /\ UNCHANGED <<locals, root, home, bridge, reboot, fault>>

\* restart_service(); its result is not looked at
RestartBridge ==
  /\ step = "restart"
  /\ \/ bridge' = TRUE /\ UNCHANGED fault
     \/ UNCHANGED bridge /\ fault' = TRUE
  /\ Returns
  /\ UNCHANGED <<root, home, reboot>>

\* schedule_reboot(); when it fails the page still says "will reboot"
ScheduleReboot ==
  /\ step = "reboot"
  /\ \/ reboot' = TRUE /\ UNCHANGED fault
     \/ fault' = TRUE /\ UNCHANGED reboot
  /\ Returns
  /\ UNCHANGED <<root, home, bridge>>

Workflow == \/ StopBridge \/ RemountRw \/ Act \/ RemountRo \/ Finish
            \/ RestartBridge \/ ScheduleReboot

-----------------------------------------------------------------------------
\* restart_service() and stop_service() from the Services page
BridgeByHand(on) ==
  /\ step = "idle" /\ bridge' = on
  /\ fault' = (IF on THEN fault ELSE TRUE)
  /\ UNCHANGED <<step, needs, ok, root, home, reboot>>

-----------------------------------------------------------------------------
\* The web service is killed: nobody finishes the workflow
WorkflowCut ==
  /\ Returns
  /\ fault' = (fault \/ step # "idle")
  /\ UNCHANGED <<root, home, bridge, reboot>>

\* The unit starts over
Reboots ==
  /\ Returns /\ root' = home /\ bridge' = TRUE
  /\ reboot' = FALSE /\ fault' = FALSE
  /\ UNCHANGED <<home>>

-----------------------------------------------------------------------------
ProvTypeOK ==
  /\ step \in {"idle", "stop", "rw", "act", "ro", "finish", "restart", "reboot"}
  /\ {root, home} \subseteq {"ro", "rw"}
  /\ {needs, ok, bridge, reboot, fault} \subseteq BOOLEAN

\* However the workflow goes, when it is over the RFCOMM bridge runs again,
\* or a reboot that starts it is on its way, and a root filesystem that is
\* read-only at boot is not left writable - unless one of the commands that put
\* things back failed, the remount timed out or the web service died half way.
UnitRestored ==
  step = "idle" /\ ~fault => (home = "ro" => root = "ro") /\ (bridge \/ reboot)
=============================================================================
