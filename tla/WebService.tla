----------------------------- MODULE WebService -----------------------------
(***************************************************************************)
(* The web service: its settings and its gate (WebConfig) together with    *)
(* the maintenance workflow (Provisioning), which is one more handler of   *)
(* an admitted POST.  The workflow never awaits, so while it runs the      *)
(* event loop serves nothing else; the worker threads of require_auth()    *)
(* go on.                                                                  *)
(***************************************************************************)
EXTENDS WebConfig, Provisioning

vars == <<configVars, provVars>>

Init == ConfigInit /\ ProvInit

\* The event loop is free
Free == up /\ step = "idle" /\ ~reloading

\* api_bt_pair(), api_bt_trust(), api_bt_untrust(), api_bt_remove()
Provision(r) ==
  /\ Free /\ phase[r] = "admitted"
  /\ Begin
  /\ Done(r)
  /\ UNCHANGED <<storeVars, cache, cfg, reloading, up, rw, read, keyFile, cookie, raced, passed>>

\* api_service_restart(), api_service_stop()
ServiceByHand(r) ==
  /\ Free /\ phase[r] = "admitted"
  /\ \E on \in BOOLEAN : BridgeByHand(on)
  /\ Done(r)
  /\ UNCHANGED <<storeVars, cache, cfg, reloading, up, rw, read, keyFile, cookie, raced, passed>>

\* Handlers on the event loop
Handler ==
  \/ \E p \in Passwords : Login(p)
  \/ \E r \in Requests :
       \/ Post(r)
       \/ \E u \in Updates : ConfigSave(r, u)
       \/ \E p, q \in Passwords : DashboardPassword(r, p, q)

\* A save that goes on, worker threads, the browser and the disk
Around ==
  \/ Reload \/ SessionGoes \/ Flush \/ RwFlips \/ HandEdit \/ WebStarts
  \/ \E r \in Requests : Get(r) \/ GateKnows(r) \/ GateLoads(r) \/ GateCaches(r) \/ GateStores(r)

Next ==
  \/ Free /\ Handler /\ UNCHANGED provVars
  \/ Around /\ UNCHANGED provVars
  \/ \E r \in Requests : ServiceByHand(r) \/ Provision(r)
  \/ up /\ Workflow /\ UNCHANGED configVars
  \/ WebStops /\ WorkflowCut
  \/ PowerCut /\ Reboots

Spec == Init /\ [][Next]_vars

TypeOK == ConfigTypeOK /\ ProvTypeOK
=============================================================================
