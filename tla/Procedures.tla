----------------------------- MODULE Procedures -----------------------------
(***************************************************************************)
(* The work that holds the adapter: reading or erasing faults, sweeping    *)
(* for modules, running a plugin. The application lets one begin when none *)
(* of the others is under way (dtcReading, scanning, pluginRunning and the *)
(* adapter's lock, see AppSession); what each of them keeps, it leaves.    *)
(***************************************************************************)
EXTENDS FaultCodes, BusScan, PluginRun

vars == <<faultVars, scanVars, pluginVars>>

Init == FaultInit /\ ScanInit /\ PluginInit

FaultsIdle == fstep = "idle"
ScanIdle == sstep = "idle"
PluginIdle == pstep = "idle" /\ runs = 0

Faults == ScanIdle /\ PluginIdle /\ FaultNext /\ UNCHANGED <<scanVars, pluginVars>>

Sweep == FaultsIdle /\ PluginIdle /\ ScanNext /\ UNCHANGED <<faultVars, pluginVars>>

Plugin == FaultsIdle /\ ScanIdle /\ PluginNext /\ UNCHANGED <<faultVars, scanVars>>

Next == Faults \/ Sweep \/ Plugin

\* The loop of a plugin is the host's, and its prompts are modal: nothing else happens until they
\* are answered. A link that is silent times out.
Fairness == WF_vars(Runs /\ UNCHANGED <<faultVars, scanVars>>)

Spec == Init /\ [][Next]_vars /\ Fairness
=============================================================================
