------------------------------ MODULE AppSession ------------------------------
(***************************************************************************)
(* The browser application's session: apps/web/src/lib/state.svelte.ts,    *)
(* with the guards of its components (App, Contents, Faults, Canvas,       *)
(* Plugins .svelte) and withAdapterLock of packages/session/src/guard.ts.  *)
(*                                                                         *)
(* All of it is asynchronous handlers over one set of module variables.    *)
(* Each flow below is one running handler; what it read before an await is *)
(* in its locals (held), and anything may happen before it goes on.  Only  *)
(* selectEcu checks, after its awaits, that it still is the current one.   *)
(*                                                                         *)
(* attachEcu is seen from outside: it leaves the adapter pointed at the    *)
(* ECU it was called for or, having lost a command or met another attach,  *)
(* at none or where it was (module ElmDriver says when).                   *)
(***************************************************************************)
EXTENDS Naturals, FiniteSets

CONSTANTS Users,        \* handlers started by the operator
          Timer,        \* the handler setTimeout starts
          Ecus, Screens,
          Layout,       \* Layout[s]: the ECU whose layout has screen s
          Unreachable,  \* the ECUs isReachable refuses (DoIP)
          OtherTab,     \* another tab, at the adapter lock
          None,
          Operations,   \* bound: the operations the operator uses
          MaxConnections, \* bound: successful connects
          MaxTimers     \* bound: no further poll is started at this many timers

ASSUME ScreensAssumption ==
  Layout \in [Screens -> Ecus] /\ Unreachable \subseteq Ecus
ASSUME NamesAssumption ==
  /\ Timer \notin Users /\ OtherTab \notin Users \cup {Timer}
  /\ None \notin Users \cup {Timer, OtherTab} \cup Ecus \cup Screens
ASSUME LimitsAssumption == MaxConnections \in Nat /\ MaxTimers \in Nat

VARIABLES
  selected, ecuPhase,    \* app.selected, app.ecuPhase
  ecu,                   \* the loaded ecu; layout is always the same ECU's
  latest,                \* the flow holding the newest selectionToken
  screen, runtime, snapshot, refreshing,
  autoRefresh, armed,    \* is the timer named by autoTimer pending?
  orphans,               \* pending timers that autoTimer no longer names
  driver,                \* 0 for null, else the number of the connection
  connection, connections, writesEnabled,
  pointed,               \* external: the ECU the adapter addresses, or None
  lock,                  \* external: the holder of the Web Lock
  dtc,                   \* app.dtc: whose faults, read for which ECU
  dtcReading, dtcClearing, pluginRunning,  \* the flow that set the flag
  scanning,
  pc, held,              \* per flow: where it awaits, and its locals
  upset                  \* history: flows have overlapped or an attach failed

screenVars == <<screen, runtime, snapshot, refreshing>>
timerVars  == <<autoRefresh, armed, orphans>>
ecuVars    == <<selected, ecuPhase, ecu, latest>>
linkVars   == <<driver, connection, connections, writesEnabled>>
dtcVars    == <<dtc, dtcReading, dtcClearing>>
busyVars   == <<scanning, pluginRunning>>
flowVars   == <<pc, held, upset>>
vars == <<screenVars, timerVars, ecuVars, linkVars, pointed, lock, dtcVars,
          busyVars, flowVars>>

Flows   == Users \cup {Timer}
Nothing == [ecu |-> None, screen |-> None, link |-> 0]
NoFaults == [by |-> None, for |-> None]
Pending == orphans + (IF armed THEN 1 ELSE 0)

(* A handler is entered, goes on to an await, or returns.                  *)
Goes(f, to, locals) ==
  pc' = [pc EXCEPT ![f] = to] /\ held' = [held EXCEPT ![f] = locals]

Returns(f) == Goes(f, "idle", Nothing)

Enters(f) == upset' = (upset \/ \E g \in Flows \ {f} : pc[g] # "idle")

(* The operator acts; the plugin dialog is modal while a plugin runs.      *)
Operator(f, operation) ==
  /\ f \in Users /\ pc[f] = "idle" /\ pluginRunning = None
  /\ operation \in Operations
  /\ Enters(f)

-----------------------------------------------------------------------------
Init ==
  /\ selected = None /\ ecuPhase = "idle" /\ ecu = None /\ latest = None
  /\ screen = None /\ runtime = Nothing /\ snapshot = Nothing /\ refreshing = FALSE
  /\ autoRefresh = FALSE /\ armed = FALSE /\ orphans = 0
  /\ driver = 0 /\ connection = "idle" /\ connections = 0 /\ writesEnabled = FALSE
  /\ pointed = None /\ lock = None
  /\ dtc = NoFaults /\ dtcReading = None /\ dtcClearing = None
  /\ pluginRunning = None /\ scanning = FALSE
  /\ pc = [f \in Flows |-> "idle"] /\ held = [f \in Flows |-> Nothing]
  /\ upset = FALSE

StopAutoRefresh == autoRefresh' = FALSE /\ armed' = FALSE /\ UNCHANGED orphans

(* refresh(): refused without a runtime and while one is in flight.        *)
Refresh(f) ==
  IF runtime = Nothing \/ refreshing
  THEN Returns(f) /\ UNCHANGED refreshing
  ELSE refreshing' = TRUE /\ Goes(f, "refreshing", runtime)

(* openScreen(name) up to its first await, over a given driver; s is None  *)
(* when no screen was open.  The runtime stays the previous screen's until *)
(* the attach is through.  The adapter is where it was left, until then.   *)
OpensScreen(f, s, link, left) ==
  IF s = None \/ s \notin {t \in Screens : Layout[t] = ecu}
  THEN /\ Returns(f) /\ pointed' = left
       /\ UNCHANGED <<screen, runtime, snapshot, timerVars>>
  ELSE /\ StopAutoRefresh
       /\ screen' = s /\ snapshot' = Nothing
       /\ LET opened == [ecu |-> ecu, screen |-> s, link |-> link] IN
          \/ /\ link # 0 /\ ecu \in Unreachable
             /\ Returns(f) /\ pointed' = left /\ UNCHANGED runtime
          \/ /\ link # 0 /\ ecu \notin Unreachable
             /\ pointed' = None
             /\ Goes(f, "attaching", opened) /\ UNCHANGED runtime
          \/ /\ link = 0
             /\ runtime' = opened
             /\ Goes(f, "presend", opened) /\ pointed' = left

-----------------------------------------------------------------------------
(* selectEcu                                                               *)
SelectEcu(f, e) ==
  /\ Operator(f, "select")
  /\ latest' = f
  /\ StopAutoRefresh
  /\ selected' = e /\ ecuPhase' = "loading"
  /\ screen' = None /\ runtime' = Nothing /\ snapshot' = Nothing
  /\ dtc' = NoFaults
  /\ Goes(f, "loading", [Nothing EXCEPT !.ecu = e])
  /\ UNCHANGED <<ecu, refreshing, linkVars, pointed, lock, dtcReading,
                 dtcClearing, busyVars>>

(* The token is checked after the loads and again after the overlay.       *)
EcuLoaded(f) ==
  /\ pc[f] = "loading"
  /\ IF latest = f
     THEN ecu' = held[f].ecu /\ Goes(f, "priming", held[f])
     ELSE Returns(f) /\ UNCHANGED ecu
  /\ UNCHANGED <<selected, ecuPhase, latest, upset, screenVars, timerVars,
                 linkVars, pointed, lock, dtcVars, busyVars>>

(* Mutant of EcuPrimed: the token is not checked after the second await.   *)
EcuPrimedUnchecked(f) ==
  /\ pc[f] = "priming"
  /\ ecuPhase' = "ready"
  /\ Returns(f)
  /\ UNCHANGED <<selected, ecu, latest, upset, screenVars, timerVars, linkVars,
                 pointed, lock, dtcVars, busyVars>>

EcuPrimed(f) ==
  /\ pc[f] = "priming"
  /\ ecuPhase' = IF latest = f THEN "ready" ELSE ecuPhase
  /\ Returns(f)
  /\ UNCHANGED <<selected, ecu, latest, upset, screenVars, timerVars, linkVars,
                 pointed, lock, dtcVars, busyVars>>

EcuLoadFails(f) ==
  /\ pc[f] \in {"loading", "priming"}
  /\ ecuPhase' = IF latest = f THEN "error" ELSE ecuPhase
  /\ Returns(f)
  /\ UNCHANGED <<selected, ecu, latest, upset, screenVars, timerVars, linkVars,
                 pointed, lock, dtcVars, busyVars>>

(* forgetDatabase, once the archive is deleted; no token is taken.         *)
ForgetDatabase(f) ==
  /\ Operator(f, "forget")
  /\ ecu' = None /\ selected' = None
  /\ screen' = None /\ runtime' = Nothing /\ snapshot' = Nothing
  /\ UNCHANGED <<ecuPhase, latest, refreshing, timerVars, linkVars, pointed,
                 lock, dtcVars, busyVars, pc, held>>

-----------------------------------------------------------------------------
(* openScreen, refresh and the polling timer                               *)
OpenScreen(f, s) ==
  /\ Operator(f, "open")
  /\ ecuPhase = "ready" /\ ecu # None /\ Layout[s] = ecu
  /\ OpensScreen(f, s, driver, pointed)
  /\ UNCHANGED <<refreshing, ecuVars, linkVars, lock, dtcVars, busyVars>>

(* The new runtime takes the ecu and the driver of now, the screen of then.*)
ScreenAttached(f) ==
  /\ pc[f] = "attaching"
  /\ held[f].link = driver
  /\ pointed' \in {held[f].ecu, pointed, None}
  /\ LET made == [ecu |-> ecu, screen |-> held[f].screen, link |-> driver] IN
     IF ecu = None
     THEN Returns(f) /\ UNCHANGED runtime
     ELSE runtime' = made /\ Goes(f, "presend", made)
  /\ UNCHANGED <<screen, snapshot, refreshing, timerVars, ecuVars, linkVars,
                 lock, dtcVars, busyVars, upset>>

AttachFails(f) ==
  /\ pc[f] = "attaching"
  /\ Returns(f) /\ upset' = TRUE
  /\ UNCHANGED <<screenVars, timerVars, ecuVars, linkVars, pointed, lock,
                 dtcVars, busyVars>>

PresendDone(f) ==
  /\ pc[f] = "presend"
  /\ Refresh(f)
  /\ UNCHANGED <<screen, runtime, snapshot, timerVars, ecuVars, linkVars,
                 pointed, lock, dtcVars, busyVars, upset>>

(* Mutants of RefreshDone: a timer's own refresh sets the next timer       *)
(* without asking whether polling is still on; the flag is dropped only    *)
(* while the screen is the same.                                           *)
RefreshDoneRearms(f) ==
  /\ pc[f] = "refreshing"
  /\ snapshot' = held[f]
  /\ refreshing' = FALSE
  /\ orphans' = IF autoRefresh THEN Pending ELSE orphans
  /\ armed' = (armed \/ autoRefresh \/ f = Timer)
  /\ Returns(f)
  /\ UNCHANGED <<screen, runtime, autoRefresh, ecuVars, linkVars, pointed, lock,
                 dtcVars, busyVars, upset>>

RefreshDoneOfScreen(f) ==
  /\ pc[f] = "refreshing"
  /\ snapshot' = held[f]
  /\ refreshing' = (runtime # held[f])
  /\ orphans' = IF autoRefresh THEN Pending ELSE orphans
  /\ armed' = (armed \/ autoRefresh)
  /\ Returns(f)
  /\ UNCHANGED <<screen, runtime, autoRefresh, ecuVars, linkVars, pointed, lock,
                 dtcVars, busyVars, upset>>

(* The snapshot is published whatever is on screen by now; while polling,  *)
(* each refresh sets a timer, over one that may still be pending.          *)
RefreshDone(f) ==
  /\ pc[f] = "refreshing"
  /\ snapshot' = held[f]
  /\ refreshing' = FALSE
  /\ orphans' = IF autoRefresh THEN Pending ELSE orphans
  /\ armed' = (armed \/ autoRefresh)
  /\ Returns(f)
  /\ UNCHANGED <<screen, runtime, autoRefresh, ecuVars, linkVars, pointed, lock,
                 dtcVars, busyVars, upset>>

ReadNow(f) ==
  /\ Operator(f, "refresh")
  /\ screen # None /\ ~refreshing /\ Pending < MaxTimers
  /\ Refresh(f)
  /\ UNCHANGED <<screen, runtime, snapshot, timerVars, ecuVars, linkVars,
                 pointed, lock, dtcVars, busyVars>>

SetAutoRefresh(f) ==
  /\ Operator(f, "auto")
  /\ screen # None
  /\ \/ /\ ~autoRefresh /\ Pending < MaxTimers
        /\ autoRefresh' = TRUE /\ UNCHANGED <<armed, orphans>>
        /\ Refresh(f)
     \/ /\ autoRefresh /\ StopAutoRefresh
        /\ UNCHANGED <<refreshing, pc, held>>
  /\ UNCHANGED <<screen, runtime, snapshot, ecuVars, linkVars, pointed, lock,
                 dtcVars, busyVars>>

TimerFires ==
  /\ pc[Timer] = "idle"
  /\ \/ armed /\ armed' = FALSE /\ UNCHANGED orphans
     \/ orphans > 0 /\ orphans' = orphans - 1 /\ UNCHANGED armed
  /\ Refresh(Timer)
  /\ IF pc'[Timer] = "idle" THEN UNCHANGED upset ELSE Enters(Timer)
  /\ UNCHANGED <<screen, runtime, snapshot, autoRefresh, ecuVars, linkVars,
                 pointed, lock, dtcVars, busyVars>>

(* reconfigureDemo, offered in demo mode only.                             *)
ReconfigureDemo(f) ==
  /\ Operator(f, "demo")
  /\ driver = 0 /\ ecu # None /\ screen # None /\ Pending < MaxTimers
  /\ armed' = FALSE /\ UNCHANGED <<autoRefresh, orphans>>
  /\ LET made == [ecu |-> ecu, screen |-> screen, link |-> 0] IN
     /\ runtime' = made
     /\ IF refreshing
        THEN UNCHANGED <<refreshing, pc, held>>
        ELSE refreshing' = TRUE /\ Goes(f, "refreshing", made)
  /\ UNCHANGED <<screen, snapshot, ecuVars, linkVars, pointed, lock, dtcVars,
                 busyVars>>

-----------------------------------------------------------------------------
(* pressButton.  On a vehicle: gates and confirmation, then the lock; the  *)
(* runtime is looked up again when the lock is granted.                    *)
PressButton(f) ==
  /\ Operator(f, "press")
  /\ screen # None /\ runtime # Nothing /\ Pending < MaxTimers
  /\ driver # 0 => writesEnabled
  /\ IF driver # 0
     THEN Goes(f, "pressLock", [ecu |-> ecu, screen |-> screen, link |-> driver])
     ELSE Goes(f, "pressing", runtime)
  /\ UNCHANGED <<screenVars, timerVars, ecuVars, linkVars, pointed, lock,
                 dtcVars, busyVars>>

(* Mutant of PressLocked: the press goes ahead without the lock.           *)
PressUnlocked(f) ==
  /\ pc[f] = "pressLock"
  /\ IF runtime = Nothing
     THEN Returns(f) /\ UNCHANGED lock
     ELSE lock' = f /\ Goes(f, "pressing", runtime)
  /\ UNCHANGED <<screenVars, timerVars, ecuVars, linkVars, pointed, dtcVars,
                 busyVars, upset>>

PressLocked(f) ==
  /\ pc[f] = "pressLock" /\ lock = None
  /\ IF runtime = Nothing
     THEN Returns(f) /\ UNCHANGED lock
     ELSE lock' = f /\ Goes(f, "pressing", runtime)
  /\ UNCHANGED <<screenVars, timerVars, ecuVars, linkVars, pointed, dtcVars,
                 busyVars, upset>>

Unlocks(f) == lock' = IF lock = f THEN None ELSE lock

(* A press whose value would not encode returns without the refresh.       *)
PressDone(f) ==
  /\ pc[f] = "pressing"
  /\ Unlocks(f)
  /\ Refresh(f) \/ (Returns(f) /\ UNCHANGED refreshing)
  /\ UNCHANGED <<screen, runtime, snapshot, timerVars, ecuVars, linkVars,
                 pointed, dtcVars, busyVars, upset>>

(* Mutant of LockRefused: the flags are dropped on success only.           *)
LockRefusedSilently(f) ==
  /\ pc[f] \in {"pressLock", "readLock", "eraseLock"} /\ lock # None
  /\ Returns(f)
  /\ UNCHANGED <<screenVars, timerVars, ecuVars, linkVars, pointed, lock,
                 dtcVars, busyVars, upset>>

(* ifAvailable: a lock held elsewhere refuses at once.                     *)
LockRefused(f) ==
  /\ pc[f] \in {"pressLock", "readLock", "eraseLock"} /\ lock # None
  /\ Returns(f)
  /\ dtcReading' = IF dtcReading = f THEN None ELSE dtcReading
  /\ dtcClearing' = IF dtcClearing = f THEN None ELSE dtcClearing
  /\ UNCHANGED <<screenVars, timerVars, ecuVars, linkVars, pointed, lock, dtc,
                 busyVars, upset>>

OtherTabLocks ==
  /\ "tab" \in Operations
  /\ \/ lock = None /\ lock' = OtherTab
     \/ lock = OtherTab /\ lock' = None
  /\ UNCHANGED <<screenVars, timerVars, ecuVars, linkVars, pointed, dtcVars,
                 busyVars, flowVars>>

-----------------------------------------------------------------------------
(* readFaults and clearFaults.  The link is taken at the click, the ECU    *)
(* when the lock is granted; no attach is made for either.                 *)
ReadFaults(f) ==
  /\ Operator(f, "faults")
  /\ ecuPhase = "ready" /\ ecu # None /\ dtcReading = None
  /\ dtcReading' = f
  /\ Goes(f, "readLock", [Nothing EXCEPT !.link = driver])
  /\ UNCHANGED <<screenVars, timerVars, ecuVars, linkVars, pointed, lock, dtc,
                 dtcClearing, busyVars>>

(* The prompt names the ECU; on a vehicle the write gates must agree.      *)
ClearFaults(f) ==
  /\ Operator(f, "erase")
  /\ ecuPhase = "ready" /\ ecu # None /\ dtc # NoFaults /\ dtcClearing = None
  /\ driver # 0 => writesEnabled
  /\ dtcClearing' = f
  /\ Goes(f, "eraseLock", [Nothing EXCEPT !.link = driver])
  /\ UNCHANGED <<screenVars, timerVars, ecuVars, linkVars, pointed, lock, dtc,
                 dtcReading, busyVars>>

DtcLocked(f) ==
  /\ pc[f] \in {"readLock", "eraseLock"} /\ lock = None
  /\ ecu # None
  /\ lock' = f
  /\ Goes(f, IF pc[f] = "readLock" THEN "reading" ELSE "erasing",
          [held[f] EXCEPT !.ecu = ecu])
  /\ UNCHANGED <<screenVars, timerVars, ecuVars, linkVars, pointed, dtcVars,
                 busyVars, upset>>

(* The flags are dropped in `finally`, whatever happened.                  *)
DropsFlags(f) ==
  /\ dtcReading' = IF dtcReading = f THEN None ELSE dtcReading
  /\ dtcClearing' = IF dtcClearing = f THEN None ELSE dtcClearing

(* Who answers: the simulated link, or the ECU the adapter is pointed at.  *)
Answers(f) == IF held[f].link = 0 THEN held[f].ecu ELSE pointed

FaultsRead(f) ==
  /\ pc[f] = "reading"
  /\ held[f].link \in {0, driver}
  /\ dtc' = [by |-> Answers(f), for |-> held[f].ecu]
  /\ Unlocks(f) /\ DropsFlags(f) /\ Returns(f)
  /\ UNCHANGED <<screenVars, timerVars, ecuVars, linkVars, pointed, busyVars, upset>>

(* A confirmed erase reads again, unless a read is already in progress.    *)
FaultsErased(f) ==
  /\ pc[f] = "erasing"
  /\ held[f].link \in {0, driver}
  /\ Unlocks(f)
  /\ IF dtcReading = None
     THEN /\ dtcReading' = f
          /\ Goes(f, "readLock", [Nothing EXCEPT !.link = driver])
          /\ UNCHANGED dtcClearing
     ELSE DropsFlags(f) /\ Returns(f)
  /\ UNCHANGED <<screenVars, timerVars, ecuVars, linkVars, pointed, dtc,
                 busyVars, upset>>

(* Not cleared, refused, unreadable or thrown: no new list, and no re-read. *)
DtcFails(f) ==
  /\ pc[f] \in {"reading", "erasing", "readLock", "eraseLock"}
  /\ pc[f] \in {"readLock", "eraseLock"} => lock = None /\ ecu = None
  /\ Unlocks(f) /\ DropsFlags(f) /\ Returns(f)
  /\ UNCHANGED <<screenVars, timerVars, ecuVars, linkVars, pointed, dtc,
                 busyVars, upset>>

-----------------------------------------------------------------------------
(* connect: the driver is published once identify has found an adapter.    *)
Connect(f) ==
  /\ Operator(f, "connect")
  /\ driver = 0 /\ connection # "connecting"
  /\ connection' = "connecting"
  /\ Goes(f, "connecting", Nothing)
  /\ UNCHANGED <<screenVars, timerVars, ecuVars, driver, connections,
                 writesEnabled, pointed, lock, dtcVars, busyVars>>

Connected(f) ==
  /\ pc[f] = "connecting" /\ connections < MaxConnections
  /\ connections' = connections + 1 /\ driver' = connections + 1
  /\ connection' = "connected"
  /\ OpensScreen(f, screen, driver', None)
  /\ UNCHANGED <<refreshing, ecuVars, writesEnabled, lock, dtcVars, busyVars, upset>>

ConnectFails(f) ==
  /\ pc[f] = "connecting"
  /\ connection' \in {"idle", "error"}
  /\ Returns(f)
  /\ UNCHANGED <<screenVars, timerVars, ecuVars, driver, connections,
                 writesEnabled, pointed, lock, dtcVars, busyVars, upset>>

(* The checkbox is there while a vehicle is attached, disconnecting or not. *)
ToggleWrites ==
  /\ "writes" \in Operations /\ driver # 0 /\ pluginRunning = None
  /\ writesEnabled' = ~writesEnabled
  /\ UNCHANGED <<screenVars, timerVars, ecuVars, driver, connection, connections,
                 pointed, lock, dtcVars, busyVars, flowVars>>

(* disconnect: closeProtocol, then the port, then the module variables.    *)
Disconnect(f) ==
  /\ Operator(f, "disconnect")
  /\ driver # 0
  /\ StopAutoRefresh
  /\ writesEnabled' = FALSE
  /\ Goes(f, "closing", [Nothing EXCEPT !.link = driver])
  /\ UNCHANGED <<screenVars, ecuVars, driver, connection, connections, pointed,
                 lock, dtcVars, busyVars>>

ProtocolClosed(f) ==
  /\ pc[f] = "closing"
  /\ pointed' = IF held[f].link = driver THEN None ELSE pointed
  /\ Goes(f, "closingPort", held[f])
  /\ UNCHANGED <<screenVars, timerVars, ecuVars, linkVars, lock, dtcVars,
                 busyVars, upset>>

PortClosed(f) ==
  /\ pc[f] = "closingPort"
  /\ driver' = 0 /\ connection' = "idle"
  /\ OpensScreen(f, screen, 0, None)
  /\ UNCHANGED <<refreshing, ecuVars, connections, writesEnabled, lock, dtcVars,
                 busyVars, upset>>

-----------------------------------------------------------------------------
(* startScan: the adapter goes from ECU to ECU, then the screen reopens.   *)
StartScan(f) ==
  /\ Operator(f, "scan")
  /\ driver # 0 /\ ~scanning
  /\ scanning' = TRUE
  /\ pointed' = None
  /\ Goes(f, "sweeping", [Nothing EXCEPT !.link = driver])
  /\ UNCHANGED <<screenVars, timerVars, ecuVars, linkVars, lock, dtcVars,
                 pluginRunning>>

Probe(f) ==
  /\ pc[f] = "sweeping" /\ held[f].link = driver
  /\ pointed' \in Ecus \cup {None}
  /\ UNCHANGED <<screenVars, timerVars, ecuVars, linkVars, lock, dtcVars,
                 busyVars, flowVars>>

(* Swept, stopped (both close the protocol) or thrown.                     *)
ScanEnds(f) ==
  /\ pc[f] = "sweeping"
  /\ scanning' = FALSE
  /\ \E left \in {pointed, None} : OpensScreen(f, screen, driver, left)
  /\ UNCHANGED <<refreshing, ecuVars, linkVars, lock, dtcVars, pluginRunning, upset>>

(* runPluginByName: the plugin's own ECU is attached, the procedure runs   *)
(* under the lock, and the screen that was open is opened again, by name.  *)
RunPlugin(f, e) ==
  /\ Operator(f, "plugin")
  /\ pluginRunning' = f
  /\ Goes(f, "pluginLoad", [ecu |-> e, screen |-> screen, link |-> 0])
  /\ UNCHANGED <<screenVars, timerVars, ecuVars, linkVars, pointed, lock,
                 dtcVars, scanning>>

PluginLoaded(f) ==
  /\ pc[f] = "pluginLoad"
  /\ IF driver = 0
     THEN Goes(f, "plugin", held[f]) /\ UNCHANGED pointed
     ELSE /\ pointed' = None
          /\ Goes(f, "pluginAttach", [held[f] EXCEPT !.link = driver])
  /\ UNCHANGED <<screenVars, timerVars, ecuVars, linkVars, lock, dtcVars,
                 busyVars, upset>>

PluginAttached(f) ==
  /\ pc[f] = "pluginAttach" /\ held[f].link = driver
  /\ pointed' \in {held[f].ecu, pointed, None}
  /\ Goes(f, "pluginLock", held[f])
  /\ UNCHANGED <<screenVars, timerVars, ecuVars, linkVars, lock, dtcVars,
                 busyVars, upset>>

PluginLocked(f) ==
  /\ pc[f] = "pluginLock" /\ lock = None
  /\ lock' = f
  /\ Goes(f, "plugin", held[f])
  /\ UNCHANGED <<screenVars, timerVars, ecuVars, linkVars, pointed, dtcVars,
                 busyVars, upset>>

(* Done, aborted, refused the lock, or thrown anywhere before.             *)
PluginEnds(f) ==
  /\ pc[f] \in {"pluginLoad", "pluginAttach", "pluginLock", "plugin"}
  /\ pc[f] = "pluginLock" => lock # None
  /\ Unlocks(f)
  /\ pluginRunning' = None
  /\ OpensScreen(f, held[f].screen, driver, pointed)
  /\ UNCHANGED <<refreshing, ecuVars, linkVars, dtcVars, scanning, upset>>

-----------------------------------------------------------------------------
(* What a handler does after the await it is at.                           *)
Continues(f) ==
  \/ EcuLoaded(f) \/ EcuPrimed(f) \/ EcuLoadFails(f)
  \/ ScreenAttached(f) \/ AttachFails(f) \/ PresendDone(f) \/ RefreshDone(f)
  \/ PressLocked(f) \/ PressDone(f) \/ LockRefused(f)
  \/ DtcLocked(f) \/ FaultsRead(f) \/ FaultsErased(f) \/ DtcFails(f)
  \/ Connected(f) \/ ConnectFails(f) \/ ProtocolClosed(f) \/ PortClosed(f)
  \/ Probe(f) \/ ScanEnds(f)
  \/ PluginLoaded(f) \/ PluginAttached(f) \/ PluginLocked(f) \/ PluginEnds(f)

Next ==
  \/ \E f \in Users :
       \/ \E e \in Ecus : SelectEcu(f, e) \/ RunPlugin(f, e)
       \/ \E s \in Screens : OpenScreen(f, s)
       \/ ForgetDatabase(f) \/ ReadNow(f) \/ SetAutoRefresh(f)
       \/ ReconfigureDemo(f) \/ PressButton(f) \/ ReadFaults(f) \/ ClearFaults(f)
       \/ Connect(f) \/ Disconnect(f) \/ StartScan(f)
  \/ \E f \in Flows : Continues(f)
  \/ TimerFires \/ ToggleWrites \/ OtherTabLocks

(* Awaited adapter exchanges end (the transport times out), and timers     *)
(* fire.  Nothing is assumed of the operator or of the network.            *)
Fairness ==
  /\ \A f \in Flows : WF_vars(RefreshDone(f))
  /\ WF_vars(TimerFires)

Spec     == Init /\ [][Next]_vars
FairSpec == Spec /\ Fairness

-----------------------------------------------------------------------------
Locals == [ecu : Ecus \cup {None}, screen : Screens \cup {None},
           link : 0 .. MaxConnections]

Awaits == {"idle", "loading", "priming", "attaching", "presend", "refreshing",
           "pressLock", "pressing", "readLock", "reading", "eraseLock",
           "erasing", "connecting", "closing", "closingPort", "sweeping",
           "pluginLoad", "pluginAttach", "pluginLock", "plugin"}

FlagsOK ==
  /\ refreshing \in BOOLEAN /\ autoRefresh \in BOOLEAN /\ armed \in BOOLEAN
  /\ writesEnabled \in BOOLEAN /\ scanning \in BOOLEAN /\ upset \in BOOLEAN

TypeOK ==
  /\ FlagsOK
  /\ selected \in Ecus \cup {None} /\ ecu \in Ecus \cup {None}
  /\ ecuPhase \in {"idle", "loading", "ready", "error"}
  /\ latest \in Users \cup {None}
  /\ screen \in Screens \cup {None}
  /\ runtime \in Locals /\ snapshot \in Locals
  /\ orphans \in Nat
  /\ driver \in 0 .. MaxConnections /\ connections \in 0 .. MaxConnections
  /\ connection \in {"idle", "connecting", "connected", "error"}
  /\ pointed \in Ecus \cup {None}
  /\ lock \in Flows \cup {OtherTab, None}
  /\ dtc \in [by : Ecus \cup {None}, for : Ecus \cup {None}]
  /\ dtcReading \in Users \cup {None} /\ dtcClearing \in Users \cup {None}
  /\ pluginRunning \in Users \cup {None}
  /\ pc \in [Flows -> Awaits] /\ held \in [Flows -> Locals]

(* Two selections race their loads.  Whichever answers first, an ECU shown *)
(* as ready is the one selected.                                           *)
ReadyIsSelected ==
  ecuPhase = "ready" /\ selected # None => ecu = selected

(* A busy flag is up exactly while the handler that raised it is under way *)
(* (an erase includes the reading that follows it), on every way out:      *)
(* refused, failed, thrown.  No button of the fault tab stays dead, and    *)
(* the flag that refuses a second refresh lets one through at a time.      *)
BusyFlags ==
  /\ refreshing <=> \E f \in Flows : pc[f] = "refreshing"
  /\ \A f, g \in Flows : pc[f] = "refreshing" /\ pc[g] = "refreshing" => f = g
  /\ \A f \in Flows : pc[f] \in {"readLock", "reading"} <=> dtcReading = f
  /\ \A f \in Flows : pc[f] \in {"eraseLock", "erasing"} => dtcClearing = f
  /\ dtcClearing # None =>
       pc[dtcClearing] \in {"eraseLock", "erasing", "readLock", "reading"}

(* Presses, fault reads, erases and plugins on a vehicle, in this tab and  *)
(* in others, exclude each other and none takes over from another half-way *)
(* through, whatever is selected, connected or disconnected meanwhile.     *)
Inside ==
  {f \in Flows : /\ pc[f] \in {"pressing", "reading", "erasing", "plugin"}
                 /\ lock = f \/ held[f].link # 0} \cup ({lock} \cap {OtherTab})

Mutex == INSTANCE AdapterMutex
           WITH Clients <- Flows \cup {OtherTab}, inside <- Inside

OneAtATime == Mutex!Spec

(* The busy flags tell what runs.  And as long as no handler was started   *)
(* while another was running, what is on screen came from the ECU that is  *)
(* selected and the screen that is open (for an ECU the adapter cannot     *)
(* reach, from whichever of its screens was opened last without the        *)
(* adapter: openScreen returns before it makes the new runtime), and       *)
(* requests on the bus go to no other ECU than the runtime's.              *)
Coherent ==
  /\ BusyFlags
  /\ ~upset =>
       /\ snapshot # Nothing =>
            /\ snapshot.ecu = selected
            /\ snapshot.screen = screen \/ selected \in Unreachable
       /\ \A f \in Flows :
            pc[f] \in {"presend", "refreshing", "pressing"} /\ held[f].link # 0 =>
              held[f].link = driver /\ pointed \in {held[f].ecu, None}

(* state.svelte.ts, in selectEcu: "One ECU's faults must never be read as  *)
(* another's."  A list shown was answered by the selected ECU.             *)
FaultsOfSelected == dtc # NoFaults => dtc.by \in {selected, None}

(* docs/architecture.md: "Writes are off by default and never remembered   *)
(* across a connection".  With no vehicle attached, writing is off.        *)
WritesForgotten == driver = 0 => ~writesEnabled

(* state.svelte.ts, of reopenCurrentScreen: "Rebuild the runtime so a link *)
(* change takes effect on the open screen."  Once the handlers are done,   *)
(* the runtime reads through the link there is.                            *)
LinkTakesEffect ==
  (\A f \in Flows : pc[f] = "idle") /\ runtime # Nothing => runtime.link = driver

(* state.svelte.ts, of runPluginByName: "a plugin must not leave the       *)
(* adapter pointed somewhere the UI does not think it is."  When a plugin  *)
(* has returned, the adapter is not at an ECU that is not the selected one.*)
PluginLeavesNoTrace ==
  [][\A f \in Flows :
       pc[f] = "plugin" /\ pc'[f] = "idle" => pointed' \in {selected, None}]_vars

(* Polling that is switched off stays off: timers that autoTimer no longer *)
(* names still fire, but they die out.                                     *)
TimersDrain == <>[](~autoRefresh) => <>[](Pending = 0)

(* The refresh flag never sticks.                                          *)
RefreshSettles == refreshing ~> ~refreshing
=============================================================================
