-------------------------- MODULE AppSession_proofs --------------------------
(***************************************************************************)
(* Theorems about AppSession for any operators' handlers, ECUs, screens    *)
(* and unreachable ECUs, and any number of connections.  None of the       *)
(* properties is inductive: what a handler will do when it goes on depends *)
(* on what its locals and the module variables agreed on when it left.     *)
(***************************************************************************)
EXTENDS AppSession, TLAPS

PluginStages == {"pluginLoad", "pluginAttach", "pluginLock", "plugin"}
InsideStages == {"pressing", "reading", "erasing", "plugin"}

(* The timer's handler does nothing but refresh.                           *)
TimerOnlyRefreshes == pc[Timer] \in {"idle", "refreshing"}

Types == TypeOK /\ TimerOnlyRefreshes

(* While the newest selection is under way its ECU is the selected one,    *)
(* unless the database has been forgotten, and none is shown as ready.     *)
SelectionInFlight ==
  latest # None =>
    /\ pc[latest] \in {"loading", "priming"} => ecuPhase = "loading"
    /\ pc[latest] = "loading" => selected \in {None, held[latest].ecu}
    /\ pc[latest] = "priming" => selected \in {None, ecu}

SelectionInv == ReadyIsSelected /\ SelectionInFlight

-----------------------------------------------------------------------------
(* The open screen is the loaded ECU's, and without a vehicle its runtime  *)
(* is the simulated one.  It rests on selectEcu closing the screen before  *)
(* its first await, and on the plugin dialog, which remembers a screen     *)
(* across its run, being modal.                                            *)
PluginFlag == \A f \in Flows : pc[f] \in PluginStages <=> pluginRunning = f

NoScreenWhileLoading ==
  latest # None /\ pc[latest] = "loading" =>
    /\ screen = None
    /\ \A f \in Flows : pc[f] \in PluginStages => held[f].screen = None

ScreenOfEcu == screen # None => Layout[screen] = ecu

AttachingOnLink == \A f \in Flows : pc[f] = "attaching" => held[f].link # 0

DemoRuntime == screen # None /\ driver = 0 => runtime.link = 0

ScreenInv ==
  /\ PluginFlag /\ NoScreenWhileLoading /\ ScreenOfEcu
  /\ AttachingOnLink /\ DemoRuntime

(* Whoever is in the middle of a procedure on a vehicle holds the lock, and *)
(* the lock is held for nothing else.                                      *)
LockHeld ==
  \A f \in Flows :
    /\ pc[f] \in InsideStages /\ held[f].link # 0 => lock = f
    /\ lock = f => pc[f] \in InsideStages
    /\ pc[f] = "pluginLoad" => held[f].link = 0

-----------------------------------------------------------------------------
(* As long as no handler was started while another was running, at most    *)
(* one is under way.                                                       *)
Alone == \A f, g \in Flows : pc[f] # "idle" /\ pc[g] # "idle" => f = g

(* ... the ECU that is shown, and the one that is loaded, is the selected. *)
SelectedLoaded ==
  /\ ecuPhase = "ready" \/ screen # None => ecu = selected
  /\ screen = None => runtime = Nothing /\ snapshot = Nothing
  /\ \A f \in Flows :
       /\ pc[f] = "loading" => latest = f /\ held[f].ecu = selected
       /\ pc[f] = "priming" => latest = f /\ ecu = selected

(* ... the runtime is the open screen's, but for the two ways by which     *)
(* openScreen leaves the one before in place.                              *)
RuntimeOfScreen ==
  runtime # Nothing =>
    /\ runtime.ecu = selected
    /\ \/ runtime.screen = screen
       \/ selected \in Unreachable
       \/ \E f \in Flows : pc[f] = "attaching"
    /\ selected \in Unreachable => runtime.link = 0

SnapshotOfScreen ==
  snapshot # Nothing =>
    /\ snapshot.ecu = selected
    /\ snapshot.screen = screen \/ selected \in Unreachable

(* ... and except for the handlers that turn the adapter elsewhere, which  *)
(* end by opening the screen again, the adapter is at the runtime's ECU.   *)
Elsewhere == {"attaching", "sweeping", "connecting"} \cup PluginStages

RuntimeAttached ==
  runtime.link # 0 /\ (\A f \in Flows : pc[f] \notin Elsewhere) =>
    runtime.link = driver /\ pointed \in {runtime.ecu, None}

(* ... and what a handler holds is what there is.                          *)
HeldIsCurrent ==
  \A f \in Flows :
    /\ pc[f] \in {"presend", "refreshing", "pressing"} =>
         held[f] = runtime /\ runtime # Nothing
    /\ pc[f] = "attaching" =>
         /\ held[f].ecu = ecu /\ held[f].screen = screen /\ screen # None
         /\ pointed = None /\ ecu \notin Unreachable
    /\ pc[f] \in PluginStages => held[f].screen = screen
    /\ pc[f] = "connecting" => driver = 0

CalmInv ==
  ~upset =>
    /\ Alone /\ SelectedLoaded /\ RuntimeOfScreen /\ SnapshotOfScreen
    /\ RuntimeAttached /\ HeldIsCurrent

SessionInv ==
  Types /\ SelectionInv /\ ScreenInv /\ LockHeld /\ BusyFlags /\ CalmInv

-----------------------------------------------------------------------------
LEMMA InitInv == Init => SessionInv
<1> SUFFICES ASSUME Init PROVE SessionInv
    OBVIOUS
<1> USE ScreensAssumption, NamesAssumption, LimitsAssumption
    DEF Init, Flows, Locals, Nothing, NoFaults
<1>0. FlagsOK BY DEF FlagsOK
<1>1. Types BY <1>0 DEF Types, TypeOK, TimerOnlyRefreshes, Awaits
<1>2. SelectionInv BY DEF SelectionInv, ReadyIsSelected, SelectionInFlight
<1>3. ScreenInv BY DEF ScreenInv, PluginFlag, PluginStages, NoScreenWhileLoading,
                       ScreenOfEcu, AttachingOnLink, DemoRuntime
<1>4. LockHeld BY DEF LockHeld, InsideStages
<1>5. BusyFlags BY DEF BusyFlags
<1>6. CalmInv BY DEF CalmInv, Alone, SelectedLoaded, RuntimeOfScreen, SnapshotOfScreen,
                     RuntimeAttached, HeldIsCurrent, PluginStages
<1> QED BY <1>1, <1>2, <1>3, <1>4, <1>5, <1>6 DEF SessionInv

(* Flags are raised, dropped or toggled.                                   *)
LEMMA FlagsNext == FlagsOK /\ [Next]_vars => FlagsOK'
<1> SUFFICES ASSUME FlagsOK, [Next]_vars PROVE FlagsOK'
    OBVIOUS
<1> USE DEF FlagsOK, Goes, Returns, Enters, Operator, OpensScreen, StopAutoRefresh, Refresh,
            screenVars, timerVars, linkVars, busyVars, flowVars
<1>1. ASSUME NEW f \in Users, \E e \in Ecus : SelectEcu(f, e) \/ RunPlugin(f, e) PROVE FlagsOK'
      BY <1>1 DEF SelectEcu, RunPlugin
<1>2. ASSUME NEW f \in Users, \E s \in Screens : OpenScreen(f, s) PROVE FlagsOK'
      BY <1>2 DEF OpenScreen
<1>3. ASSUME NEW f \in Users,
             \/ ForgetDatabase(f) \/ ReadNow(f) \/ SetAutoRefresh(f) \/ ReconfigureDemo(f)
             \/ PressButton(f) \/ ReadFaults(f) \/ ClearFaults(f)
             \/ Connect(f) \/ Disconnect(f) \/ StartScan(f)
      PROVE  FlagsOK'
      BY <1>3 DEF ForgetDatabase, ReadNow, SetAutoRefresh, ReconfigureDemo, PressButton,
                  ReadFaults, ClearFaults, Connect, Disconnect, StartScan
<1>4. ASSUME NEW f \in Flows, Continues(f) PROVE FlagsOK'
      BY <1>4, ZenonT(60) DEF Continues, EcuLoaded, EcuPrimed, EcuLoadFails, ScreenAttached, AttachFails,
                  PresendDone, RefreshDone, PressLocked, PressDone, LockRefused, DtcLocked,
                  FaultsRead, FaultsErased, DtcFails, Connected, ConnectFails, ProtocolClosed,
                  PortClosed, Probe, ScanEnds, PluginLoaded, PluginAttached, PluginLocked,
                  PluginEnds
<1>5. CASE TimerFires \/ ToggleWrites \/ OtherTabLocks
      BY <1>5 DEF TimerFires, ToggleWrites, OtherTabLocks
<1>6. CASE UNCHANGED vars
      BY <1>6 DEF vars
<1> QED BY <1>1, <1>2, <1>3, <1>4, <1>5, <1>6 DEF Next

(* Every handler keeps the types.                                          *)
LEMMA TypesNext == Types /\ [Next]_vars => Types'
<1> SUFFICES ASSUME Types, [Next]_vars, FlagsOK' PROVE Types'
    BY FlagsNext DEF Types, TypeOK
<1> USE ScreensAssumption, NamesAssumption, LimitsAssumption
    DEF Types, TypeOK, TimerOnlyRefreshes, Flows, Locals,
        Awaits, Nothing, NoFaults, Goes, Returns, Enters, Operator, Pending,
        vars, screenVars, timerVars, ecuVars, linkVars, dtcVars, busyVars,
        flowVars
<1>1. ASSUME NEW f \in Users, NEW e \in Ecus, SelectEcu(f, e) PROVE Types'
    BY <1>1 DEF SelectEcu, StopAutoRefresh
<1>2. ASSUME NEW f \in Users, NEW e \in Ecus, RunPlugin(f, e) PROVE Types'
    BY <1>2 DEF RunPlugin
<1>3. ASSUME NEW f \in Users, NEW s \in Screens, OpenScreen(f, s) PROVE Types'
    BY <1>3 DEF OpenScreen, OpensScreen, StopAutoRefresh
<1>4. ASSUME NEW f \in Users, ForgetDatabase(f) PROVE Types'
    BY <1>4 DEF ForgetDatabase
<1>5. ASSUME NEW f \in Users, ReadNow(f) PROVE Types'
    BY <1>5 DEF ReadNow, Refresh
<1>6. ASSUME NEW f \in Users, SetAutoRefresh(f) PROVE Types'
    BY <1>6 DEF SetAutoRefresh, Refresh, StopAutoRefresh
<1>7. ASSUME NEW f \in Users, ReconfigureDemo(f) PROVE Types'
    BY <1>7 DEF ReconfigureDemo
<1>8. ASSUME NEW f \in Users, PressButton(f) PROVE Types'
    BY <1>8 DEF PressButton
<1>9. ASSUME NEW f \in Users, ReadFaults(f) PROVE Types'
    BY <1>9 DEF ReadFaults
<1>10. ASSUME NEW f \in Users, ClearFaults(f) PROVE Types'
    BY <1>10 DEF ClearFaults
<1>11. ASSUME NEW f \in Users, Connect(f) PROVE Types'
    BY <1>11 DEF Connect
<1>12. ASSUME NEW f \in Users, Disconnect(f) PROVE Types'
    BY <1>12 DEF Disconnect, StopAutoRefresh
<1>13. ASSUME NEW f \in Users, StartScan(f) PROVE Types'
    BY <1>13 DEF StartScan
<1>14. ASSUME NEW f \in Flows, EcuLoaded(f) PROVE Types'
    BY <1>14 DEF EcuLoaded
<1>15. ASSUME NEW f \in Flows, EcuPrimed(f) PROVE Types'
    BY <1>15 DEF EcuPrimed
<1>16. ASSUME NEW f \in Flows, EcuLoadFails(f) PROVE Types'
    BY <1>16 DEF EcuLoadFails
<1>17. ASSUME NEW f \in Flows, ScreenAttached(f) PROVE Types'
    BY <1>17 DEF ScreenAttached
<1>18. ASSUME NEW f \in Flows, AttachFails(f) PROVE Types'
    BY <1>18 DEF AttachFails
<1>19. ASSUME NEW f \in Flows, PresendDone(f) PROVE Types'
    BY <1>19 DEF PresendDone, Refresh
<1>20. ASSUME NEW f \in Flows, RefreshDone(f) PROVE Types'
    BY <1>20 DEF RefreshDone
<1>21. ASSUME NEW f \in Flows, PressLocked(f) PROVE Types'
    BY <1>21 DEF PressLocked
<1>22. ASSUME NEW f \in Flows, PressDone(f) PROVE Types'
    BY <1>22 DEF PressDone, Refresh, Unlocks
<1>23. ASSUME NEW f \in Flows, LockRefused(f) PROVE Types'
    BY <1>23 DEF LockRefused
<1>24. ASSUME NEW f \in Flows, DtcLocked(f) PROVE Types'
    BY <1>24 DEF DtcLocked
<1>25. ASSUME NEW f \in Flows, FaultsRead(f) PROVE Types'
    BY <1>25 DEF FaultsRead, Unlocks, DropsFlags, Answers
<1>26. ASSUME NEW f \in Flows, FaultsErased(f) PROVE Types'
    BY <1>26 DEF FaultsErased, Unlocks, DropsFlags
<1>27. ASSUME NEW f \in Flows, DtcFails(f) PROVE Types'
    BY <1>27 DEF DtcFails, Unlocks, DropsFlags
<1>28. ASSUME NEW f \in Flows, Connected(f) PROVE Types'
    BY <1>28 DEF Connected, OpensScreen, StopAutoRefresh
<1>29. ASSUME NEW f \in Flows, ConnectFails(f) PROVE Types'
    BY <1>29 DEF ConnectFails
<1>30. ASSUME NEW f \in Flows, ProtocolClosed(f) PROVE Types'
    BY <1>30 DEF ProtocolClosed
<1>31. ASSUME NEW f \in Flows, PortClosed(f) PROVE Types'
    BY <1>31 DEF PortClosed, OpensScreen, StopAutoRefresh
<1>32. ASSUME NEW f \in Flows, Probe(f) PROVE Types'
    BY <1>32 DEF Probe
<1>33. ASSUME NEW f \in Flows, ScanEnds(f) PROVE Types'
    BY <1>33 DEF ScanEnds, OpensScreen, StopAutoRefresh
<1>34. ASSUME NEW f \in Flows, PluginLoaded(f) PROVE Types'
    BY <1>34 DEF PluginLoaded
<1>35. ASSUME NEW f \in Flows, PluginAttached(f) PROVE Types'
    BY <1>35 DEF PluginAttached
<1>36. ASSUME NEW f \in Flows, PluginLocked(f) PROVE Types'
    BY <1>36 DEF PluginLocked
<1>37. ASSUME NEW f \in Flows, PluginEnds(f) PROVE Types'
    BY <1>37 DEF PluginEnds, OpensScreen, StopAutoRefresh, Unlocks
<1>38. ASSUME TimerFires PROVE Types'
    BY <1>38 DEF TimerFires, Refresh
<1>39. ASSUME ToggleWrites PROVE Types'
    BY <1>39 DEF ToggleWrites
<1>40. ASSUME OtherTabLocks PROVE Types'
    BY <1>40 DEF OtherTabLocks
<1>41. CASE UNCHANGED vars
    BY <1>41
<1> QED BY <1>1, <1>2, <1>3, <1>4, <1>5, <1>6, <1>7, <1>8, <1>9, <1>10, <1>11, <1>12, <1>13, <1>14, <1>15, <1>16, <1>17, <1>18, <1>19, <1>20, <1>21, <1>22, <1>23, <1>24, <1>25, <1>26, <1>27, <1>28, <1>29, <1>30, <1>31, <1>32, <1>33, <1>34, <1>35, <1>36, <1>37, <1>38, <1>39, <1>40, <1>41 DEF Next, Continues

(* A selection touches what is shown only while its token is the newest.   *)
LEMMA SelectionNext == Types /\ SelectionInv /\ [Next]_vars => SelectionInv'
<1> SUFFICES ASSUME Types /\ SelectionInv, [Next]_vars PROVE SelectionInv'
    OBVIOUS
<1> USE ScreensAssumption, NamesAssumption, LimitsAssumption
    DEF SelectionInv, ReadyIsSelected, SelectionInFlight, Types, TypeOK,
        FlagsOK, TimerOnlyRefreshes, Flows, Locals, Awaits, Nothing, NoFaults,
        Goes, Returns, Enters, Operator, Pending, vars, screenVars, timerVars,
        ecuVars, linkVars, dtcVars, busyVars, flowVars
<1>1. ASSUME NEW f \in Users, NEW e \in Ecus, SelectEcu(f, e) PROVE SelectionInv'
    BY <1>1 DEF SelectEcu, StopAutoRefresh
<1>2. ASSUME NEW f \in Users, NEW e \in Ecus, RunPlugin(f, e) PROVE SelectionInv'
    BY <1>2 DEF RunPlugin
<1>3. ASSUME NEW f \in Users, NEW s \in Screens, OpenScreen(f, s) PROVE SelectionInv'
    BY <1>3 DEF OpenScreen, OpensScreen, StopAutoRefresh
<1>4. ASSUME NEW f \in Users, ForgetDatabase(f) PROVE SelectionInv'
    BY <1>4 DEF ForgetDatabase
<1>5. ASSUME NEW f \in Users, ReadNow(f) PROVE SelectionInv'
    BY <1>5 DEF ReadNow, Refresh
<1>6. ASSUME NEW f \in Users, SetAutoRefresh(f) PROVE SelectionInv'
    BY <1>6 DEF SetAutoRefresh, Refresh, StopAutoRefresh
<1>7. ASSUME NEW f \in Users, ReconfigureDemo(f) PROVE SelectionInv'
    BY <1>7 DEF ReconfigureDemo
<1>8. ASSUME NEW f \in Users, PressButton(f) PROVE SelectionInv'
    BY <1>8 DEF PressButton
<1>9. ASSUME NEW f \in Users, ReadFaults(f) PROVE SelectionInv'
    BY <1>9 DEF ReadFaults
<1>10. ASSUME NEW f \in Users, ClearFaults(f) PROVE SelectionInv'
    BY <1>10 DEF ClearFaults
<1>11. ASSUME NEW f \in Users, Connect(f) PROVE SelectionInv'
    BY <1>11 DEF Connect
<1>12. ASSUME NEW f \in Users, Disconnect(f) PROVE SelectionInv'
    BY <1>12 DEF Disconnect, StopAutoRefresh
<1>13. ASSUME NEW f \in Users, StartScan(f) PROVE SelectionInv'
    BY <1>13 DEF StartScan
<1>14. ASSUME NEW f \in Flows, EcuLoaded(f) PROVE SelectionInv'
    BY <1>14 DEF EcuLoaded
<1>15. ASSUME NEW f \in Flows, EcuPrimed(f) PROVE SelectionInv'
    BY <1>15 DEF EcuPrimed
<1>16. ASSUME NEW f \in Flows, EcuLoadFails(f) PROVE SelectionInv'
    BY <1>16 DEF EcuLoadFails
<1>17. ASSUME NEW f \in Flows, ScreenAttached(f) PROVE SelectionInv'
    BY <1>17 DEF ScreenAttached
<1>18. ASSUME NEW f \in Flows, AttachFails(f) PROVE SelectionInv'
    BY <1>18 DEF AttachFails
<1>19. ASSUME NEW f \in Flows, PresendDone(f) PROVE SelectionInv'
    BY <1>19 DEF PresendDone, Refresh
<1>20. ASSUME NEW f \in Flows, RefreshDone(f) PROVE SelectionInv'
    BY <1>20 DEF RefreshDone
<1>21. ASSUME NEW f \in Flows, PressLocked(f) PROVE SelectionInv'
    BY <1>21 DEF PressLocked
<1>22. ASSUME NEW f \in Flows, PressDone(f) PROVE SelectionInv'
    BY <1>22 DEF PressDone, Refresh, Unlocks
<1>23. ASSUME NEW f \in Flows, LockRefused(f) PROVE SelectionInv'
    BY <1>23 DEF LockRefused
<1>24. ASSUME NEW f \in Flows, DtcLocked(f) PROVE SelectionInv'
    BY <1>24 DEF DtcLocked
<1>25. ASSUME NEW f \in Flows, FaultsRead(f) PROVE SelectionInv'
    BY <1>25 DEF FaultsRead, Unlocks, DropsFlags, Answers
<1>26. ASSUME NEW f \in Flows, FaultsErased(f) PROVE SelectionInv'
    BY <1>26 DEF FaultsErased, Unlocks, DropsFlags
<1>27. ASSUME NEW f \in Flows, DtcFails(f) PROVE SelectionInv'
    BY <1>27 DEF DtcFails, Unlocks, DropsFlags
<1>28. ASSUME NEW f \in Flows, Connected(f) PROVE SelectionInv'
    BY <1>28 DEF Connected, OpensScreen, StopAutoRefresh
<1>29. ASSUME NEW f \in Flows, ConnectFails(f) PROVE SelectionInv'
    BY <1>29 DEF ConnectFails
<1>30. ASSUME NEW f \in Flows, ProtocolClosed(f) PROVE SelectionInv'
    BY <1>30 DEF ProtocolClosed
<1>31. ASSUME NEW f \in Flows, PortClosed(f) PROVE SelectionInv'
    BY <1>31 DEF PortClosed, OpensScreen, StopAutoRefresh
<1>32. ASSUME NEW f \in Flows, Probe(f) PROVE SelectionInv'
    BY <1>32 DEF Probe
<1>33. ASSUME NEW f \in Flows, ScanEnds(f) PROVE SelectionInv'
    BY <1>33 DEF ScanEnds, OpensScreen, StopAutoRefresh
<1>34. ASSUME NEW f \in Flows, PluginLoaded(f) PROVE SelectionInv'
    BY <1>34 DEF PluginLoaded
<1>35. ASSUME NEW f \in Flows, PluginAttached(f) PROVE SelectionInv'
    BY <1>35 DEF PluginAttached
<1>36. ASSUME NEW f \in Flows, PluginLocked(f) PROVE SelectionInv'
    BY <1>36 DEF PluginLocked
<1>37. ASSUME NEW f \in Flows, PluginEnds(f) PROVE SelectionInv'
    BY <1>37 DEF PluginEnds, OpensScreen, StopAutoRefresh, Unlocks
<1>38. ASSUME TimerFires PROVE SelectionInv'
    BY <1>38 DEF TimerFires, Refresh
<1>39. ASSUME ToggleWrites PROVE SelectionInv'
    BY <1>39 DEF ToggleWrites
<1>40. ASSUME OtherTabLocks PROVE SelectionInv'
    BY <1>40 DEF OtherTabLocks
<1>41. CASE UNCHANGED vars
    BY <1>41
<1> QED BY <1>1, <1>2, <1>3, <1>4, <1>5, <1>6, <1>7, <1>8, <1>9, <1>10, <1>11, <1>12, <1>13, <1>14, <1>15, <1>16, <1>17, <1>18, <1>19, <1>20, <1>21, <1>22, <1>23, <1>24, <1>25, <1>26, <1>27, <1>28, <1>29, <1>30, <1>31, <1>32, <1>33, <1>34, <1>35, <1>36, <1>37, <1>38, <1>39, <1>40, <1>41 DEF Next, Continues

(* A screen is opened of the loaded ECU, and over the link there is.       *)
LEMMA ScreenNext == Types /\ SelectionInv /\ ScreenInv /\ [Next]_vars => ScreenInv'
<1> SUFFICES ASSUME Types /\ SelectionInv /\ ScreenInv, [Next]_vars PROVE ScreenInv'
    OBVIOUS
<1> USE ScreensAssumption, NamesAssumption, LimitsAssumption
    DEF ScreenInv, PluginFlag, PluginStages, NoScreenWhileLoading,
        ScreenOfEcu, AttachingOnLink, DemoRuntime, SelectionInv,
        SelectionInFlight, Types, TypeOK, FlagsOK, TimerOnlyRefreshes, Flows,
        Locals, Awaits, Nothing, NoFaults, Goes, Returns, Enters, Operator,
        Pending, vars, screenVars, timerVars, ecuVars, linkVars, dtcVars,
        busyVars, flowVars
<1>1. ASSUME NEW f \in Users, NEW e \in Ecus, SelectEcu(f, e) PROVE ScreenInv'
    BY <1>1 DEF SelectEcu, StopAutoRefresh
<1>2. ASSUME NEW f \in Users, NEW e \in Ecus, RunPlugin(f, e) PROVE ScreenInv'
    BY <1>2 DEF RunPlugin
<1>3. ASSUME NEW f \in Users, NEW s \in Screens, OpenScreen(f, s) PROVE ScreenInv'
    BY <1>3 DEF OpenScreen, OpensScreen, StopAutoRefresh
<1>4. ASSUME NEW f \in Users, ForgetDatabase(f) PROVE ScreenInv'
    BY <1>4 DEF ForgetDatabase
<1>5. ASSUME NEW f \in Users, ReadNow(f) PROVE ScreenInv'
    BY <1>5 DEF ReadNow, Refresh
<1>6. ASSUME NEW f \in Users, SetAutoRefresh(f) PROVE ScreenInv'
    BY <1>6 DEF SetAutoRefresh, Refresh, StopAutoRefresh
<1>7. ASSUME NEW f \in Users, ReconfigureDemo(f) PROVE ScreenInv'
    BY <1>7 DEF ReconfigureDemo
<1>8. ASSUME NEW f \in Users, PressButton(f) PROVE ScreenInv'
    BY <1>8 DEF PressButton
<1>9. ASSUME NEW f \in Users, ReadFaults(f) PROVE ScreenInv'
    BY <1>9 DEF ReadFaults
<1>10. ASSUME NEW f \in Users, ClearFaults(f) PROVE ScreenInv'
    BY <1>10 DEF ClearFaults
<1>11. ASSUME NEW f \in Users, Connect(f) PROVE ScreenInv'
    BY <1>11 DEF Connect
<1>12. ASSUME NEW f \in Users, Disconnect(f) PROVE ScreenInv'
    BY <1>12 DEF Disconnect, StopAutoRefresh
<1>13. ASSUME NEW f \in Users, StartScan(f) PROVE ScreenInv'
    BY <1>13 DEF StartScan
<1>14. ASSUME NEW f \in Flows, EcuLoaded(f) PROVE ScreenInv'
    BY <1>14 DEF EcuLoaded
<1>15. ASSUME NEW f \in Flows, EcuPrimed(f) PROVE ScreenInv'
    BY <1>15 DEF EcuPrimed
<1>16. ASSUME NEW f \in Flows, EcuLoadFails(f) PROVE ScreenInv'
    BY <1>16 DEF EcuLoadFails
<1>17. ASSUME NEW f \in Flows, ScreenAttached(f) PROVE ScreenInv'
    BY <1>17 DEF ScreenAttached
<1>18. ASSUME NEW f \in Flows, AttachFails(f) PROVE ScreenInv'
    BY <1>18 DEF AttachFails
<1>19. ASSUME NEW f \in Flows, PresendDone(f) PROVE ScreenInv'
    BY <1>19 DEF PresendDone, Refresh
<1>20. ASSUME NEW f \in Flows, RefreshDone(f) PROVE ScreenInv'
    BY <1>20 DEF RefreshDone
<1>21. ASSUME NEW f \in Flows, PressLocked(f) PROVE ScreenInv'
    BY <1>21 DEF PressLocked
<1>22. ASSUME NEW f \in Flows, PressDone(f) PROVE ScreenInv'
    BY <1>22 DEF PressDone, Refresh, Unlocks
<1>23. ASSUME NEW f \in Flows, LockRefused(f) PROVE ScreenInv'
    BY <1>23 DEF LockRefused
<1>24. ASSUME NEW f \in Flows, DtcLocked(f) PROVE ScreenInv'
    BY <1>24 DEF DtcLocked
<1>25. ASSUME NEW f \in Flows, FaultsRead(f) PROVE ScreenInv'
    BY <1>25 DEF FaultsRead, Unlocks, DropsFlags, Answers
<1>26. ASSUME NEW f \in Flows, FaultsErased(f) PROVE ScreenInv'
    BY <1>26 DEF FaultsErased, Unlocks, DropsFlags
<1>27. ASSUME NEW f \in Flows, DtcFails(f) PROVE ScreenInv'
    BY <1>27 DEF DtcFails, Unlocks, DropsFlags
<1>28. ASSUME NEW f \in Flows, Connected(f) PROVE ScreenInv'
    BY <1>28 DEF Connected, OpensScreen, StopAutoRefresh
<1>29. ASSUME NEW f \in Flows, ConnectFails(f) PROVE ScreenInv'
    BY <1>29 DEF ConnectFails
<1>30. ASSUME NEW f \in Flows, ProtocolClosed(f) PROVE ScreenInv'
    BY <1>30 DEF ProtocolClosed
<1>31. ASSUME NEW f \in Flows, PortClosed(f) PROVE ScreenInv'
    BY <1>31 DEF PortClosed, OpensScreen, StopAutoRefresh
<1>32. ASSUME NEW f \in Flows, Probe(f) PROVE ScreenInv'
    BY <1>32 DEF Probe
<1>33. ASSUME NEW f \in Flows, ScanEnds(f) PROVE ScreenInv'
    BY <1>33 DEF ScanEnds, OpensScreen, StopAutoRefresh
<1>34. ASSUME NEW f \in Flows, PluginLoaded(f) PROVE ScreenInv'
    BY <1>34 DEF PluginLoaded
<1>35. ASSUME NEW f \in Flows, PluginAttached(f) PROVE ScreenInv'
    BY <1>35 DEF PluginAttached
<1>36. ASSUME NEW f \in Flows, PluginLocked(f) PROVE ScreenInv'
    BY <1>36 DEF PluginLocked
<1>37. ASSUME NEW f \in Flows, PluginEnds(f) PROVE ScreenInv'
    BY <1>37 DEF PluginEnds, OpensScreen, StopAutoRefresh, Unlocks
<1>38. ASSUME TimerFires PROVE ScreenInv'
    BY <1>38 DEF TimerFires, Refresh
<1>39. ASSUME ToggleWrites PROVE ScreenInv'
    BY <1>39 DEF ToggleWrites
<1>40. ASSUME OtherTabLocks PROVE ScreenInv'
    BY <1>40 DEF OtherTabLocks
<1>41. CASE UNCHANGED vars
    BY <1>41
<1> QED BY <1>1, <1>2, <1>3, <1>4, <1>5, <1>6, <1>7, <1>8, <1>9, <1>10, <1>11, <1>12, <1>13, <1>14, <1>15, <1>16, <1>17, <1>18, <1>19, <1>20, <1>21, <1>22, <1>23, <1>24, <1>25, <1>26, <1>27, <1>28, <1>29, <1>30, <1>31, <1>32, <1>33, <1>34, <1>35, <1>36, <1>37, <1>38, <1>39, <1>40, <1>41 DEF Next, Continues

(* A procedure begins with the lock and ends by giving it back; in demo    *)
(* mode it needs none, as its link is the simulated one (DemoRuntime).     *)
LEMMA LockNext == Types /\ ScreenInv /\ LockHeld /\ [Next]_vars => LockHeld'
<1> SUFFICES ASSUME Types /\ ScreenInv /\ LockHeld, [Next]_vars PROVE LockHeld'
    OBVIOUS
<1> USE ScreensAssumption, NamesAssumption, LimitsAssumption
    DEF LockHeld, InsideStages, ScreenInv, DemoRuntime, Types, TypeOK,
        FlagsOK, TimerOnlyRefreshes, Flows, Locals, Awaits, Nothing, NoFaults,
        Goes, Returns, Enters, Operator, Pending, vars, screenVars, timerVars,
        ecuVars, linkVars, dtcVars, busyVars, flowVars
<1>1. ASSUME NEW f \in Users, NEW e \in Ecus, SelectEcu(f, e) PROVE LockHeld'
    BY <1>1 DEF SelectEcu, StopAutoRefresh
<1>2. ASSUME NEW f \in Users, NEW e \in Ecus, RunPlugin(f, e) PROVE LockHeld'
    BY <1>2 DEF RunPlugin
<1>3. ASSUME NEW f \in Users, NEW s \in Screens, OpenScreen(f, s) PROVE LockHeld'
    BY <1>3 DEF OpenScreen, OpensScreen, StopAutoRefresh
<1>4. ASSUME NEW f \in Users, ForgetDatabase(f) PROVE LockHeld'
    BY <1>4 DEF ForgetDatabase
<1>5. ASSUME NEW f \in Users, ReadNow(f) PROVE LockHeld'
    BY <1>5 DEF ReadNow, Refresh
<1>6. ASSUME NEW f \in Users, SetAutoRefresh(f) PROVE LockHeld'
    BY <1>6 DEF SetAutoRefresh, Refresh, StopAutoRefresh
<1>7. ASSUME NEW f \in Users, ReconfigureDemo(f) PROVE LockHeld'
    BY <1>7 DEF ReconfigureDemo
<1>8. ASSUME NEW f \in Users, PressButton(f) PROVE LockHeld'
    BY <1>8 DEF PressButton
<1>9. ASSUME NEW f \in Users, ReadFaults(f) PROVE LockHeld'
    BY <1>9 DEF ReadFaults
<1>10. ASSUME NEW f \in Users, ClearFaults(f) PROVE LockHeld'
    BY <1>10 DEF ClearFaults
<1>11. ASSUME NEW f \in Users, Connect(f) PROVE LockHeld'
    BY <1>11 DEF Connect
<1>12. ASSUME NEW f \in Users, Disconnect(f) PROVE LockHeld'
    BY <1>12 DEF Disconnect, StopAutoRefresh
<1>13. ASSUME NEW f \in Users, StartScan(f) PROVE LockHeld'
    BY <1>13 DEF StartScan
<1>14. ASSUME NEW f \in Flows, EcuLoaded(f) PROVE LockHeld'
    BY <1>14 DEF EcuLoaded
<1>15. ASSUME NEW f \in Flows, EcuPrimed(f) PROVE LockHeld'
    BY <1>15 DEF EcuPrimed
<1>16. ASSUME NEW f \in Flows, EcuLoadFails(f) PROVE LockHeld'
    BY <1>16 DEF EcuLoadFails
<1>17. ASSUME NEW f \in Flows, ScreenAttached(f) PROVE LockHeld'
    BY <1>17 DEF ScreenAttached
<1>18. ASSUME NEW f \in Flows, AttachFails(f) PROVE LockHeld'
    BY <1>18 DEF AttachFails
<1>19. ASSUME NEW f \in Flows, PresendDone(f) PROVE LockHeld'
    BY <1>19 DEF PresendDone, Refresh
<1>20. ASSUME NEW f \in Flows, RefreshDone(f) PROVE LockHeld'
    BY <1>20 DEF RefreshDone
<1>21. ASSUME NEW f \in Flows, PressLocked(f) PROVE LockHeld'
    BY <1>21 DEF PressLocked
<1>22. ASSUME NEW f \in Flows, PressDone(f) PROVE LockHeld'
    BY <1>22 DEF PressDone, Refresh, Unlocks
<1>23. ASSUME NEW f \in Flows, LockRefused(f) PROVE LockHeld'
    BY <1>23 DEF LockRefused
<1>24. ASSUME NEW f \in Flows, DtcLocked(f) PROVE LockHeld'
    BY <1>24 DEF DtcLocked
<1>25. ASSUME NEW f \in Flows, FaultsRead(f) PROVE LockHeld'
    BY <1>25 DEF FaultsRead, Unlocks, DropsFlags, Answers
<1>26. ASSUME NEW f \in Flows, FaultsErased(f) PROVE LockHeld'
    BY <1>26 DEF FaultsErased, Unlocks, DropsFlags
<1>27. ASSUME NEW f \in Flows, DtcFails(f) PROVE LockHeld'
    BY <1>27 DEF DtcFails, Unlocks, DropsFlags
<1>28. ASSUME NEW f \in Flows, Connected(f) PROVE LockHeld'
    BY <1>28 DEF Connected, OpensScreen, StopAutoRefresh
<1>29. ASSUME NEW f \in Flows, ConnectFails(f) PROVE LockHeld'
    BY <1>29 DEF ConnectFails
<1>30. ASSUME NEW f \in Flows, ProtocolClosed(f) PROVE LockHeld'
    BY <1>30 DEF ProtocolClosed
<1>31. ASSUME NEW f \in Flows, PortClosed(f) PROVE LockHeld'
    BY <1>31 DEF PortClosed, OpensScreen, StopAutoRefresh
<1>32. ASSUME NEW f \in Flows, Probe(f) PROVE LockHeld'
    BY <1>32 DEF Probe
<1>33. ASSUME NEW f \in Flows, ScanEnds(f) PROVE LockHeld'
    BY <1>33 DEF ScanEnds, OpensScreen, StopAutoRefresh
<1>34. ASSUME NEW f \in Flows, PluginLoaded(f) PROVE LockHeld'
    BY <1>34 DEF PluginLoaded
<1>35. ASSUME NEW f \in Flows, PluginAttached(f) PROVE LockHeld'
    BY <1>35 DEF PluginAttached
<1>36. ASSUME NEW f \in Flows, PluginLocked(f) PROVE LockHeld'
    BY <1>36 DEF PluginLocked
<1>37. ASSUME NEW f \in Flows, PluginEnds(f) PROVE LockHeld'
    BY <1>37 DEF PluginEnds, OpensScreen, StopAutoRefresh, Unlocks
<1>38. ASSUME TimerFires PROVE LockHeld'
    BY <1>38 DEF TimerFires, Refresh
<1>39. ASSUME ToggleWrites PROVE LockHeld'
    BY <1>39 DEF ToggleWrites
<1>40. ASSUME OtherTabLocks PROVE LockHeld'
    BY <1>40 DEF OtherTabLocks
<1>41. CASE UNCHANGED vars
    BY <1>41
<1> QED BY <1>1, <1>2, <1>3, <1>4, <1>5, <1>6, <1>7, <1>8, <1>9, <1>10, <1>11, <1>12, <1>13, <1>14, <1>15, <1>16, <1>17, <1>18, <1>19, <1>20, <1>21, <1>22, <1>23, <1>24, <1>25, <1>26, <1>27, <1>28, <1>29, <1>30, <1>31, <1>32, <1>33, <1>34, <1>35, <1>36, <1>37, <1>38, <1>39, <1>40, <1>41 DEF Next, Continues

(* Every way out of a handler drops the flags it raised.                   *)
LEMMA BusyNext == Types /\ BusyFlags /\ [Next]_vars => BusyFlags'
<1> SUFFICES ASSUME Types /\ BusyFlags, [Next]_vars PROVE BusyFlags'
    OBVIOUS
<1> USE ScreensAssumption, NamesAssumption, LimitsAssumption
    DEF BusyFlags, Types, TypeOK, FlagsOK, TimerOnlyRefreshes, Flows, Locals,
        Awaits, Nothing, NoFaults, Goes, Returns, Enters, Operator, Pending,
        vars, screenVars, timerVars, ecuVars, linkVars, dtcVars, busyVars,
        flowVars
<1>1. ASSUME NEW f \in Users, NEW e \in Ecus, SelectEcu(f, e) PROVE BusyFlags'
    BY <1>1 DEF SelectEcu, StopAutoRefresh
<1>2. ASSUME NEW f \in Users, NEW e \in Ecus, RunPlugin(f, e) PROVE BusyFlags'
    BY <1>2 DEF RunPlugin
<1>3. ASSUME NEW f \in Users, NEW s \in Screens, OpenScreen(f, s) PROVE BusyFlags'
    BY <1>3 DEF OpenScreen, OpensScreen, StopAutoRefresh
<1>4. ASSUME NEW f \in Users, ForgetDatabase(f) PROVE BusyFlags'
    BY <1>4 DEF ForgetDatabase
<1>5. ASSUME NEW f \in Users, ReadNow(f) PROVE BusyFlags'
    BY <1>5 DEF ReadNow, Refresh
<1>6. ASSUME NEW f \in Users, SetAutoRefresh(f) PROVE BusyFlags'
    BY <1>6 DEF SetAutoRefresh, Refresh, StopAutoRefresh
<1>7. ASSUME NEW f \in Users, ReconfigureDemo(f) PROVE BusyFlags'
    BY <1>7 DEF ReconfigureDemo
<1>8. ASSUME NEW f \in Users, PressButton(f) PROVE BusyFlags'
    BY <1>8 DEF PressButton
<1>9. ASSUME NEW f \in Users, ReadFaults(f) PROVE BusyFlags'
    BY <1>9 DEF ReadFaults
<1>10. ASSUME NEW f \in Users, ClearFaults(f) PROVE BusyFlags'
    BY <1>10 DEF ClearFaults
<1>11. ASSUME NEW f \in Users, Connect(f) PROVE BusyFlags'
    BY <1>11 DEF Connect
<1>12. ASSUME NEW f \in Users, Disconnect(f) PROVE BusyFlags'
    BY <1>12 DEF Disconnect, StopAutoRefresh
<1>13. ASSUME NEW f \in Users, StartScan(f) PROVE BusyFlags'
    BY <1>13 DEF StartScan
<1>14. ASSUME NEW f \in Flows, EcuLoaded(f) PROVE BusyFlags'
    BY <1>14 DEF EcuLoaded
<1>15. ASSUME NEW f \in Flows, EcuPrimed(f) PROVE BusyFlags'
    BY <1>15 DEF EcuPrimed
<1>16. ASSUME NEW f \in Flows, EcuLoadFails(f) PROVE BusyFlags'
    BY <1>16 DEF EcuLoadFails
<1>17. ASSUME NEW f \in Flows, ScreenAttached(f) PROVE BusyFlags'
    BY <1>17 DEF ScreenAttached
<1>18. ASSUME NEW f \in Flows, AttachFails(f) PROVE BusyFlags'
    BY <1>18 DEF AttachFails
<1>19. ASSUME NEW f \in Flows, PresendDone(f) PROVE BusyFlags'
    BY <1>19 DEF PresendDone, Refresh
<1>20. ASSUME NEW f \in Flows, RefreshDone(f) PROVE BusyFlags'
    BY <1>20 DEF RefreshDone
<1>21. ASSUME NEW f \in Flows, PressLocked(f) PROVE BusyFlags'
    BY <1>21 DEF PressLocked
<1>22. ASSUME NEW f \in Flows, PressDone(f) PROVE BusyFlags'
    BY <1>22 DEF PressDone, Refresh, Unlocks
<1>23. ASSUME NEW f \in Flows, LockRefused(f) PROVE BusyFlags'
    BY <1>23 DEF LockRefused
<1>24. ASSUME NEW f \in Flows, DtcLocked(f) PROVE BusyFlags'
    BY <1>24 DEF DtcLocked
<1>25. ASSUME NEW f \in Flows, FaultsRead(f) PROVE BusyFlags'
    BY <1>25 DEF FaultsRead, Unlocks, DropsFlags, Answers
<1>26. ASSUME NEW f \in Flows, FaultsErased(f) PROVE BusyFlags'
    BY <1>26 DEF FaultsErased, Unlocks, DropsFlags
<1>27. ASSUME NEW f \in Flows, DtcFails(f) PROVE BusyFlags'
    BY <1>27 DEF DtcFails, Unlocks, DropsFlags
<1>28. ASSUME NEW f \in Flows, Connected(f) PROVE BusyFlags'
    BY <1>28 DEF Connected, OpensScreen, StopAutoRefresh
<1>29. ASSUME NEW f \in Flows, ConnectFails(f) PROVE BusyFlags'
    BY <1>29 DEF ConnectFails
<1>30. ASSUME NEW f \in Flows, ProtocolClosed(f) PROVE BusyFlags'
    BY <1>30 DEF ProtocolClosed
<1>31. ASSUME NEW f \in Flows, PortClosed(f) PROVE BusyFlags'
    BY <1>31 DEF PortClosed, OpensScreen, StopAutoRefresh
<1>32. ASSUME NEW f \in Flows, Probe(f) PROVE BusyFlags'
    BY <1>32 DEF Probe
<1>33. ASSUME NEW f \in Flows, ScanEnds(f) PROVE BusyFlags'
    BY <1>33 DEF ScanEnds, OpensScreen, StopAutoRefresh
<1>34. ASSUME NEW f \in Flows, PluginLoaded(f) PROVE BusyFlags'
    BY <1>34 DEF PluginLoaded
<1>35. ASSUME NEW f \in Flows, PluginAttached(f) PROVE BusyFlags'
    BY <1>35 DEF PluginAttached
<1>36. ASSUME NEW f \in Flows, PluginLocked(f) PROVE BusyFlags'
    BY <1>36 DEF PluginLocked
<1>37. ASSUME NEW f \in Flows, PluginEnds(f) PROVE BusyFlags'
    BY <1>37 DEF PluginEnds, OpensScreen, StopAutoRefresh, Unlocks
<1>38. ASSUME TimerFires PROVE BusyFlags'
    BY <1>38 DEF TimerFires, Refresh
<1>39. ASSUME ToggleWrites PROVE BusyFlags'
    BY <1>39 DEF ToggleWrites
<1>40. ASSUME OtherTabLocks PROVE BusyFlags'
    BY <1>40 DEF OtherTabLocks
<1>41. CASE UNCHANGED vars
    BY <1>41
<1> QED BY <1>1, <1>2, <1>3, <1>4, <1>5, <1>6, <1>7, <1>8, <1>9, <1>10, <1>11, <1>12, <1>13, <1>14, <1>15, <1>16, <1>17, <1>18, <1>19, <1>20, <1>21, <1>22, <1>23, <1>24, <1>25, <1>26, <1>27, <1>28, <1>29, <1>30, <1>31, <1>32, <1>33, <1>34, <1>35, <1>36, <1>37, <1>38, <1>39, <1>40, <1>41 DEF Next, Continues

(* A handler that starts without upsetting anything starts alone.          *)
LEMMA EntersAlone ==
  ASSUME NEW f \in Flows, upset \in BOOLEAN, Enters(f), ~upset'
  PROVE  ~upset /\ \A g \in Flows : g # f => pc[g] = "idle"
BY DEF Enters

(* Handler by handler: what holds while nobody overlaps.                    *)
LEMMA CalmNext == Types /\ ScreenInv /\ CalmInv /\ [Next]_vars => CalmInv'
<1> SUFFICES ASSUME Types /\ ScreenInv /\ CalmInv, [Next]_vars PROVE CalmInv'
    OBVIOUS
<1> USE ScreensAssumption, NamesAssumption, LimitsAssumption
    DEF CalmInv, Alone, SelectedLoaded, RuntimeOfScreen, SnapshotOfScreen,
        RuntimeAttached, HeldIsCurrent, Elsewhere, PluginStages, ScreenInv,
        ScreenOfEcu, AttachingOnLink, DemoRuntime, Types, TypeOK, FlagsOK,
        TimerOnlyRefreshes, Flows, Locals, Awaits, Nothing, NoFaults, Goes,
        Returns, Operator, Pending, vars, screenVars, timerVars, ecuVars,
        linkVars, dtcVars, busyVars, flowVars
<1>1. ASSUME NEW f \in Users, NEW e \in Ecus, SelectEcu(f, e) PROVE CalmInv'
    BY <1>1, EntersAlone DEF SelectEcu, StopAutoRefresh
<1>2. ASSUME NEW f \in Users, NEW e \in Ecus, RunPlugin(f, e) PROVE CalmInv'
    BY <1>2, EntersAlone DEF RunPlugin
<1>3. ASSUME NEW f \in Users, NEW s \in Screens, OpenScreen(f, s) PROVE CalmInv'
    BY <1>3, EntersAlone DEF OpenScreen, OpensScreen, StopAutoRefresh
<1>4. ASSUME NEW f \in Users, ForgetDatabase(f) PROVE CalmInv'
    BY <1>4, EntersAlone DEF ForgetDatabase
<1>5. ASSUME NEW f \in Users, ReadNow(f) PROVE CalmInv'
    BY <1>5, EntersAlone DEF ReadNow, Refresh
<1>6. ASSUME NEW f \in Users, SetAutoRefresh(f) PROVE CalmInv'
    BY <1>6, EntersAlone DEF SetAutoRefresh, Refresh, StopAutoRefresh
<1>7. ASSUME NEW f \in Users, ReconfigureDemo(f) PROVE CalmInv'
    BY <1>7, EntersAlone DEF ReconfigureDemo
<1>8. ASSUME NEW f \in Users, PressButton(f) PROVE CalmInv'
    BY <1>8, EntersAlone DEF PressButton
<1>9. ASSUME NEW f \in Users, ReadFaults(f) PROVE CalmInv'
    BY <1>9, EntersAlone DEF ReadFaults
<1>10. ASSUME NEW f \in Users, ClearFaults(f) PROVE CalmInv'
    BY <1>10, EntersAlone DEF ClearFaults
<1>11. ASSUME NEW f \in Users, Connect(f) PROVE CalmInv'
    BY <1>11, EntersAlone DEF Connect
<1>12. ASSUME NEW f \in Users, Disconnect(f) PROVE CalmInv'
    BY <1>12, EntersAlone DEF Disconnect, StopAutoRefresh
<1>13. ASSUME NEW f \in Users, StartScan(f) PROVE CalmInv'
    BY <1>13, EntersAlone DEF StartScan
<1>14. ASSUME NEW f \in Flows, EcuLoaded(f) PROVE CalmInv'
    BY <1>14 DEF EcuLoaded
<1>15. ASSUME NEW f \in Flows, EcuPrimed(f) PROVE CalmInv'
    BY <1>15 DEF EcuPrimed
<1>16. ASSUME NEW f \in Flows, EcuLoadFails(f) PROVE CalmInv'
    BY <1>16 DEF EcuLoadFails
<1>17. ASSUME NEW f \in Flows, ScreenAttached(f) PROVE CalmInv'
    BY <1>17 DEF ScreenAttached
<1>18. ASSUME NEW f \in Flows, AttachFails(f) PROVE CalmInv'
    BY <1>18 DEF AttachFails
<1>19. ASSUME NEW f \in Flows, PresendDone(f) PROVE CalmInv'
    BY <1>19 DEF PresendDone, Refresh
<1>20. ASSUME NEW f \in Flows, RefreshDone(f) PROVE CalmInv'
    BY <1>20 DEF RefreshDone
<1>21. ASSUME NEW f \in Flows, PressLocked(f) PROVE CalmInv'
    BY <1>21 DEF PressLocked
<1>22. ASSUME NEW f \in Flows, PressDone(f) PROVE CalmInv'
    BY <1>22 DEF PressDone, Refresh, Unlocks
<1>23. ASSUME NEW f \in Flows, LockRefused(f) PROVE CalmInv'
    BY <1>23 DEF LockRefused
<1>24. ASSUME NEW f \in Flows, DtcLocked(f) PROVE CalmInv'
    BY <1>24 DEF DtcLocked
<1>25. ASSUME NEW f \in Flows, FaultsRead(f) PROVE CalmInv'
    BY <1>25 DEF FaultsRead, Unlocks, DropsFlags, Answers
<1>26. ASSUME NEW f \in Flows, FaultsErased(f) PROVE CalmInv'
    BY <1>26 DEF FaultsErased, Unlocks, DropsFlags
<1>27. ASSUME NEW f \in Flows, DtcFails(f) PROVE CalmInv'
    BY <1>27 DEF DtcFails, Unlocks, DropsFlags
<1>28. ASSUME NEW f \in Flows, Connected(f) PROVE CalmInv'
    BY <1>28 DEF Connected, OpensScreen, StopAutoRefresh
<1>29. ASSUME NEW f \in Flows, ConnectFails(f) PROVE CalmInv'
    BY <1>29 DEF ConnectFails
<1>30. ASSUME NEW f \in Flows, ProtocolClosed(f) PROVE CalmInv'
    BY <1>30 DEF ProtocolClosed
<1>31. ASSUME NEW f \in Flows, PortClosed(f) PROVE CalmInv'
    BY <1>31 DEF PortClosed, OpensScreen, StopAutoRefresh
<1>32. ASSUME NEW f \in Flows, Probe(f) PROVE CalmInv'
    BY <1>32 DEF Probe
<1>33. ASSUME NEW f \in Flows, ScanEnds(f) PROVE CalmInv'
    BY <1>33 DEF ScanEnds, OpensScreen, StopAutoRefresh
<1>34. ASSUME NEW f \in Flows, PluginLoaded(f) PROVE CalmInv'
    BY <1>34 DEF PluginLoaded
<1>35. ASSUME NEW f \in Flows, PluginAttached(f) PROVE CalmInv'
    BY <1>35 DEF PluginAttached
<1>36. ASSUME NEW f \in Flows, PluginLocked(f) PROVE CalmInv'
    BY <1>36 DEF PluginLocked
<1>37. ASSUME NEW f \in Flows, PluginEnds(f) PROVE CalmInv'
    BY <1>37 DEF PluginEnds, OpensScreen, StopAutoRefresh, Unlocks
<1>38. ASSUME TimerFires PROVE CalmInv'
  <2>1. Timer \in Flows OBVIOUS
  <2>2. CASE pc'[Timer] = "idle"
        BY <1>38, <2>2 DEF TimerFires, Refresh
  <2>3. CASE pc'[Timer] # "idle"
    <3>1. Enters(Timer) BY <1>38, <2>3 DEF TimerFires
    <3>2. ~upset' => ~upset /\ \A g \in Flows : g # Timer => pc[g] = "idle"
          BY <2>1, <3>1, EntersAlone
    <3> QED BY <1>38, <2>3, <3>2 DEF TimerFires, Refresh
  <2> QED BY <2>2, <2>3
<1>39. ASSUME ToggleWrites PROVE CalmInv'
    BY <1>39 DEF ToggleWrites
<1>40. ASSUME OtherTabLocks PROVE CalmInv'
    BY <1>40 DEF OtherTabLocks
<1>41. CASE UNCHANGED vars
    BY <1>41
<1> QED BY <1>1, <1>2, <1>3, <1>4, <1>5, <1>6, <1>7, <1>8, <1>9, <1>10, <1>11, <1>12, <1>13, <1>14, <1>15, <1>16, <1>17, <1>18, <1>19, <1>20, <1>21, <1>22, <1>23, <1>24, <1>25, <1>26, <1>27, <1>28, <1>29, <1>30, <1>31, <1>32, <1>33, <1>34, <1>35, <1>36, <1>37, <1>38, <1>39, <1>40, <1>41 DEF Next, Continues

(* The inductive invariant.                                                *)
THEOREM SessionInvariant == Spec => []SessionInv
<1>1. SessionInv /\ [Next]_vars => SessionInv'
      BY TypesNext, SelectionNext, ScreenNext, LockNext, BusyNext, CalmNext DEF SessionInv
<1> QED BY InitInv, <1>1, PTL DEF Spec

(* Every variable keeps its type.                                          *)
THEOREM TypeCorrect == Spec => []TypeOK
<1>1. SessionInv => TypeOK BY DEF SessionInv, Types
<1> QED BY SessionInvariant, <1>1, PTL

(* Whichever of two racing selections answers first, an ECU shown as ready *)
(* is the selected one (state.svelte.ts, selectEcu).                       *)
THEOREM ReadyEcuIsSelected == Spec => []ReadyIsSelected
<1>1. SessionInv => ReadyIsSelected BY DEF SessionInv, SelectionInv
<1> QED BY SessionInvariant, <1>1, PTL

(* Handlers that do not overlap keep screen, runtime, snapshot, connection *)
(* and adapter together; the busy flags tell what runs even if they do.    *)
THEOREM SessionCoherent == Spec => []Coherent
<1>1. SessionInv => Coherent
  <2> SUFFICES ASSUME SessionInv, ~upset,
                      NEW f \in Flows,
                      pc[f] \in {"presend", "refreshing", "pressing"}, held[f].link # 0
               PROVE  held[f].link = driver /\ pointed \in {held[f].ecu, None}
      BY DEF SessionInv, Coherent, CalmInv, SnapshotOfScreen
  <2>1. held[f] = runtime
        BY DEF SessionInv, CalmInv, HeldIsCurrent
  <2>2. \A g \in Flows : pc[g] \notin Elsewhere
        BY DEF SessionInv, CalmInv, Alone, Elsewhere, PluginStages
  <2> QED BY <2>1, <2>2 DEF SessionInv, CalmInv, RuntimeAttached
<1> QED BY SessionInvariant, <1>1, PTL

-----------------------------------------------------------------------------
(* Inside, seen through the invariant, is the holder of the lock.          *)
LEMMA InsideIsHolder == SessionInv => Inside = IF lock = None THEN {} ELSE {lock}
BY NamesAssumption, ZenonT(40) DEF SessionInv, Types, TypeOK, LockHeld, InsideStages, Inside, Flows

(* The lock changes hands only by being free in between.                   *)
LEMMA LockStep == Types /\ [Next]_vars => lock' = lock \/ lock = None \/ lock' = None
<1> SUFFICES ASSUME Types, [Next]_vars, lock' # lock, lock # None PROVE lock' = None
    OBVIOUS
<1> USE DEF Unlocks, dtcVars, busyVars, flowVars
<1>1. ASSUME NEW f \in Users, \E e \in Ecus : SelectEcu(f, e) \/ RunPlugin(f, e) PROVE FALSE
      BY <1>1 DEF SelectEcu, RunPlugin
<1>2. ASSUME NEW f \in Users, \E s \in Screens : OpenScreen(f, s) PROVE FALSE
      BY <1>2 DEF OpenScreen
<1>3. ASSUME NEW f \in Users,
             \/ ForgetDatabase(f) \/ ReadNow(f) \/ SetAutoRefresh(f) \/ ReconfigureDemo(f)
             \/ PressButton(f) \/ ReadFaults(f) \/ ClearFaults(f)
             \/ Connect(f) \/ Disconnect(f) \/ StartScan(f)
      PROVE  FALSE
      BY <1>3 DEF ForgetDatabase, ReadNow, SetAutoRefresh, ReconfigureDemo, PressButton,
                  ReadFaults, ClearFaults, Connect, Disconnect, StartScan
<1>4. ASSUME NEW f \in Flows, Continues(f) PROVE lock' = None
      BY <1>4 DEF Continues, EcuLoaded, EcuPrimed, EcuLoadFails, ScreenAttached, AttachFails,
                  PresendDone, RefreshDone, PressLocked, PressDone, LockRefused, DtcLocked,
                  FaultsRead, FaultsErased, DtcFails, Connected, ConnectFails, ProtocolClosed,
                  PortClosed, Probe, ScanEnds, PluginLoaded, PluginAttached, PluginLocked,
                  PluginEnds
<1>5. CASE TimerFires \/ ToggleWrites \/ OtherTabLocks \/ UNCHANGED vars
      BY <1>5 DEF TimerFires, ToggleWrites, OtherTabLocks, vars
<1> QED BY <1>1, <1>2, <1>3, <1>4, <1>5 DEF Next

(* The refinement: presses, reads, erases and plugins on a vehicle, here   *)
(* and in other tabs, go in and out one at a time (guard.ts).              *)
THEOREM ProceduresExclude == Spec => OneAtATime
<1>1. Init => Mutex!Init
  <2> SUFFICES ASSUME Init PROVE Inside = {}
      BY DEF Mutex!Init
  <2>1. SessionInv BY InitInv
  <2> QED BY <2>1, InsideIsHolder DEF Init
<1>2. SessionInv /\ SessionInv' /\ [Next]_vars => [Mutex!Next]_Inside
  <2> SUFFICES ASSUME SessionInv, SessionInv', [Next]_vars PROVE [Mutex!Next]_Inside
      OBVIOUS
  <2>1. Inside = IF lock = None THEN {} ELSE {lock}
        BY InsideIsHolder
  <2>2. (Inside = IF lock = None THEN {} ELSE {lock})'
        BY InsideIsHolder, PTL
  <2>3. lock' = lock \/ lock = None \/ lock' = None
        BY LockStep DEF SessionInv
  <2>4. {lock, lock'} \subseteq Flows \cup {OtherTab, None}
        BY DEF SessionInv, Types, TypeOK
  <2>5. CASE lock' = lock
        BY <2>1, <2>2, <2>5
  <2>6. CASE lock = None /\ lock' # None
        BY <2>1, <2>2, <2>4, <2>6 DEF Mutex!Next, Mutex!Enter
  <2>7. CASE lock # None /\ lock' = None
        BY <2>1, <2>2, <2>4, <2>7 DEF Mutex!Next, Mutex!Leave
  <2> QED BY <2>3, <2>5, <2>6, <2>7
<1> QED BY <1>1, <1>2, SessionInvariant, PTL DEF Spec, OneAtATime, Mutex!Spec
=============================================================================
