--------------------------- MODULE Upstream_proof ---------------------------
(* Proofs about Upstream, for any links, proxies, locations and test         *)
(* requests and any number of faults.                                        *)
EXTENDS Upstream, TLAPS

-----------------------------------------------------------------------------
\* What systemd's answers look like.

\* Every setting leads to one of the addresses a location may be configured with.
LEMMA UrlType == \A s \in Settings : Url(s) \in Urls
  BY DEF Url, Settings, Urls

\* A stopped unit and a started one keep their enablement.
LEMMA UnitType ==
    ASSUME NEW u \in UnitState, xcfg \in Links \cup {None}
    PROVE  /\ Down(u) \in UnitState /\ Started(u) \in UnitState /\ Enabled(u) \in UnitState
           /\ [u EXCEPT !.enabled = FALSE] \in UnitState
           /\ [u EXCEPT !.enabled = TRUE] \in UnitState
           /\ [Down(u) EXCEPT !.enabled = FALSE] \in UnitState
           /\ [u EXCEPT !.state = "retry", !.runs = None] \in UnitState
  BY DEF UnitState, Down, Started, Enabled

\* A start: Xray runs the config file, or fails for want of one.
LEMMA StartedIs ==
    ASSUME NEW u \in UnitState
    PROVE  /\ Started(u).enabled = u.enabled
           /\ Started(u).state # "down"
           /\ Started(u).state = "up" => Started(u).runs = xcfg
  BY DEF UnitState, Started

\* The end of the enablement, and of the process.
LEMMA DownIs ==
    ASSUME NEW u \in UnitState
    PROVE  /\ Down(u).state = "down" /\ Down(u).enabled = u.enabled
           /\ [Down(u) EXCEPT !.enabled = FALSE].state = "down"
           /\ ~[Down(u) EXCEPT !.enabled = FALSE].enabled
           /\ ~[u EXCEPT !.enabled = FALSE].enabled
           /\ [u EXCEPT !.enabled = FALSE].state = u.state
           /\ [u EXCEPT !.enabled = TRUE].enabled
           /\ Enabled(u).enabled
  BY DEF UnitState, Down, Enabled, Started

\* The handler's record when it goes on, and when it is done.
LEMMA HandlerType ==
    ASSUME h \in HandlerState
    PROVE  /\ Idle \in HandlerState
           /\ \A pc \in {"disable", "remove", "rename", "enable", "restart", "save", "write", "restartloc"} :
                 [h EXCEPT !.pc = pc] \in HandlerState
           /\ [h EXCEPT !.pc = "write", !.todo = Locs] \in HandlerState
           /\ [h EXCEPT !.pc = "write", !.missed = TRUE] \in HandlerState
           /\ \A l \in Locs : [h EXCEPT !.pc = "check", !.todo = h.todo \ {l}, !.cur = l] \in HandlerState
           /\ \A s \in Settings, pc \in {"test", "stat"} : [Idle EXCEPT !.pc = pc, !.s = s] \in HandlerState
  BY DEF HandlerState, Idle, Settings

\* A failure is within the bound.
LEMMA FaultType == faults \in 0 .. MaxFaults /\ Fault => faults' \in 0 .. MaxFaults
  BY UpstreamBoundAssumption DEF Fault

-----------------------------------------------------------------------------
\* Types.

\* A step of the change keeps the shape of what it touches.
LEMMA ChangeType ==
    ASSUME TypeOK, PathInv, Handler
    PROVE  TypeOK'
  <1> USE HandlerType, FaultType
  <1> USE DEF GoTo, GiveUp, TypeOK, config, locations, tests
  <1>1. CASE Stat
    BY <1>1 DEF Stat, AfterStat
  <1>2. CASE Disable
    BY <1>2, UnitType DEF Disable
  <1>3. CASE Remove
    BY <1>3 DEF Remove
  <1>4. CASE Tried \/ Rejected
    BY <1>4 DEF Tried, Rejected
  <1>5. CASE Rename
    <2>1. h.s \in Links
      BY <1>5 DEF Rename, PathInv
    <2> QED BY <1>5, <2>1 DEF Rename
  <1>6. CASE Enable
    BY <1>6, UnitType DEF Enable, AfterEnable
  <1>7. CASE RestartXray
    BY <1>7, UnitType DEF RestartXray
  <1>8. CASE Save
    <2>1. h.s \in Settings
      BY DEF HandlerState
    <2> QED BY <1>8, <2>1, UrlType DEF Save
  <1>9. ASSUME NEW l \in Locs, WriteLoc(l) PROVE TypeOK'
    <2>1. UNCHANGED <<config, unit, run, upd, tests, stray>>
      BY <1>9 DEF WriteLoc
    <2>2. CASE Fault /\ GiveUp /\ UNCHANGED file
      BY <2>1, <2>2
    <2>3. CASE /\ file' = [file EXCEPT ![l] = creds]
               /\ h' = [h EXCEPT !.pc = "check", !.todo = h.todo \ {l}, !.cur = l]
               /\ UNCHANGED <<faults, whole>>
      <3>1. h' \in HandlerState
        BY <2>3
      <3>2. file' \in [Locs -> Urls]
        BY <2>3
      <3> HIDE HandlerType, FaultType
      <3> QED BY <2>1, <2>3, <3>1, <3>2
    <2> QED BY <1>9, <2>2, <2>3 DEF WriteLoc
  <1>10. CASE CheckLoc
    BY <1>10 DEF CheckLoc
  <1>11. CASE RestartLoc
    <2>1. h.cur \in Locs
      BY <1>11 DEF RestartLoc, PathInv
    <2> QED BY <1>11, <2>1 DEF RestartLoc
  <1>12. CASE Done
    <2>1. whole' \in BOOLEAN
      BY <1>12 DEF Done
    <2> QED BY <1>12, <2>1 DEF Done
  <1> QED BY <1>1, <1>2, <1>3, <1>4, <1>5, <1>6, <1>7, <1>8, <1>9, <1>10, <1>11, <1>12 DEF Handler

\* A test takes the lock with its first step and drops it with its last.
LEMMA TestType ==
    ASSUME TypeOK, Tests
    PROVE  TypeOK'
  <1> USE DEF Unlocks, TypeOK, TestPoints, config, locations
  <1>1. PICK t \in Requests :
           \/ \E kind \in {"proxy", "link"} : TestBegins(t, kind)
           \/ TestStep(t) \/ XrayGone(t)
    BY DEF Tests
  <1>2. UNCHANGED <<config, unit, locations, h, upd, faults, whole, stray>>
    BY DEF Tests
  <1>3. CASE \E kind \in {"proxy", "link"} : TestBegins(t, kind)
    BY <1>2, <1>3, UpstreamNamesAssumption DEF TestBegins, TryLock
  <1>4. CASE XrayNotStarted(t) \/ Ended(t)
    BY <1>2, <1>4, UpstreamNamesAssumption DEF XrayNotStarted, Ended
  <1>5. CASE XrayStarted(t) \/ Listened(t) \/ XrayGone(t)
    BY <1>2, <1>5 DEF XrayStarted, Listened, XrayGone
  <1>6. CASE Fetched(t)
    BY <1>2, <1>6, UpstreamNamesAssumption DEF Fetched
  <1> QED BY <1>1, <1>3, <1>4, <1>5, <1>6 DEF TestStep

\* Nothing that happens meanwhile spoils a variable's shape.
LEMMA MeanwhileType ==
    ASSUME TypeOK,
           \/ XrayExits \/ XrayRelaunched \/ UpdateAsks \/ UpdateRestarts \/ PanelRestarts \/ Reboot
           \/ \E l \in Locs : LocationButton(l)
    PROVE  TypeOK'
  <1> USE UnitType, HandlerType, FaultType, UrlType, UpstreamNamesAssumption
  <1> USE DEF TypeOK, config, locations, tests
  <1>1. CASE XrayExits
    BY <1>1 DEF XrayExits
  <1>2. CASE XrayRelaunched
    BY <1>2 DEF XrayRelaunched
  <1>3. CASE UpdateAsks
    BY <1>3 DEF UpdateAsks
  <1>4. CASE UpdateRestarts
    <2>1. stray' \in BOOLEAN
      BY <1>4 DEF UpdateRestarts
    <2>2. unit' \in UnitState
      BY <1>4 DEF UpdateRestarts
    <2>3. UNCHANGED <<config, locations, h, tests, faults, whole>> /\ upd' = FALSE
      BY <1>4 DEF UpdateRestarts
    <2> HIDE UnitType, HandlerType, FaultType, UrlType
    <2> QED BY <2>1, <2>2, <2>3
  <1>5. CASE PanelRestarts
    <2>1. Direct \in Urls
      BY DEF Urls
    <2>2. whole' \in BOOLEAN
      BY <1>5 DEF PanelRestarts
    <2> QED BY <1>5, <2>1, <2>2 DEF PanelRestarts, Cut, TestPoints
  <1>6. CASE Reboot
    BY <1>6 DEF Reboot, Cut, TestPoints
  <1>7. ASSUME NEW l \in Locs, LocationButton(l) PROVE TypeOK'
    BY <1>7 DEF LocationButton
  <1> QED BY <1>1, <1>2, <1>3, <1>4, <1>5, <1>6, <1>7

\* Every step keeps the shape of every variable.
LEMMA TypeStep == TypeOK /\ PathInv /\ [Next]_vars => TypeOK'
  <1> SUFFICES ASSUME TypeOK, PathInv, [Next]_vars PROVE TypeOK'
    OBVIOUS
  <1>1. CASE UNCHANGED vars
    BY <1>1 DEF vars, config, locations, tests, TypeOK
  <1>2. ASSUME NEW s \in Settings, Begin(s) PROVE TypeOK'
    BY <1>2, HandlerType DEF Begin, TypeOK, config, locations, tests
  <1> QED BY <1>1, <1>2, ChangeType, TestType, MeanwhileType DEF Next

-----------------------------------------------------------------------------
\* The Test button.

\* A throwaway process lives only between its start and its end.
LEMMA ProcStep == TypeOK /\ ProcInv /\ [Next]_vars => ProcInv'
  <1> SUFFICES ASSUME TypeOK, ProcInv, [Next]_vars PROVE ProcInv'
    OBVIOUS
  <1>1. CASE UNCHANGED tests
    BY <1>1 DEF tests, ProcInv
  <1>2. CASE Tests
    <2>1. PICK t \in Requests :
             \/ \E kind \in {"proxy", "link"} : TestBegins(t, kind)
             \/ TestStep(t) \/ XrayGone(t)
      BY <1>2 DEF Tests
    <2>2. CASE \E kind \in {"proxy", "link"} : TestBegins(t, kind)
      BY <2>2 DEF TestBegins, ProcInv, TypeOK
    <2>3. CASE XrayNotStarted(t) \/ Fetched(t) \/ Ended(t)
      BY <2>3 DEF XrayNotStarted, Fetched, Ended, Unlocks, Reaped, ProcInv, TypeOK
    <2>4. CASE XrayStarted(t) \/ Listened(t) \/ XrayGone(t)
      BY <2>4 DEF XrayStarted, Listened, XrayGone, ProcInv, TypeOK
    <2> QED BY <2>1, <2>2, <2>3, <2>4 DEF TestStep
  <1>3. CASE Cut
    BY <1>3 DEF Cut, ProcInv
  <1> QED BY <1>1, <1>2, <1>3
          DEF Next, vars, Begin, Handler, Stat, Disable, Remove, Tried, Rejected, Rename, Enable,
              RestartXray, Save, WriteLoc, CheckLoc, RestartLoc, Done, XrayExits, XrayRelaunched,
              LocationButton, UpdateAsks, UpdateRestarts, PanelRestarts, Reboot

-----------------------------------------------------------------------------
\* The service.

\* Where the handler goes, and that nothing else moves it.
LEMMA PathStep == TypeOK /\ PathInv /\ [Next]_vars => PathInv'
  <1> SUFFICES ASSUME TypeOK, PathInv, [Next]_vars PROVE PathInv'
    OBVIOUS
  <1> USE DEF PathInv, GoTo
  <1>1. CASE UNCHANGED h
    BY <1>1
  <1>2. CASE h' = Idle
    BY <1>2 DEF Idle
  <1>3. ASSUME NEW s \in Settings, Begin(s) PROVE PathInv'
    BY <1>3 DEF Begin, Idle
  <1>4. h \in HandlerState
    BY DEF TypeOK
  <1>5. CASE Stat
    BY <1>4, <1>5 DEF Stat, AfterStat, HandlerState
  <1>6. CASE Disable \/ Remove
    BY <1>2, <1>4, <1>6 DEF Disable, Remove, GiveUp, HandlerState
  <1>7. CASE Tried \/ Rejected \/ Rename \/ Enable \/ RestartXray
    BY <1>2, <1>4, <1>7
       DEF Tried, Rejected, Rename, Enable, AfterEnable, RestartXray, GiveUp, HandlerState
  <1>8. CASE Save \/ (\E l \in Locs : WriteLoc(l))
    BY <1>2, <1>4, <1>8 DEF Save, WriteLoc, GiveUp, HandlerState
  <1>9. CASE CheckLoc \/ RestartLoc \/ Done
    BY <1>2, <1>4, <1>9 DEF CheckLoc, RestartLoc, Done, GiveUp, HandlerState
  <1> QED BY <1>1, <1>2, <1>3, <1>5, <1>6, <1>7, <1>8, <1>9
          DEF Next, vars, Handler, Tests, XrayExits, XrayRelaunched, LocationButton, UpdateAsks,
              UpdateRestarts, PanelRestarts, Reboot, Cut

\* Xray's exits and starts, and update's restart, change nothing that was brought
\* in line, and only update's restart starts what is off.
LEMMA MoveKeeps ==
    ASSUME TypeOK, XrayExits \/ XrayRelaunched \/ UpdateRestarts
    PROVE  /\ unit'.enabled = unit.enabled
           /\ \A s \in Settings : ServiceIs(s) => ServiceIs(s)'
           /\ Off => Off'
  <1>1. unit \in UnitState
    BY DEF TypeOK
  <1>2. /\ unit'.enabled = unit.enabled
        /\ unit'.state = "up" => unit'.runs = xcfg
        /\ unit'.state # "down"
        /\ Off => stray'
        /\ xcfg' = xcfg
    <2>1. CASE XrayExits
      BY <1>1, <2>1 DEF XrayExits, UnitState, Off, config
    <2>2. CASE XrayRelaunched
      BY <1>1, <2>2, StartedIs DEF XrayRelaunched, Off, config
    <2>3. CASE UpdateRestarts
      BY <1>1, <2>3, StartedIs DEF UpdateRestarts, Off, config
    <2> QED BY <2>1, <2>2, <2>3
  <1> QED BY <1>2 DEF ServiceIs, Off

\* Only a reboot stops an idle service, and then starts what is enabled.
LEMMA RebootKeeps ==
    ASSUME TypeOK, ShortcutSound, Reboot
    PROVE  ShortcutSound' /\ \A s \in Settings : ServiceIs(s) => ServiceIs(s)'
  <1>1. unit \in UnitState
    BY DEF TypeOK
  <1>2. /\ unit'.enabled = unit.enabled /\ xcfg' = xcfg
        /\ unit.enabled => unit'.state # "down" /\ (unit'.state = "up" => unit'.runs = xcfg)
        /\ ~unit.enabled => unit'.state = "down"
    BY <1>1, StartedIs, DownIs DEF Reboot
  <1> QED BY <1>2 DEF ServiceIs, Off, ShortcutSound

\* The service when it is skipped, disabled or restarted, at every point of a change.
LEMMA ServiceStep ==
    ASSUME TypeOK, PathInv, ShortcutSound, ServiceInv, [Next]_vars
    PROVE  ShortcutSound' /\ ServiceInv'
  <1> USE DEF GoTo, GiveUp
  <1>1. h \in HandlerState /\ h.s \in Settings /\ unit \in UnitState
    BY DEF TypeOK, HandlerState
  <1>2. CASE UNCHANGED <<xcfg, unit, stray>> /\ (h' = Idle \/ UNCHANGED h)
    BY <1>2 DEF ShortcutSound, Off, ServiceInv, ServiceDone, ServiceIs, Idle
  <1>3. ASSUME NEW s \in Settings, Begin(s) PROVE ShortcutSound' /\ ServiceInv'
    BY <1>3 DEF Begin, Idle, ShortcutSound, Off, ServiceInv, ServiceDone, config
  <1>4. CASE Stat
    BY <1>1, <1>4
       DEF Stat, AfterStat, PathInv, ShortcutSound, Off, ServiceInv, ServiceDone, ServiceIs, config,
           HandlerState
  <1>5. CASE Disable
    <2>1. xcfg' = xcfg
      BY <1>5 DEF Disable, config
    <2>2. CASE /\ unit' = [Down(unit) EXCEPT !.enabled = FALSE] /\ stray' = FALSE
               /\ h' = [h EXCEPT !.pc = "remove"]
      <3>1. h'.pc = "remove" /\ Off'
        BY <1>1, <2>2, DownIs DEF Off, HandlerState
      <3> QED BY <2>1, <3>1 DEF ShortcutSound, ServiceInv, ServiceDone
    <2>3. CASE /\ unit' \in {unit, [unit EXCEPT !.enabled = FALSE], [Down(unit) EXCEPT !.enabled = FALSE]}
               /\ h' = Idle /\ stray' = stray
      <3>1. Off => Off'
        <4>1. CASE unit' = [unit EXCEPT !.enabled = FALSE]
          BY <1>1, <2>3, <4>1, DownIs DEF Off
        <4>2. CASE unit' = [Down(unit) EXCEPT !.enabled = FALSE]
          BY <1>1, <2>3, <4>2, DownIs DEF Off
        <4> QED BY <2>3, <4>1, <4>2 DEF Off
      <3>2. h'.pc = "idle"
        BY <2>3 DEF Idle
      <3>3. ShortcutSound'
        BY <2>1, <3>1 DEF ShortcutSound
      <3>4. ServiceInv'
        BY <3>2 DEF ServiceInv, ServiceDone
      <3> QED BY <3>3, <3>4
    <2> QED BY <1>5, <2>2, <2>3 DEF Disable
  <1>6. CASE Remove
    BY <1>1, <1>2, <1>6
       DEF Remove, PathInv, ShortcutSound, Off, ServiceInv, ServiceDone, ServiceIs, Idle, HandlerState
  <1>7. CASE Tried \/ Rejected
    BY <1>1, <1>2, <1>7
       DEF Tried, Rejected, ShortcutSound, Off, ServiceInv, ServiceDone, config, HandlerState
  <1>8. CASE Rename
    <2>1. h.s # None
      BY <1>1, <1>8, UpstreamNamesAssumption DEF Rename, PathInv
    <2> QED BY <1>1, <1>2, <1>8, <2>1
            DEF Rename, ShortcutSound, Off, ServiceInv, ServiceDone, HandlerState
  <1>9. CASE Enable \/ RestartXray
    <2>1. h.s \in Links /\ xcfg = h.s /\ xcfg # None /\ xcfg' = xcfg
      BY <1>9, UpstreamNamesAssumption DEF Enable, RestartXray, PathInv, ServiceInv, config
    <2>2. CASE Enable
      BY <1>1, <2>1, <2>2, DownIs
         DEF Enable, AfterEnable, ShortcutSound, ServiceInv, ServiceDone, Idle, HandlerState
    <2>3. CASE RestartXray
      BY <1>1, <2>1, <2>3, StartedIs
         DEF RestartXray, ShortcutSound, ServiceInv, ServiceDone, ServiceIs, Idle, HandlerState
    <2> QED BY <1>9, <2>2, <2>3
  <1>10. CASE \/ Save \/ CheckLoc \/ RestartLoc \/ Done
              \/ \E l \in Locs : WriteLoc(l)
    <2>1. UNCHANGED <<xcfg, unit, stray>>
      BY <1>10 DEF Save, WriteLoc, CheckLoc, RestartLoc, Done, config
    <2>2. h' = Idle \/ (h.pc \in ServiceDone /\ h'.pc \in SettingsDone /\ h'.s = h.s)
      BY <1>1, <1>10
         DEF Save, WriteLoc, CheckLoc, RestartLoc, Done, ServiceDone, SettingsDone, HandlerState
    <2> QED BY <1>2, <2>1, <2>2
            DEF ShortcutSound, Off, ServiceInv, ServiceDone, SettingsDone, ServiceIs
  <1>11. CASE XrayExits \/ XrayRelaunched \/ UpdateRestarts
    <2>1. UNCHANGED <<xcfg, h>>
      BY <1>11 DEF XrayExits, XrayRelaunched, UpdateRestarts, config
    <2> QED BY <1>1, <1>11, <2>1, MoveKeeps DEF ShortcutSound, ServiceInv
  <1>12. CASE Reboot
    BY <1>12, RebootKeeps DEF Reboot, Cut, Idle, ServiceInv, ServiceDone
  <1> QED BY <1>2, <1>3, <1>4, <1>5, <1>6, <1>7, <1>8, <1>9, <1>10, <1>11, <1>12
          DEF Next, vars, Handler, Tests, LocationButton, UpdateAsks, PanelRestarts, Cut, config

-----------------------------------------------------------------------------
\* Settings and locations.

\* From the file of settings to the last location of the list.
LEMMA LocationStep ==
    ASSUME TypeOK, PathInv, LocationInv, [Next]_vars
    PROVE  LocationInv'
  <1> USE DEF GoTo, GiveUp
  <1>1. h \in HandlerState /\ file \in [Locs -> Urls] /\ run \in [Locs -> Urls \cup {None}]
    BY DEF TypeOK, HandlerState
  <1>2. CASE h'.pc \notin SettingsDone
    BY <1>2 DEF LocationInv
  <1>3. CASE UNCHANGED <<saved, creds, file, run, h>>
    BY <1>3 DEF LocationInv
  <1>4. CASE Save
    <2>1. CASE /\ saved' = h.s /\ creds' = Url(h.s)
               /\ h' = [h EXCEPT !.pc = "write", !.todo = Locs]
      <3>1. h'.s = h.s /\ h'.todo = Locs
        BY <1>1, <2>1 DEF HandlerState
      <3> QED BY <2>1, <3>1 DEF LocationInv
    <2>2. CASE h' = Idle
      BY <1>2, <2>2 DEF Idle, SettingsDone
    <2> QED BY <1>4, <2>1, <2>2 DEF Save
  <1>5. ASSUME NEW l \in Locs, WriteLoc(l) PROVE LocationInv'
    <2>1. CASE /\ file' = [file EXCEPT ![l] = creds]
               /\ h' = [h EXCEPT !.pc = "check", !.todo = h.todo \ {l}, !.cur = l]
      <3>1. /\ h'.pc = "check" /\ h'.s = h.s /\ h'.todo = h.todo \ {l} /\ h'.cur = l
            /\ h'.missed = h.missed
        BY <1>1, <2>1 DEF HandlerState
      <3>2. UNCHANGED <<saved, creds, run>> /\ h.pc = "write"
        BY <1>5 DEF WriteLoc, config
      <3>3. saved' = h'.s /\ creds' = Url(h'.s)
        BY <3>1, <3>2 DEF LocationInv, SettingsDone
      <3>4. ASSUME ~h'.missed, NEW m \in Locs \ h'.todo
            PROVE  file'[m] = creds' /\ (run'[m] \in {creds', None} \/ (h'.pc # "write" /\ m = h'.cur))
        <4>1. CASE m = l
          BY <1>1, <2>1, <3>1, <3>2, <4>1
        <4>2. CASE m # l
          BY <1>1, <2>1, <3>1, <3>2, <3>4, <4>2 DEF LocationInv, SettingsDone
        <4> QED BY <4>1, <4>2
      <3> QED BY <3>3, <3>4 DEF LocationInv
    <2>2. CASE h' = Idle
      BY <1>2, <2>2 DEF Idle, SettingsDone
    <2> QED BY <1>5, <2>1, <2>2 DEF WriteLoc
  <1>6. CASE CheckLoc
    <2>1. UNCHANGED <<saved, creds, file, run>> /\ h'.s = h.s /\ h'.todo = h.todo /\ h'.cur = h.cur
      BY <1>1, <1>6 DEF CheckLoc, config, locations, HandlerState
    <2>2. h.pc = "check"
      BY <1>6 DEF CheckLoc
    <2>3. \/ h'.missed
          \/ h'.pc = "write" /\ run[h.cur] = None /\ h'.missed = h.missed
          \/ h'.pc = "restartloc" /\ h'.missed = h.missed
      BY <1>1, <1>6 DEF CheckLoc, HandlerState
    <2> QED BY <2>1, <2>2, <2>3 DEF LocationInv, SettingsDone
  <1>7. CASE RestartLoc
    <2>1. h.cur \in Locs
      BY <1>7 DEF RestartLoc, PathInv
    <2> QED BY <1>1, <1>2, <1>7, <2>1
            DEF RestartLoc, LocationInv, SettingsDone, Idle, HandlerState, config
  <1>8. ASSUME NEW l \in Locs, LocationButton(l) PROVE LocationInv'
    BY <1>1, <1>8 DEF LocationButton, LocationInv, SettingsDone, config
  <1>9. CASE h' = Idle
    BY <1>2, <1>9 DEF Idle, SettingsDone
  <1>10. ASSUME NEW s \in Settings, Begin(s) PROVE LocationInv'
    BY <1>2, <1>10 DEF Begin, Idle, SettingsDone
  <1>11. CASE Stat \/ Disable \/ Remove \/ Tried \/ Rejected \/ Rename \/ Enable \/ RestartXray
    BY <1>1, <1>2, <1>11
       DEF Stat, AfterStat, Disable, Remove, Tried, Rejected, Rename, Enable, AfterEnable,
           RestartXray, Idle, SettingsDone, HandlerState
  <1>12. CASE Done \/ PanelRestarts \/ Reboot
    BY <1>9, <1>12 DEF Done, PanelRestarts, Reboot, Cut
  <1> QED BY <1>3, <1>4, <1>5, <1>6, <1>7, <1>8, <1>10, <1>11, <1>12
          DEF Next, vars, Handler, Tests, XrayExits, XrayRelaunched, UpdateAsks, UpdateRestarts,
              config, locations

\* When the change is over, or has changed nothing, all of it says the same.
LEMMA StillStep ==
    ASSUME TypeOK, PathInv, ShortcutSound, ServiceInv, LocationInv, StillInStep, [Next]_vars
    PROVE  StillInStep'
  <1> USE DEF GoTo, GiveUp
  <1>1. h \in HandlerState /\ saved \in Settings /\ file \in [Locs -> Urls]
        /\ run \in [Locs -> Urls \cup {None}]
    BY DEF TypeOK
  <1>2. CASE UNCHANGED <<saved, creds, xcfg, unit, file, run>> /\ (whole' => whole /\ h.pc \in Before)
    BY <1>2 DEF StillInStep, ServiceIs, LocationsAgree
  <1>3. CASE ~whole' \/ h'.pc \notin Before
    BY <1>3 DEF StillInStep
  <1>4. ASSUME NEW s \in Settings, Begin(s) PROVE StillInStep'
    BY <1>2, <1>4 DEF Begin, Before, config, locations
  <1>5. CASE Stat \/ Tried \/ Rejected
    BY <1>1, <1>2, <1>3, <1>5
       DEF Stat, AfterStat, Tried, Rejected, Before, HandlerState, config, locations
  <1>6. CASE \/ Disable \/ Remove \/ Rename \/ Enable \/ RestartXray
             \/ Save \/ CheckLoc \/ RestartLoc
             \/ \E l \in Locs : WriteLoc(l)
    BY <1>1, <1>3, <1>6
       DEF Disable, Remove, Rename, Enable, AfterEnable, RestartXray, Save, WriteLoc, CheckLoc,
           RestartLoc, Before, HandlerState
  <1>7. CASE Done
    <2>1. UNCHANGED <<saved, creds, xcfg, unit, file, run>> /\ (whole' => ~h.missed)
      BY <1>7 DEF Done, config, locations
    <2>2. h.pc = "write" /\ h.todo = {}
      BY <1>7 DEF Done
    <2>3. ServiceIs(saved) /\ (~h.missed => LocationsAgree)
      BY <2>2 DEF ServiceInv, LocationInv, ServiceDone, SettingsDone, LocationsAgree
    <2> QED BY <2>1, <2>3 DEF StillInStep, ServiceIs, LocationsAgree
  <1>8. CASE XrayExits \/ XrayRelaunched \/ UpdateRestarts
    <2>1. UNCHANGED <<saved, creds, file, run, h, whole>>
      BY <1>8 DEF XrayExits, XrayRelaunched, UpdateRestarts, config, locations
    <2>2. ServiceIs(saved) => ServiceIs(saved)'
      BY <1>1, <1>8, <2>1, MoveKeeps DEF ServiceIs
    <2> QED BY <2>1, <2>2 DEF StillInStep, LocationsAgree
  <1>9. ASSUME NEW l \in Locs, LocationButton(l) PROVE StillInStep'
    BY <1>1, <1>9 DEF LocationButton, StillInStep, ServiceIs, LocationsAgree, config
  <1>10. CASE PanelRestarts
    BY <1>10 DEF PanelRestarts, Cut, Idle, StillInStep, ServiceIs, LocationsAgree, locations
  <1>11. CASE Reboot
    <2>1. UNCHANGED <<saved, xcfg, file>> /\ creds' = Url(saved) /\ (whole' => whole /\ h.pc \in Before)
      BY <1>11 DEF Reboot
    <2>2. ServiceIs(saved) => ServiceIs(saved)'
      BY <1>1, <1>11, <2>1, RebootKeeps DEF ServiceIs
    <2>3. \A l \in Locs : run'[l] \in {None, file[l]}
      BY <1>11 DEF Reboot
    <2> QED BY <2>1, <2>2, <2>3 DEF StillInStep, LocationsAgree
  <1> QED BY <1>2, <1>4, <1>5, <1>6, <1>7, <1>8, <1>9, <1>10, <1>11
          DEF Next, vars, Handler, Tests, UpdateAsks, config, locations, StillInStep, ServiceIs,
              LocationsAgree

-----------------------------------------------------------------------------
\* The invariant, and what follows.

\* A server without an upstream satisfies it.
LEMMA InvInit == Init => IInv
  <1> SUFFICES ASSUME Init PROVE IInv
    OBVIOUS
  <1>1. TypeOK
    <2>1. Direct \in Settings /\ Direct \in Urls
      BY DEF Settings, Urls
    <2>2. h \in HandlerState /\ unit \in UnitState
      BY <2>1 DEF Init, HandlerState, Idle, UnitState
    <2>3. file \in [Locs -> Urls] /\ run \in [Locs -> Urls \cup {None}]
      BY <2>1 DEF Init
    <2>4. faults \in 0 .. MaxFaults
      BY UpstreamBoundAssumption DEF Init
    <2>5. /\ test \in [Requests -> TestPoints] /\ testMu \in Requests \cup {Free}
          /\ proc \in [Requests -> {"none", "up"}]
          /\ \A t \in Requests : test[t] # "idle" <=> testMu = t
      BY UpstreamNamesAssumption DEF Init, TestPoints
    <2> QED BY <2>1, <2>2, <2>3, <2>4, <2>5 DEF Init, TypeOK
  <1>2. Direct \notin Links
    BY UpstreamNamesAssumption
  <1> QED BY <1>1, <1>2
          DEF Init, Idle, IInv, PathInv, ShortcutSound, Off, ServiceInv, ServiceDone, LocationInv,
              SettingsDone, StillInStep, ServiceIs, LocationsAgree, Url, ProcInv

\* The inductive invariant: which way a change goes, what of the service, the settings and
\* the locations it has brought in line, and what it may rely on if it has changed nothing.
THEOREM UpstreamInvariance == Spec => []IInv
  <1>1. IInv /\ [Next]_vars => IInv'
    BY TypeStep, PathStep, ServiceStep, LocationStep, StillStep, ProcStep DEF IInv
  <1> QED BY <1>1, InvInit, PTL DEF Spec

\* Every variable keeps its shape, and upstreamTestMu is free exactly when no test is at work.
THEOREM UpstreamTypeCorrect == Spec => []TypeOK
  <1>1. IInv => TypeOK
    BY DEF IInv
  <1> QED BY <1>1, UpstreamInvariance, PTL

\* A change that reported success has brought service, settings and locations in line, and
\* one that was refused at its start has touched nothing.
THEOREM InStepCorrect == Spec => []InStep
  <1>1. IInv => InStep
    BY DEF IInv, StillInStep, InStep, Before
  <1> QED BY <1>1, UpstreamInvariance, PTL

\* Where the Xray config is missing there is no service to stop.
THEOREM ShortcutCorrect == Spec => []ShortcutSound
  <1>1. IInv => ShortcutSound
    BY DEF IInv
  <1> QED BY <1>1, UpstreamInvariance, PTL

\* No throwaway Xray outlives its test, and no two run at once.
THEOREM ThrowawayCorrect == Spec => []OneThrowaway
  <1>1. IInv => OneThrowaway
    BY DEF IInv, TypeOK, ProcInv, OneThrowaway
  <1> QED BY <1>1, UpstreamInvariance, PTL
=============================================================================
