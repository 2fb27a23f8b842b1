-------------------------- MODULE Locations_proof --------------------------
(* Proofs of the safety properties of Locations for any names, ports,      *)
(* threads, backups and faults.                                            *)
EXTENDS Locations, TLAPS

\* Type correctness of the steps, one lemma per handler.

USE DEF Acquire, Return, Installs, InstallsOrFails, ghosts

\* Whatever config file there is, a launched unit is in one of systemd's states.
LEMMA LaunchedType ==
    ASSUME NEW c \in Config \cup {NoConf, Torn}, NEW b \in BOOLEAN
    PROVE  /\ Launched(c, b) \in UnitState
           /\ Launched(c, b).state # "inactive"
    BY DEF Launched, UnitState

\* Every command leaves a unit in one of systemd's states.
LEMMA CommandType ==
    ASSUME TypeOK, NEW n \in Names
    PROVE  /\ EnabledNow(n) \in UnitState
           /\ DisabledNow(n) \in UnitState
           /\ Restarted(n) \in UnitState
           /\ StopPartly(n) \subseteq UnitState
           /\ StartPartly(n) \subseteq UnitState
           /\ unit[n] \in UnitState
  <1>1. unit[n] \in UnitState /\ conf[n] \in Config \cup {NoConf, Torn}
    BY DEF TypeOK
  <1>2. [unit[n] EXCEPT !.enabled = FALSE] \in UnitState /\ [unit[n] EXCEPT !.enabled = TRUE] \in UnitState
    BY <1>1 DEF UnitState
  <1>3. unit[n].enabled \in BOOLEAN
    BY <1>1 DEF UnitState
  <1>4. Launched(conf[n], TRUE) \in UnitState /\ Launched(conf[n], unit[n].enabled) \in UnitState
    BY <1>1, <1>3, LaunchedType
  <1>5. Down \in UnitState
    BY DEF Down, UnitState
  <1>6. /\ EnabledNow(n) \in UnitState /\ DisabledNow(n) \in UnitState
        /\ Restarted(n) \in UnitState
    BY <1>1, <1>2, <1>4, <1>5 DEF EnabledNow, DisabledNow, Restarted
  <1> QED BY <1>1, <1>2, <1>6 DEF StopPartly, StartPartly

\* A row's config file is well formed.
LEMMA ConfigOfType ==
    ASSUME TypeOK, NEW e \in Tunnel
    PROVE  ConfigOf(e) \in Config /\ ConfigOf(e).port = e.port
    BY DEF TypeOK, ConfigOf, Config, Tunnel

\* A thread outside any handler has a well-formed, empty job.
LEMMA IdleType == Idle \in Job
    BY DEF Idle, Job, PCs

\* Whether a command succeeds or fails, systemd's table keeps its shape.
LEMMA CallType ==
    ASSUME TypeOK, NEW n \in Names, NEW u \in UnitState, NEW partly \in SUBSET UnitState,
           Succeeds(n, u) \/ Fails(n, partly)
    PROVE  unit' \in [Names -> UnitState]
    BY DEF Succeeds, Fails, TypeOK

\* The same of a command that starts a unit, which has one outcome only.
LEMMA StartCallType ==
    ASSUME TypeOK, NEW n \in Names, NEW u \in UnitState,
           Succeeds(n, u) \/ Fails(n, {u})
    PROVE  unit' \in [Names -> UnitState]
    BY CallType, {u} \in SUBSET UnitState

\* handleAdd keeps the shape of every variable, at each of its steps.
LEMMA AddType ==
    ASSUME TypeOK, JobInv, NEW t \in Threads,
           \/ (\E n \in Names : Add(t, n)) \/ AddWriteConfig(t) \/ AddSaveRegistry(t) \/ AddRefreshSudoers(t) \/ AddStart(t)
    PROVE  TypeOK'
  <1>0. th \in [Threads -> Job] /\ th[t] \in Job
    BY DEF TypeOK
  <1>1. CASE \E n \in Names : Add(t, n)
    <2>1. PICK n \in Names, p \in Ports : AddBegin(t, n, p)
      BY <1>1 DEF Add
    <2>2. [name |-> n, port |-> p] \in Tunnel
      BY DEF Tunnel
    <2>3. [Idle EXCEPT !.op = "add", !.pc = "add_config", !.list = registry,
                       !.new = {[name |-> n, port |-> p]}] \in Job
      BY <2>2, IdleType DEF TypeOK, Job, PCs
    <2> QED BY <2>1, <2>3 DEF AddBegin, TypeOK
  <1>2. CASE AddWriteConfig(t)
    <2>1. \A e \in th[t].new : e \in Tunnel
      BY <1>0 DEF Job
    <2> QED BY <1>0, <1>2, <2>1, ConfigOfType, IdleType
            DEF AddWriteConfig, WriteConfig, WriteConfigFails, TypeOK, Job, PCs
  <1>3. CASE AddSaveRegistry(t)
    BY <1>0, <1>3, IdleType DEF AddSaveRegistry, TypeOK, Job, PCs
  <1>4. CASE AddRefreshSudoers(t)
    <2>1. th[t].list \subseteq Tunnel
      BY <1>0 DEF Job
    <2>2. [th[t] EXCEPT !.pc = "add_start"] \in Job
      BY <1>0 DEF Job, PCs
    <2> QED BY <1>0, <1>4, <2>1, <2>2 DEF AddRefreshSudoers, TypeOK
  <1>5. CASE AddStart(t)
    <2>1. PICK e \in th[t].new : \/ Succeeds(e.name, EnabledNow(e.name))
                                 \/ Fails(e.name, StartPartly(e.name))
      BY <1>5 DEF AddStart
    <2>2. e.name \in Names
      BY <1>0 DEF Job, Tunnel
    <2>3. unit' \in [Names -> UnitState]
      BY <2>1, <2>2, CallType, CommandType
    <2> QED BY <1>5, <2>3, IdleType DEF AddStart, TypeOK
  <1> QED BY <1>1, <1>2, <1>3, <1>4, <1>5

\* The remove action keeps the shape of every variable.
LEMMA RemoveType ==
    ASSUME TypeOK, JobInv, NEW t \in Threads,
           \/ (\E n \in Names : Remove(t, n)) \/ RemoveStop(t) \/ RemoveFiles(t) \/ RemoveFromRegistry(t)
           \/ RemoveRefresh(t)
    PROVE  TypeOK'
  <1>0. th \in [Threads -> Job] /\ th[t] \in Job
    BY DEF TypeOK
  <1>1. ASSUME NEW n \in Names, Remove(t, n) PROVE TypeOK'
    <2>1. [Idle EXCEPT !.op = "remove", !.pc = "rm_stop", !.name = n] \in Job
      BY IdleType DEF Job, PCs
    <2> QED BY <1>1, <2>1 DEF Remove, TypeOK
  <1>2. CASE RemoveStop(t)
    <2>1. th[t].name \in Names
      BY <1>2 DEF RemoveStop, JobInv, JobOK
    <2>2. unit' \in [Names -> UnitState]
      BY <1>2, <2>1, CallType, CommandType DEF RemoveStop
    <2>3. [th[t] EXCEPT !.pc = "rm_config"] \in Job
      BY <1>0 DEF Job, PCs
    <2>4. strays' \subseteq Names
      BY <1>2, <2>1 DEF RemoveStop, Strays, TypeOK
    <2> QED BY <1>0, <1>2, <2>2, <2>3, <2>4 DEF RemoveStop, TypeOK
  <1>3. CASE RemoveFiles(t)
    BY <1>0, <1>3 DEF RemoveFiles, TypeOK, Job, PCs
  <1>4. CASE RemoveFromRegistry(t)
    BY <1>0, <1>4 DEF RemoveFromRegistry, TypeOK, Job, PCs
  <1>5. CASE RemoveRefresh(t)
    <2>1. th[t].list \subseteq Tunnel
      BY <1>0 DEF Job
    <2> QED BY <1>5, <2>1, IdleType DEF RemoveRefresh, TypeOK
  <1> QED BY <1>1, <1>2, <1>3, <1>4, <1>5

\* applyUpstream keeps the shape of every variable.
LEMMA ApplyType ==
    ASSUME TypeOK, JobInv, NEW t \in Threads,
           \/ (\E s \in Upstreams : Upstream(t, s)) \/ ApplyService(t) \/ ApplySave(t) \/ ApplyConfig(t)
           \/ ApplyCheck(t) \/ ApplyRestart(t) \/ UpstreamEnd(t)
    PROVE  TypeOK'
  <1>0. th \in [Threads -> Job] /\ th[t] \in Job
    BY DEF TypeOK
  <1>1. ASSUME NEW s \in Upstreams, Upstream(t, s) PROVE TypeOK'
    <2>1. [Idle EXCEPT !.op = "upstream", !.pc = "up_service", !.up = s] \in Job
      BY IdleType DEF Job, PCs
    <2> QED BY <1>1, <2>1 DEF Upstream, TypeOK
  <1>2. CASE ApplyService(t)
    BY <1>0, <1>2, IdleType DEF ApplyService, TypeOK, Job, PCs
  <1>3. CASE ApplySave(t)
    <2>1. th[t].up \in Upstreams
      BY <1>3 DEF ApplySave, JobInv, JobOK
    <2>2. [th[t] EXCEPT !.pc = "up_config", !.todo = registry] \in Job
      BY <1>0 DEF TypeOK, Job, PCs
    <2>3. th' \in [Threads -> Job] /\ mu' \in Threads \cup {Free}
      <3>1. th' = [th EXCEPT ![t] = [@ EXCEPT !.pc = "up_config", !.todo = registry]] \/ Return(t)
        BY <1>0, <1>3 DEF ApplySave
      <3> QED BY <1>0, <1>3, <2>2, <3>1, IdleType DEF ApplySave, TypeOK
    <2> QED BY <1>3, <2>1, <2>3 DEF ApplySave, TypeOK
  <1>4. CASE ApplyConfig(t)
    <2>1. PICK e \in th[t].todo :
             \/ /\ WriteConfig(e)
                /\ th' = [th EXCEPT ![t].pc = "up_check", ![t].name = e.name, ![t].todo = @ \ {e}]
                /\ UNCHANGED mu
             \/ WriteConfigFails(e) /\ Return(t)
      BY <1>4 DEF ApplyConfig
    <2>2. e \in Tunnel /\ e.name \in Names
      BY <1>0 DEF Job, Tunnel
    <2>3. conf' \in [Names -> Config \cup {NoConf, Torn}]
      BY <2>1, <2>2, ConfigOfType DEF WriteConfig, WriteConfigFails, TypeOK
    <2>4. [th[t] EXCEPT !.pc = "up_check", !.name = e.name, !.todo = @ \ {e}] \in Job
      BY <1>0, <2>2 DEF Job, PCs
    <2>5. th' \in [Threads -> Job] /\ mu' \in Threads \cup {Free}
      BY <1>0, <2>1, <2>4, IdleType DEF TypeOK
    <2> QED BY <1>4, <2>3, <2>5 DEF ApplyConfig, TypeOK
  <1>5. CASE ApplyCheck(t)
    <2>1. th[t].name \in Names
      BY <1>5 DEF ApplyCheck, JobInv, JobOK
    <2>2. /\ [th[t] EXCEPT !.pc = "up_restart"] \in Job
          /\ [th[t] EXCEPT !.pc = "up_config"] \in Job
          /\ [th[t] EXCEPT !.pc = "up_config", !.unasked = @ \cup {th[t].name}] \in Job
      BY <1>0, <2>1 DEF Job, PCs
    <2>3. th' \in [Threads -> Job]
      BY <1>0, <1>5, <2>2 DEF ApplyCheck
    <2> QED BY <1>5, <2>3 DEF ApplyCheck, TypeOK
  <1>6. CASE ApplyRestart(t)
    <2>1. th[t].name \in Names
      BY <1>6 DEF ApplyRestart, JobInv, JobOK
    <2>2. unit' \in [Names -> UnitState]
      BY <1>6, <2>1, StartCallType, CommandType DEF ApplyRestart
    <2> QED BY <1>0, <1>6, <2>2, IdleType DEF ApplyRestart, TypeOK, Job, PCs
  <1>7. CASE UpstreamEnd(t)
    BY <1>7, IdleType DEF UpstreamEnd, TypeOK
  <1> QED BY <1>1, <1>2, <1>3, <1>4, <1>5, <1>6, <1>7

\* handleBackupImport keeps the shape of every variable: what it appends to the
\* registry was checked against the range, so the ports of a backup do not get in.
LEMMA ImportType ==
    ASSUME TypeOK, JobInv, NEW t \in Threads,
           \/ (\E b \in Backups, s \in Upstreams \cup {None} : Import(t, b, s))
           \/ ImportLoad(t) \/ ImportEntry(t) \/ ImportSaveRegistry(t)
           \/ ImportRefreshSudoers(t) \/ ImportStart(t)
    PROVE  TypeOK'
  <1>0. th \in [Threads -> Job] /\ th[t] \in Job
    BY DEF TypeOK
  <1>1. ASSUME NEW b \in Backups, NEW s \in Upstreams \cup {None}, Import(t, b, s) PROVE TypeOK'
    <2>0. b \in SUBSET BackupTunnel
      BY DEF Backups
    <2>1. [Idle EXCEPT !.op = "import", !.backup = b, !.up = s,
                       !.pc = IF s = None THEN "up_config" ELSE "up_service"] \in Job
      BY <2>0, IdleType DEF Job, PCs
    <2> QED BY <1>1, <2>1 DEF Import, TypeOK
  <1>2. CASE ImportLoad(t)
    <2>1. [th[t] EXCEPT !.pc = "im_entry", !.list = registry] \in Job
      BY <1>0 DEF TypeOK, Job, PCs
    <2> QED BY <1>0, <1>2, <2>1, IdleType DEF ImportLoad, TypeOK
  <1>3. CASE ImportEntry(t)
    <2>1. PICK e \in th[t].backup :
            \/ /\ Importable(e, th[t].list \cup th[t].new)
               /\ \/ WriteConfig(e) /\ th' = [th EXCEPT ![t].backup = @ \ {e}, ![t].new = @ \cup {e}]
                  \/ WriteConfigFails(e) /\ th' = [th EXCEPT ![t].backup = @ \ {e}]
            \/ /\ ~Importable(e, th[t].list \cup th[t].new)
               /\ th' = [th EXCEPT ![t].backup = @ \ {e}]
               /\ UNCHANGED conf
      BY <1>3 DEF ImportEntry
    <2>2. e \in BackupTunnel
      BY <1>0 DEF Job
    <2>3. Importable(e, th[t].list \cup th[t].new) => e \in Tunnel
      BY <2>2 DEF Importable, BackupTunnel, Tunnel
    <2>4. [th[t] EXCEPT !.backup = @ \ {e}] \in Job
      BY <1>0 DEF Job
    <2>5. e \in Tunnel => [th[t] EXCEPT !.backup = @ \ {e}, !.new = @ \cup {e}] \in Job
      BY <1>0 DEF Job
    <2>6. th' \in [Threads -> Job]
      BY <1>0, <2>1, <2>3, <2>4, <2>5
    <2>7. conf' \in [Names -> Config \cup {NoConf, Torn}]
      BY <2>1, <2>2, <2>3, ConfigOfType DEF WriteConfig, WriteConfigFails, TypeOK, BackupTunnel
    <2> QED BY <1>3, <2>6, <2>7 DEF ImportEntry, TypeOK
  <1>4. CASE ImportSaveRegistry(t)
    BY <1>0, <1>4, IdleType DEF ImportSaveRegistry, TypeOK, Job, PCs
  <1>5. CASE ImportRefreshSudoers(t)
    <2>1. [th[t] EXCEPT !.pc = "im_start", !.todo = th[t].new] \in Job
      BY <1>0 DEF Job, PCs
    <2>2. th[t].list \subseteq Tunnel
      BY <1>0 DEF Job
    <2> QED BY <1>0, <1>5, <2>1, <2>2 DEF ImportRefreshSudoers, TypeOK
  <1>6. CASE ImportStart(t)
    <2>1. PICK e \in th[t].todo :
            /\ \/ Succeeds(e.name, EnabledNow(e.name))
               \/ Fails(e.name, StartPartly(e.name))
            /\ IF th[t].todo = {e}
               THEN Return(t)
               ELSE th' = [th EXCEPT ![t].todo = @ \ {e}] /\ UNCHANGED mu
      BY <1>6 DEF ImportStart
    <2>2. e.name \in Names
      BY <1>0 DEF Job, Tunnel
    <2>3. unit' \in [Names -> UnitState]
      BY <2>1, <2>2, CallType, CommandType
    <2>4. [th[t] EXCEPT !.todo = @ \ {e}] \in Job
      BY <1>0 DEF Job
    <2>5. th' \in [Threads -> Job] /\ mu' \in Threads \cup {Free}
      BY <1>0, <2>1, <2>4, IdleType DEF TypeOK
    <2> QED BY <1>6, <2>3, <2>5 DEF ImportStart, TypeOK
  <1> QED BY <1>1, <1>2, <1>3, <1>4, <1>5, <1>6

\* restartIfRunning keeps the shape of every variable.
LEMMA WaveType ==
    ASSUME TypeOK, JobInv, NEW t \in Threads,
           (\E n \in Names : WaveCheck(t, n)) \/ WaveRestart(t)
    PROVE  TypeOK'
  <1>0. th \in [Threads -> Job] /\ th[t] \in Job
    BY DEF TypeOK
  <1>1. ASSUME NEW n \in Names, WaveCheck(t, n) PROVE TypeOK'
    <2>1. [Idle EXCEPT !.op = "wave", !.pc = "wave_restart", !.name = n] \in Job
      BY IdleType DEF Job, PCs
    <2> QED BY <1>1, <2>1 DEF WaveCheck, TypeOK
  <1>2. CASE WaveRestart(t)
    <2>1. th[t].name \in Names
      BY <1>2 DEF WaveRestart, JobInv, JobOK
    <2>2. unit' \in [Names -> UnitState]
      BY <1>2, <2>1, StartCallType, CommandType DEF WaveRestart
    <2> QED BY <1>2, <2>2, IdleType DEF WaveRestart, TypeOK
  <1> QED BY <1>1, <1>2

\* The script reads the registry for a handler.
LEMMA ReadsType ==
    ASSUME TypeOK, NEW t \in Threads, RefreshReads(t)
    PROVE  TypeOK'
  <1>1. th \in [Threads -> Job] /\ th[t] \in Job /\ registry \subseteq Tunnel
    BY DEF TypeOK
  <1>2. \A pc \in PCs : [th[t] EXCEPT !.pc = pc, !.list = registry] \in Job
    BY <1>1 DEF Job
  <1>3. Reading[th[t].pc] \in PCs
    BY DEF RefreshReads, Reading, PCs
  <1>4. th' = [th EXCEPT ![t] = [th[t] EXCEPT !.pc = Reading[th[t].pc], !.list = registry]]
    BY <1>1 DEF RefreshReads
  <1>5. th' \in [Threads -> Job]
    BY <1>1, <1>2, <1>3, <1>4
  <1> QED BY <1>5 DEF RefreshReads, TypeOK

\* A crash tears at most one file, and only one a handler was writing.
LEMMA StopsType ==
    ASSUME TypeOK, PanelStops
    PROVE  /\ conf' \in [Names -> Config \cup {NoConf, Torn}]
           /\ th' \in [Threads -> Job]
           /\ mu' \in Threads \cup {Free}
           /\ behind' \in BOOLEAN /\ strays' = strays
    BY IdleType DEF PanelStops, TypeOK

\* So does all that takes no lock: buttons, psictl, systemd, crash and reboot.
LEMMA UnlockedType ==
    ASSUME TypeOK, Unlocked
    PROVE  TypeOK'
  <1>1. ASSUME NEW n \in Names,
               RestartButton(n) \/ StopButton(n) \/ Psictl(n) \/ UnitExits(n) \/ UnitRelaunched(n)
        PROVE  TypeOK'
    <2>1. unit[n] \in UnitState /\ unit \in [Names -> UnitState]
      BY DEF TypeOK
    <2>7. (\E astray \in BOOLEAN : Strays(n, astray)) => strays' \subseteq Names
      BY DEF Strays, TypeOK
    <2>8. Astray(n) \in BOOLEAN
      BY DEF Astray, BeingRemoved, TypeOK
    <2>2. CASE RestartButton(n)
      <3>1. unit' \in [Names -> UnitState]
        BY <2>2, StartCallType, CommandType DEF RestartButton
      <3> QED BY <2>2, <2>7, <2>8, <3>1 DEF RestartButton, TypeOK
    <2>3. CASE StopButton(n)
      <3>1. StopPartly(n) \in SUBSET UnitState
        BY CommandType
      <3>2. unit' \in [Names -> UnitState]
        BY <2>3, <3>1, CallType, CommandType DEF StopButton
      <3> QED BY <2>3, <2>7, <3>2 DEF StopButton, TypeOK
    <2>4. CASE Psictl(n)
      <3>1. unit' \in [Names -> UnitState]
        BY <2>4, <2>1, CommandType DEF Psictl
      <3> QED BY <2>4, <2>7, <2>8, <3>1 DEF Psictl, TypeOK
    <2>5. CASE UnitExits(n)
      <3>1. [unit[n] EXCEPT !.state = "activating", !.conf = NoConf] \in UnitState
        BY <2>1 DEF UnitState
      <3> QED BY <2>5, <2>1, <3>1 DEF UnitExits, TypeOK
    <2>6. CASE UnitRelaunched(n)
      <3>1. Launched(conf[n], unit[n].enabled) \in UnitState
        BY CommandType DEF Restarted
      <3> QED BY <2>6, <2>1, <3>1 DEF UnitRelaunched, TypeOK
    <2> QED BY <1>1, <2>2, <2>3, <2>4, <2>5, <2>6
  <1>2. CASE UpdateReads
    <2>1. upd' \in Script
      BY <1>2 DEF UpdateReads, TypeOK, Script
    <2> QED BY <1>2, <2>1 DEF UpdateReads, TypeOK
  <1>5. CASE UpdateInstalls
    <2>1. upd.rows \subseteq Tunnel /\ NoScript \in Script
      BY DEF TypeOK, Script, NoScript
    <2> QED BY <1>5, <2>1 DEF UpdateInstalls, TypeOK
  <1>3. CASE PanelCrash
    BY <1>3, StopsType DEF PanelCrash, TypeOK
  <1>4. CASE Reboot
    <2>1. Down \in UnitState
      BY DEF Down, UnitState
    <2>2. \A n \in Names : Launched(conf'[n], TRUE) \in UnitState
      BY <1>4, StopsType, LaunchedType DEF Reboot
    <2> QED BY <1>4, <2>1, <2>2, StopsType DEF Reboot, TypeOK, Script, NoScript
  <1> QED BY <1>1, <1>2, <1>3, <1>4, <1>5 DEF Unlocked

\* Every step keeps the shape of every variable.
LEMMA TypeStep == TypeOK /\ JobInv /\ [Next]_vars => TypeOK'
  <1> SUFFICES ASSUME TypeOK, JobInv, [Next]_vars PROVE TypeOK'
    OBVIOUS
  <1>1. CASE UNCHANGED vars
    BY <1>1 DEF vars, TypeOK
  <1>2. CASE Unlocked
    BY <1>2, UnlockedType
  <1>3. ASSUME NEW t \in Threads, Begin(t) PROVE TypeOK'
    <2> QED BY <1>3, AddType, RemoveType, ApplyType, ImportType, WaveType DEF Begin
  <1>4. ASSUME NEW t \in Threads, Proceed(t) PROVE TypeOK'
    <2> QED BY <1>4, ReadsType, AddType, RemoveType, ApplyType, ImportType, WaveType DEF Proceed
  <1> QED BY <1>1, <1>2, <1>3, <1>4 DEF Next


-----------------------------------------------------------------------------
\* The lock, the pending rows and the agreement of files and registry.

\* An idle thread owes nothing.
LEMMA IdleOK ==
    ASSUME NEW rows, NEW files
    PROVE  JobOK(Idle, rows) /\ PendingOK(Idle, rows, files) /\ Idle.pc = "idle"
    BY DEF Idle, JobOK, PendingOK

\* A thread that is inside a handler, or that takes the free mutex, is alone:
\* what it leaves of its own job is all there is to check.
LEMMA AloneStep ==
    ASSUME TypeOK, LockInv, NEW t \in Threads, th[t].pc # "idle" \/ mu = Free,
           NEW j, th' = [th EXCEPT ![t] = j], j.pc = "idle" \/ mu' = t,
           JobOK(j, registry'), PendingOK(j, registry', conf')
    PROVE  JobInv' /\ LockInv' /\ PendingInv'
  <1>1. \A u \in Threads \ {t} : th[u].pc = "idle"
    BY SentinelAssumption DEF LockInv
  <1>2. th'[t] = j /\ \A u \in Threads \ {t} : th'[u] = th[u]
    BY DEF TypeOK
  <1>3. \A u \in Threads \ {t} : /\ th'[u].pc = "idle"
                                 /\ JobOK(th'[u], registry')
                                 /\ PendingOK(th'[u], registry', conf')
    BY <1>1, <1>2 DEF JobOK, PendingOK
  <1> QED BY <1>2, <1>3 DEF JobInv, LockInv, PendingInv

\* A handler returns: nothing of its job is left.
LEMMA ReturnStep ==
    ASSUME TypeOK, LockInv, NEW t \in Threads, th[t].pc # "idle", Return(t)
    PROVE  JobInv' /\ LockInv' /\ PendingInv'
    BY AloneStep, IdleOK

\* A step that writes neither the registry nor a config file keeps what relates them.
LEMMA FilesKept ==
    ASSUME UniqueEntries, ConfPortAgrees, UNCHANGED <<registry, conf>>
    PROVE  UniqueEntries' /\ ConfPortAgrees'
    BY DEF UniqueEntries, ConfPortAgrees

SafeNext == JobInv' /\ LockInv' /\ PendingInv' /\ UniqueEntries' /\ ConfPortAgrees'

\* handleAdd keeps the registry unique and the files in step with it.
LEMMA AddSafe ==
    ASSUME IInv, NEW t \in Threads,
           \/ (\E n \in Names : Add(t, n)) \/ AddWriteConfig(t) \/ AddSaveRegistry(t)
           \/ AddRefreshSudoers(t) \/ AddStart(t)
    PROVE  SafeNext
  <1>0. th \in [Threads -> Job] /\ th[t] \in Job /\ TypeOK
        /\ JobOK(th[t], registry) /\ PendingOK(th[t], registry, conf)
    BY DEF IInv, TypeOK, JobInv, PendingInv
  <1>1. ASSUME NEW n \in Names, Add(t, n) PROVE SafeNext
    <2>1. PICK p \in Ports : AddBegin(t, n, p)
      BY <1>1 DEF Add
    <2> DEFINE j == [Idle EXCEPT !.op = "add", !.pc = "add_config", !.list = registry,
                                 !.new = {[name |-> n, port |-> p]}]
    <2>2. j.pc = "add_config" /\ j.list = registry /\ j.new = {[name |-> n, port |-> p]}
      BY DEF Idle
    <2>3. \A b \in registry : n # b.name /\ p # b.port
      BY <1>1, <2>1 DEF Add, AddBegin, NamesOf, FindFreePort, FreePorts
    <2>4. JobOK(j, registry') /\ PendingOK(j, registry', conf')
      BY <2>1, <2>2, <2>3 DEF AddBegin, JobOK, PendingOK
    <2>5. JobInv' /\ LockInv' /\ PendingInv'
      <3>1. th' = [th EXCEPT ![t] = j] /\ mu = Free /\ mu' = t
        BY <2>1 DEF AddBegin
      <3> HIDE DEF j
      <3> QED BY <1>0, <2>4, <3>1, AloneStep DEF IInv
    <2> QED BY <2>1, <2>5, FilesKept DEF AddBegin, IInv, SafeNext
  <1>2. CASE AddWriteConfig(t)
    <2>1. PICK e \in th[t].new :
        \/ /\ WriteConfig(e)
           /\ th' = [th EXCEPT ![t].pc = "add_save"] /\ UNCHANGED mu
        \/ WriteConfigFails(e) /\ Return(t)
      BY <1>2 DEF AddWriteConfig
    <2>2. /\ e \in Tunnel /\ e.name \in Names /\ \A b \in registry : b.name # e.name
          /\ mu = t /\ registry' = registry /\ th[t].pc = "add_config"
      BY <1>0, <1>2 DEF AddWriteConfig, PendingOK, Job, Tunnel, IInv, LockInv
    <2>3. \A m \in Names \ {e.name} : conf'[m] = conf[m]
      BY <1>0, <2>1, <2>2 DEF WriteConfig, WriteConfigFails, TypeOK
    <2>4. UniqueEntries' /\ ConfPortAgrees'
      BY <1>0, <2>2, <2>3 DEF IInv, UniqueEntries, ConfPortAgrees, TypeOK, Tunnel
    <2>5. CASE WriteConfigFails(e) /\ Return(t)
      BY <1>0, <2>2, <2>4, <2>5, ReturnStep DEF IInv, SafeNext
    <2>6. CASE WriteConfig(e) /\ th' = [th EXCEPT ![t].pc = "add_save"] /\ UNCHANGED mu
      <3> DEFINE j == [th[t] EXCEPT !.pc = "add_save"]
      <3>1. conf'[e.name].port = e.port
        BY <1>0, <2>2, <2>6, ConfigOfType DEF WriteConfig, TypeOK
      <3>2. \A x \in th[t].new : x = e
        BY <1>0, <2>2 DEF PendingOK
      <3>3. j.pc = "add_save" /\ j.list = th[t].list /\ j.new = th[t].new
        BY <1>0 DEF Job
      <3>4. JobOK(j, registry') /\ PendingOK(j, registry', conf')
        BY <1>0, <2>2, <3>1, <3>2, <3>3 DEF JobOK, PendingOK
      <3>5. th' = [th EXCEPT ![t] = j] /\ mu' = t
        BY <1>0, <2>2, <2>6
      <3> HIDE DEF j
      <3> QED BY <1>0, <2>2, <2>4, <3>4, <3>5, AloneStep DEF IInv, SafeNext
    <2> QED BY <2>1, <2>5, <2>6
  <1>3. CASE AddSaveRegistry(t)
    <2>1. /\ mu = t /\ th[t].pc = "add_save" /\ th[t].list = registry /\ UNCHANGED conf
          /\ th[t].new \subseteq Tunnel
      BY <1>0, <1>3 DEF AddSaveRegistry, PendingOK, Job, IInv, LockInv
    <2>2. CASE registry' = th[t].list \cup th[t].new /\ th' = [th EXCEPT ![t].pc = "add_refresh"] /\ UNCHANGED mu
      <3> DEFINE j == [th[t] EXCEPT !.pc = "add_refresh"]
      <3>1. j.pc = "add_refresh"
        BY <1>0 DEF Job
      <3>2. JobOK(j, registry') /\ PendingOK(j, registry', conf')
        BY <3>1 DEF JobOK, PendingOK
      <3>3. th' = [th EXCEPT ![t] = j] /\ mu' = t
        BY <1>0, <2>1, <2>2
      <3>4. UniqueEntries'
        BY <1>0, <2>1, <2>2 DEF IInv, UniqueEntries, PendingOK
      <3>5. ConfPortAgrees'
        BY <1>0, <2>1, <2>2 DEF IInv, ConfPortAgrees, PendingOK
      <3> HIDE DEF j
      <3> QED BY <1>0, <2>1, <3>2, <3>3, <3>4, <3>5, AloneStep DEF IInv, SafeNext
    <2>3. CASE UNCHANGED registry /\ Return(t)
      BY <1>0, <2>1, <2>3, ReturnStep, FilesKept DEF IInv, SafeNext
    <2> QED BY <1>3, <2>2, <2>3 DEF AddSaveRegistry
  <1>4. CASE AddRefreshSudoers(t)
    <2> DEFINE j == [th[t] EXCEPT !.pc = "add_start"]
    <2>1. j.pc = "add_start"
      BY <1>0 DEF Job
    <2>2. JobOK(j, registry') /\ PendingOK(j, registry', conf')
      BY <2>1 DEF JobOK, PendingOK
    <2>3. th' = [th EXCEPT ![t] = j] /\ mu' = t /\ th[t].pc # "idle"
      BY <1>0, <1>4 DEF AddRefreshSudoers, IInv, LockInv
    <2> HIDE DEF j
    <2> QED BY <1>0, <1>4, <2>2, <2>3, AloneStep, FilesKept DEF AddRefreshSudoers, IInv, SafeNext
  <1>5. CASE AddStart(t)
    BY <1>0, <1>5, ReturnStep, FilesKept DEF AddStart, IInv, SafeNext
  <1> QED BY <1>1, <1>2, <1>3, <1>4, <1>5

\* A step inside a handler that writes neither file and leaves the job at a
\* point with nothing pending.
LEMMA QuietStep ==
    ASSUME IInv, NEW t \in Threads, th[t].pc # "idle" \/ mu = Free,
           NEW j, th' = [th EXCEPT ![t] = j], mu' = t, UNCHANGED <<registry, conf>>,
           j.pc \notin {"add_config", "add_save", "im_entry"}, JobOK(j, registry)
    PROVE  SafeNext
  <1>1. PendingOK(j, registry', conf')
    BY DEF PendingOK
  <1>2. JobInv' /\ LockInv' /\ PendingInv'
    BY <1>1, AloneStep DEF IInv
  <1> QED BY <1>2, FilesKept DEF IInv, SafeNext

\* A handler returns having written neither the registry nor a file.
LEMMA QuietReturn ==
    ASSUME IInv, NEW t \in Threads, th[t].pc # "idle", Return(t), UNCHANGED <<registry, conf>>
    PROVE  SafeNext
    BY ReturnStep, FilesKept DEF IInv, SafeNext

\* So does the remove action, even when it fails half way.
LEMMA RemoveSafe ==
    ASSUME IInv, NEW t \in Threads,
           \/ (\E n \in Names : Remove(t, n)) \/ RemoveStop(t) \/ RemoveFiles(t)
           \/ RemoveFromRegistry(t) \/ RemoveRefresh(t)
    PROVE  SafeNext
  <1>0. th \in [Threads -> Job] /\ th[t] \in Job /\ TypeOK /\ JobOK(th[t], registry)
    BY DEF IInv, TypeOK, JobInv
  <1>1. ASSUME NEW n \in Names, Remove(t, n) PROVE SafeNext
    <2> DEFINE j == [Idle EXCEPT !.op = "remove", !.pc = "rm_stop", !.name = n]
    <2>1. j.pc = "rm_stop" /\ j.name = n
      BY DEF Idle
    <2>2. JobOK(j, registry)
      BY <2>1 DEF JobOK
    <2>3. th' = [th EXCEPT ![t] = j] /\ mu = Free /\ mu' = t /\ UNCHANGED <<registry, conf>>
      BY <1>1 DEF Remove
    <2> HIDE DEF j
    <2> QED BY <2>1, <2>2, <2>3, QuietStep
  <1>2. CASE RemoveStop(t)
    <2> DEFINE j == [th[t] EXCEPT !.pc = "rm_config"]
    <2>1. j.pc = "rm_config" /\ j.name = th[t].name
      BY <1>0 DEF Job
    <2>2. JobOK(j, registry)
      BY <1>0, <1>2, <2>1 DEF RemoveStop, JobOK
    <2>3. th' = [th EXCEPT ![t] = j] /\ mu' = t /\ th[t].pc # "idle" /\ UNCHANGED <<registry, conf>>
      BY <1>0, <1>2 DEF RemoveStop, IInv, LockInv
    <2> HIDE DEF j
    <2> QED BY <2>1, <2>2, <2>3, QuietStep
  <1>3. CASE RemoveFiles(t)
    <2> DEFINE j == [th[t] EXCEPT !.pc = "rm_save"]
    <2>1. j.pc = "rm_save" /\ j.name = th[t].name /\ th[t].name \in Names
      BY <1>0, <1>3 DEF Job, RemoveFiles, JobOK
    <2>2. JobOK(j, registry') /\ PendingOK(j, registry', conf')
      BY <2>1 DEF JobOK, PendingOK
    <2>3. th' = [th EXCEPT ![t] = j] /\ mu' = t /\ th[t].pc # "idle" /\ registry' = registry
      BY <1>0, <1>3 DEF RemoveFiles, IInv, LockInv
    <2>4. UniqueEntries'
      BY <2>3 DEF IInv, UniqueEntries
    <2>5. \A m \in Names : conf'[m] = conf[m] \/ conf'[m] = NoConf
      BY <1>0, <1>3 DEF RemoveFiles, TypeOK
    <2>6. ConfPortAgrees'
      BY <1>0, <2>3, <2>5, ConfigAssumption DEF IInv, ConfPortAgrees, TypeOK, Tunnel
    <2> HIDE DEF j
    <2> QED BY <1>0, <2>2, <2>3, <2>4, <2>6, AloneStep DEF IInv, SafeNext
  <1>4. CASE RemoveFromRegistry(t)
    <2> DEFINE j == [th[t] EXCEPT !.pc = "rm_refresh"]
    <2>1. j.pc = "rm_refresh" /\ j.name = th[t].name /\ th[t].name \in Names
      BY <1>0, <1>4 DEF Job, RemoveFromRegistry, JobOK
    <2>2. JobOK(j, registry') /\ PendingOK(j, registry', conf')
      BY <2>1 DEF JobOK, PendingOK
    <2>3. th' = [th EXCEPT ![t] = j] /\ mu' = t /\ th[t].pc # "idle" /\ conf' = conf
          /\ registry' \subseteq registry
      BY <1>0, <1>4 DEF RemoveFromRegistry, IInv, LockInv
    <2>4. UniqueEntries' /\ ConfPortAgrees'
      BY <2>3 DEF IInv, UniqueEntries, ConfPortAgrees
    <2> HIDE DEF j
    <2> QED BY <1>0, <2>2, <2>3, <2>4, AloneStep DEF IInv, SafeNext
  <1>5. CASE RemoveRefresh(t)
    BY <1>5, QuietReturn DEF RemoveRefresh
  <1> QED BY <1>1, <1>2, <1>3, <1>4, <1>5

\* Rewriting the file of a registered row keeps every file in agreement: no other
\* row shares its name.
LEMMA RewriteSafe ==
    ASSUME TypeOK, UniqueEntries, ConfPortAgrees, NEW e \in registry,
           WriteConfig(e) \/ WriteConfigFails(e), UNCHANGED registry
    PROVE  UniqueEntries' /\ ConfPortAgrees'
  <1>1. e \in Tunnel /\ e.name \in Names
    BY DEF TypeOK, Tunnel
  <1>2. \A m \in Names \ {e.name} : conf'[m] = conf[m]
    BY <1>1 DEF WriteConfig, WriteConfigFails, TypeOK
  <1>3. conf'[e.name] \in Config => conf'[e.name].port = e.port \/ conf'[e.name] = conf[e.name]
    BY <1>1, ConfigOfType, ConfigAssumption DEF WriteConfig, WriteConfigFails, TypeOK
  <1>4. \A x \in registry : x.name \in Names /\ (x.name = e.name => x = e)
    BY DEF UniqueEntries, TypeOK, Tunnel
  <1> QED BY <1>2, <1>3, <1>4 DEF UniqueEntries, ConfPortAgrees

\* So does applyUpstream, which rewrites the files of registered locations.
LEMMA ApplySafe ==
    ASSUME IInv, NEW t \in Threads,
           \/ (\E s \in Upstreams : Upstream(t, s)) \/ ApplyService(t) \/ ApplySave(t)
           \/ ApplyConfig(t) \/ ApplyCheck(t) \/ ApplyRestart(t) \/ UpstreamEnd(t)
    PROVE  SafeNext
  <1>0. th \in [Threads -> Job] /\ th[t] \in Job /\ TypeOK /\ JobOK(th[t], registry)
    BY DEF IInv, TypeOK, JobInv
  <1>1. ASSUME NEW s \in Upstreams, Upstream(t, s) PROVE SafeNext
    <2> DEFINE j == [Idle EXCEPT !.op = "upstream", !.pc = "up_service", !.up = s]
    <2>1. j.pc = "up_service" /\ j.up = s /\ j.new = {}
      BY DEF Idle
    <2>2. JobOK(j, registry)
      BY <2>1 DEF JobOK
    <2>3. th' = [th EXCEPT ![t] = j] /\ mu = Free /\ mu' = t /\ UNCHANGED <<registry, conf>>
      BY <1>1 DEF Upstream
    <2> HIDE DEF j
    <2> QED BY <2>1, <2>2, <2>3, QuietStep
  <1>2. CASE ApplyService(t)
    <2> DEFINE j == [th[t] EXCEPT !.pc = "up_save"]
    <2>1. j.pc = "up_save" /\ j.up = th[t].up /\ j.new = th[t].new
      BY <1>0 DEF Job
    <2>2. JobOK(j, registry)
      BY <1>0, <1>2, <2>1 DEF ApplyService, JobOK
    <2>3. CASE Return(t)
      BY <1>2, <2>3, QuietReturn DEF ApplyService
    <2>4. CASE th' = [th EXCEPT ![t].pc = "up_save"] /\ UNCHANGED mu
      <3>1. th' = [th EXCEPT ![t] = j] /\ mu' = t /\ th[t].pc # "idle" /\ UNCHANGED <<registry, conf>>
        BY <1>0, <1>2, <2>4 DEF ApplyService, IInv, LockInv
      <3> HIDE DEF j
      <3> QED BY <2>1, <2>2, <3>1, QuietStep
    <2> QED BY <1>2, <2>3, <2>4 DEF ApplyService
  <1>3. CASE ApplySave(t)
    <2> DEFINE j == [th[t] EXCEPT !.pc = "up_config", !.todo = registry]
    <2>1. j.pc = "up_config" /\ j.todo = registry /\ j.new = {}
      BY <1>0, <1>3 DEF Job, ApplySave, JobOK
    <2>2. JobOK(j, registry)
      BY <2>1 DEF JobOK
    <2>3. CASE Return(t)
      BY <1>3, <2>3, QuietReturn DEF ApplySave
    <2>4. CASE th' = [th EXCEPT ![t].pc = "up_config", ![t].todo = registry] /\ UNCHANGED mu
      <3>1. th' = [th EXCEPT ![t] = j] /\ mu' = t /\ th[t].pc # "idle" /\ UNCHANGED <<registry, conf>>
        BY <1>0, <1>3, <2>4 DEF ApplySave, IInv, LockInv
      <3> HIDE DEF j
      <3> QED BY <2>1, <2>2, <3>1, QuietStep
    <2> QED BY <1>3, <2>3, <2>4 DEF ApplySave
  <1>4. CASE ApplyConfig(t)
    <2>0. th[t].pc = "up_config" /\ th[t].todo \subseteq registry /\ registry' = registry /\ mu = t
      BY <1>0, <1>4 DEF ApplyConfig, JobOK, IInv, LockInv
    <2>1. PICK e \in th[t].todo :
             \/ /\ WriteConfig(e)
                /\ th' = [th EXCEPT ![t].pc = "up_check", ![t].name = e.name, ![t].todo = @ \ {e}]
                /\ UNCHANGED mu
             \/ WriteConfigFails(e) /\ Return(t)
      BY <1>4 DEF ApplyConfig
    <2>2. UniqueEntries' /\ ConfPortAgrees'
      BY <1>0, <2>0, <2>1, RewriteSafe DEF IInv
    <2>3. CASE WriteConfigFails(e) /\ Return(t)
      BY <1>0, <2>0, <2>2, <2>3, ReturnStep DEF IInv, SafeNext
    <2>4. CASE /\ WriteConfig(e)
               /\ th' = [th EXCEPT ![t].pc = "up_check", ![t].name = e.name, ![t].todo = @ \ {e}]
               /\ UNCHANGED mu
      <3> DEFINE j == [th[t] EXCEPT !.pc = "up_check", !.name = e.name, !.todo = @ \ {e}]
      <3>1. j.pc = "up_check" /\ j.name = e.name /\ e.name \in Names /\ j.todo \subseteq th[t].todo
            /\ j.new = {}
        BY <1>0, <2>0 DEF Job, Tunnel, JobOK
      <3>2. JobOK(j, registry') /\ PendingOK(j, registry', conf')
        BY <2>0, <3>1 DEF JobOK, PendingOK
      <3>3. th' = [th EXCEPT ![t] = j] /\ mu' = t
        BY <1>0, <2>0, <2>4
      <3> HIDE DEF j
      <3> QED BY <1>0, <2>0, <2>2, <3>2, <3>3, AloneStep DEF IInv, SafeNext
    <2> QED BY <2>1, <2>3, <2>4
  <1>5. CASE ApplyCheck(t)
    <2> DEFINE asked == [th[t] EXCEPT !.pc = IF IsRunning(th[t].name) THEN "up_restart" ELSE "up_config"]
               unanswered == [th[t] EXCEPT !.pc = "up_config", !.unasked = @ \cup {th[t].name}]
    <2>1. \A j \in {asked, unanswered} :
             /\ j.pc \in {"up_restart", "up_config"} /\ j.name = th[t].name /\ j.todo = th[t].todo
             /\ j.new = th[t].new
      BY <1>0 DEF Job
    <2>2. th[t].name \in Names /\ th[t].todo \subseteq registry /\ th[t].new = {}
      BY <1>0, <1>5 DEF ApplyCheck, JobOK
    <2>3. JobOK(asked, registry) /\ JobOK(unanswered, registry)
      BY <2>1, <2>2 DEF JobOK
    <2>4. /\ th' = [th EXCEPT ![t] = asked] \/ th' = [th EXCEPT ![t] = unanswered]
          /\ mu' = t /\ th[t].pc # "idle" /\ UNCHANGED <<registry, conf>>
      BY <1>0, <1>5 DEF ApplyCheck, IInv, LockInv
    <2> HIDE DEF asked, unanswered
    <2> QED BY <2>1, <2>3, <2>4, QuietStep
  <1>6. CASE ApplyRestart(t)
    <2>1. CASE Return(t)
      BY <1>6, <2>1, QuietReturn DEF ApplyRestart
    <2>2. CASE th' = [th EXCEPT ![t].pc = "up_config"] /\ UNCHANGED mu
      <3> DEFINE j == [th[t] EXCEPT !.pc = "up_config"]
      <3>1. j.pc = "up_config" /\ j.todo = th[t].todo /\ j.new = th[t].new
        BY <1>0 DEF Job
      <3>2. JobOK(j, registry)
        BY <1>0, <1>6, <3>1 DEF ApplyRestart, JobOK
      <3>3. th' = [th EXCEPT ![t] = j] /\ mu' = t /\ th[t].pc # "idle" /\ UNCHANGED <<registry, conf>>
        BY <1>0, <1>6, <2>2 DEF ApplyRestart, IInv, LockInv
      <3> HIDE DEF j
      <3> QED BY <3>1, <3>2, <3>3, QuietStep
    <2> QED BY <1>6, <2>1, <2>2 DEF ApplyRestart
  <1>7. CASE UpstreamEnd(t)
    BY <1>7, QuietReturn DEF UpstreamEnd
  <1> QED BY <1>1, <1>2, <1>3, <1>4, <1>5, <1>6, <1>7


\* So does an import: its rows stay clear of the registry and of each other.
LEMMA ImportSafe ==
    ASSUME IInv, NEW t \in Threads,
           \/ (\E b \in Backups, s \in Upstreams \cup {None} : Import(t, b, s))
           \/ ImportLoad(t) \/ ImportEntry(t) \/ ImportSaveRegistry(t)
           \/ ImportRefreshSudoers(t) \/ ImportStart(t)
    PROVE  SafeNext
  <1>0. th \in [Threads -> Job] /\ th[t] \in Job /\ TypeOK
        /\ JobOK(th[t], registry) /\ PendingOK(th[t], registry, conf)
    BY DEF IInv, TypeOK, JobInv, PendingInv
  <1>1. ASSUME NEW b \in Backups, NEW s \in Upstreams \cup {None}, Import(t, b, s) PROVE SafeNext
    <2> DEFINE pc == IF s = None THEN "up_config" ELSE "up_service"
               j == [Idle EXCEPT !.op = "import", !.backup = b, !.up = s, !.pc = pc]
    <2>1. j.pc = pc /\ pc \in {"up_config", "up_service"} /\ j.up = s /\ j.todo = {} /\ j.new = {}
          /\ (pc = "up_service" => s \in Upstreams)
      BY DEF Idle
    <2>2. JobOK(j, registry)
      BY <2>1 DEF JobOK
    <2>3. th' = [th EXCEPT ![t] = j] /\ mu = Free /\ mu' = t /\ UNCHANGED <<registry, conf>>
      BY <1>1 DEF Import
    <2> HIDE DEF j, pc
    <2> QED BY <2>1, <2>2, <2>3, QuietStep
  <1>2. CASE ImportLoad(t)
    <2>1. th[t].pc # "idle" /\ mu = t /\ UNCHANGED <<registry, conf>>
      BY <1>2 DEF ImportLoad, IInv, LockInv
    <2>2. CASE Return(t)
      BY <2>1, <2>2, QuietReturn
    <2>3. CASE th' = [th EXCEPT ![t].pc = "im_entry", ![t].list = registry] /\ UNCHANGED mu
      <3> DEFINE j == [th[t] EXCEPT !.pc = "im_entry", !.list = registry]
      <3>1. j.pc = "im_entry" /\ j.list = registry /\ j.new = {}
        BY <1>0, <1>2 DEF ImportLoad, Job, JobOK
      <3>2. JobOK(j, registry') /\ PendingOK(j, registry', conf')
        BY <2>1, <3>1 DEF JobOK, PendingOK
      <3>3. th' = [th EXCEPT ![t] = j] /\ mu' = t
        BY <1>0, <2>1, <2>3
      <3> HIDE DEF j
      <3> QED BY <1>0, <2>1, <3>2, <3>3, AloneStep, FilesKept DEF IInv, SafeNext
    <2> QED BY <1>2, <2>2, <2>3 DEF ImportLoad
  <1>3. CASE ImportEntry(t)
    <2>0. /\ th[t].pc = "im_entry" /\ th[t].list = registry /\ mu = t /\ registry' = registry
          /\ UNCHANGED mu /\ th[t].backup \subseteq BackupTunnel /\ th[t].new \subseteq Tunnel
      BY <1>0, <1>3 DEF ImportEntry, PendingOK, IInv, LockInv, Job
    <2>1. PICK e \in th[t].backup :
            \/ /\ Importable(e, th[t].list \cup th[t].new)
               /\ \/ WriteConfig(e) /\ th' = [th EXCEPT ![t].backup = @ \ {e}, ![t].new = @ \cup {e}]
                  \/ WriteConfigFails(e) /\ th' = [th EXCEPT ![t].backup = @ \ {e}]
            \/ /\ ~Importable(e, th[t].list \cup th[t].new)
               /\ th' = [th EXCEPT ![t].backup = @ \ {e}]
               /\ UNCHANGED conf
      BY <1>3 DEF ImportEntry
    <2> DEFINE skip == [th[t] EXCEPT !.backup = @ \ {e}]
               take == [th[t] EXCEPT !.backup = @ \ {e}, !.new = @ \cup {e}]
    <2>2. /\ skip.pc = "im_entry" /\ skip.list = registry /\ skip.new = th[t].new
          /\ take.pc = "im_entry" /\ take.list = registry /\ take.new = th[t].new \cup {e}
      BY <1>0, <2>0 DEF Job
    <2>3. CASE UNCHANGED conf /\ th' = [th EXCEPT ![t].backup = @ \ {e}]
      <3>1. JobOK(skip, registry') /\ PendingOK(skip, registry', conf')
        BY <1>0, <2>0, <2>2, <2>3 DEF JobOK, PendingOK
      <3>2. th' = [th EXCEPT ![t] = skip] /\ mu' = t /\ th[t].pc # "idle"
        BY <1>0, <2>0, <2>3
      <3> HIDE DEF skip
      <3> QED BY <1>0, <2>0, <2>3, <3>1, <3>2, AloneStep, FilesKept DEF IInv, SafeNext
    <2>4. CASE Importable(e, th[t].list \cup th[t].new) /\ (WriteConfig(e) \/ WriteConfigFails(e))
      <3>1. /\ e \in Tunnel /\ e.name \in Names
            /\ \A x \in registry \cup th[t].new : x.name # e.name /\ x.port # e.port /\ x.name \in Names
        BY <1>0, <2>0, <2>4 DEF Importable, BackupTunnel, Tunnel, TypeOK
      <3>2. \A m \in Names \ {e.name} : conf'[m] = conf[m]
        BY <1>0, <2>4, <3>1 DEF WriteConfig, WriteConfigFails, TypeOK
      <3>3. UniqueEntries' /\ ConfPortAgrees'
        BY <2>0, <3>1, <3>2 DEF IInv, UniqueEntries, ConfPortAgrees
      <3>4. PendingOK(skip, registry', conf')
        BY <1>0, <2>0, <2>2, <3>1, <3>2 DEF PendingOK
      <3>5. ASSUME WriteConfig(e) PROVE PendingOK(take, registry', conf')
        <4>1. conf'[e.name].port = e.port
          BY <1>0, <3>1, <3>5, ConfigOfType DEF WriteConfig, TypeOK
        <4> QED BY <1>0, <2>0, <2>2, <3>1, <3>2, <4>1 DEF PendingOK
      <3>6. JobOK(skip, registry') /\ JobOK(take, registry')
        BY <2>2 DEF JobOK
      <3>7. /\ mu' = t /\ th[t].pc # "idle"
            /\ \/ th' = [th EXCEPT ![t] = skip]
               \/ th' = [th EXCEPT ![t] = take] /\ WriteConfig(e)
        BY <1>0, <2>0, <2>1, <2>4
      <3> HIDE DEF skip, take
      <3>8. JobInv' /\ LockInv' /\ PendingInv'
        BY <1>0, <3>4, <3>5, <3>6, <3>7, AloneStep DEF IInv
      <3> QED BY <3>3, <3>8 DEF SafeNext
    <2> QED BY <2>1, <2>3, <2>4
  <1>4. CASE ImportSaveRegistry(t)
    <2>1. /\ mu = t /\ th[t].pc = "im_entry" /\ th[t].list = registry /\ UNCHANGED conf
          /\ th[t].new \subseteq Tunnel
      BY <1>0, <1>4 DEF ImportSaveRegistry, PendingOK, Job, IInv, LockInv
    <2>2. CASE UNCHANGED registry /\ Return(t)
      BY <2>1, <2>2, QuietReturn
    <2>3. CASE registry' = th[t].list \cup th[t].new
      <3>1. UniqueEntries'
        BY <1>0, <2>1, <2>3 DEF IInv, UniqueEntries, PendingOK
      <3>2. ConfPortAgrees'
        BY <1>0, <2>1, <2>3 DEF IInv, ConfPortAgrees, PendingOK
      <3>3. CASE Return(t)
        BY <1>0, <2>1, <3>1, <3>2, <3>3, ReturnStep DEF IInv, SafeNext
      <3>4. CASE th' = [th EXCEPT ![t].pc = "im_refresh"] /\ UNCHANGED mu
        <4> DEFINE j == [th[t] EXCEPT !.pc = "im_refresh"]
        <4>1. j.pc = "im_refresh"
          BY <1>0 DEF Job
        <4>2. JobOK(j, registry') /\ PendingOK(j, registry', conf')
          BY <4>1 DEF JobOK, PendingOK
        <4>3. th' = [th EXCEPT ![t] = j] /\ mu' = t
          BY <1>0, <2>1, <3>4
        <4> HIDE DEF j
        <4> QED BY <1>0, <2>1, <3>1, <3>2, <4>2, <4>3, AloneStep DEF IInv, SafeNext
      <3> QED BY <1>4, <3>3, <3>4, <2>2 DEF ImportSaveRegistry
    <2> QED BY <1>4, <2>2, <2>3 DEF ImportSaveRegistry
  <1>5. CASE ImportRefreshSudoers(t)
    <2> DEFINE j == [th[t] EXCEPT !.pc = "im_start", !.todo = th[t].new]
    <2>1. j.pc = "im_start"
      BY <1>0 DEF Job
    <2>2. JobOK(j, registry)
      BY <2>1 DEF JobOK
    <2>3. th' = [th EXCEPT ![t] = j] /\ mu' = t /\ th[t].pc # "idle" /\ UNCHANGED <<registry, conf>>
      BY <1>0, <1>5 DEF ImportRefreshSudoers, IInv, LockInv
    <2> HIDE DEF j
    <2> QED BY <2>1, <2>2, <2>3, QuietStep
  <1>6. CASE ImportStart(t)
    <2>1. PICK e \in th[t].todo :
            IF th[t].todo = {e}
            THEN Return(t)
            ELSE th' = [th EXCEPT ![t].todo = @ \ {e}] /\ UNCHANGED mu
      BY <1>6 DEF ImportStart
    <2> DEFINE j == [th[t] EXCEPT !.todo = @ \ {e}]
    <2>2. j.pc = "im_start" /\ th[t].pc = "im_start" /\ mu = t /\ UNCHANGED <<registry, conf>>
      BY <1>0, <1>6 DEF ImportStart, Job, IInv, LockInv
    <2>3. JobOK(j, registry)
      BY <2>2 DEF JobOK
    <2>4. Return(t) \/ (th' = [th EXCEPT ![t] = j] /\ mu' = t)
      BY <1>0, <2>1, <2>2
    <2> HIDE DEF j
    <2> QED BY <2>2, <2>3, <2>4, QuietStep, QuietReturn
  <1> QED BY <1>1, <1>2, <1>3, <1>4, <1>5, <1>6

\* So does a step of a wave.
LEMMA WaveSafe ==
    ASSUME IInv, NEW t \in Threads,
           (\E n \in Names : WaveCheck(t, n)) \/ WaveRestart(t)
    PROVE  SafeNext
  <1>1. ASSUME NEW n \in Names, WaveCheck(t, n) PROVE SafeNext
    <2> DEFINE j == [Idle EXCEPT !.op = "wave", !.pc = "wave_restart", !.name = n]
    <2>1. j.pc = "wave_restart" /\ j.name = n
      BY DEF Idle
    <2>2. JobOK(j, registry)
      BY <2>1 DEF JobOK
    <2>3. th' = [th EXCEPT ![t] = j] /\ mu = Free /\ mu' = t /\ UNCHANGED <<registry, conf>>
      BY <1>1 DEF WaveCheck
    <2> HIDE DEF j
    <2> QED BY <2>1, <2>2, <2>3, QuietStep
  <1>2. CASE WaveRestart(t)
    BY <1>2, QuietReturn DEF WaveRestart
  <1> QED BY <1>1, <1>2


\* So does the script's reading, which moves the handler on.
LEMMA ReadsSafe ==
    ASSUME IInv, NEW t \in Threads, RefreshReads(t)
    PROVE  SafeNext
  <1> DEFINE j == [th[t] EXCEPT !.pc = Reading[th[t].pc], !.list = registry]
  <1>1. th \in [Threads -> Job] /\ th[t] \in Job /\ JobOK(th[t], registry)
    BY DEF IInv, TypeOK, JobInv
  <1>2. th[t].pc \in {"add_refresh", "rm_refresh", "im_refresh"}
    BY DEF RefreshReads, Reading
  <1>3. j.pc \in {"add_install", "rm_install", "im_install"} /\ j.name = th[t].name
    BY <1>1, <1>2 DEF Job, Reading
  <1>4. JobOK(j, registry)
    BY <1>3 DEF JobOK
  <1>5. th' = [th EXCEPT ![t] = j] /\ mu' = t /\ th[t].pc # "idle" /\ UNCHANGED <<registry, conf>>
    BY <1>1, <1>2 DEF RefreshReads, IInv, LockInv
  <1> HIDE DEF j
  <1> QED BY <1>3, <1>4, <1>5, QuietStep

\* So does all that takes no lock; a crash forgets every pending row.
LEMMA UnlockedSafe ==
    ASSUME IInv, Unlocked
    PROVE  SafeNext
  <1>1. CASE UNCHANGED <<registry, conf, mu, th>>
    BY <1>1, FilesKept DEF IInv, SafeNext, JobInv, LockInv, PendingInv
  <1>2. CASE PanelStops /\ UNCHANGED registry
    <2>1. JobInv' /\ LockInv' /\ PendingInv'
      BY <1>2, IdleOK DEF PanelStops, JobInv, LockInv, PendingInv
    <2>2. UniqueEntries'
      BY <1>2 DEF IInv, UniqueEntries
    <2>3. \A m \in Names : conf'[m] = conf[m] \/ conf'[m] = Torn
      BY <1>2 DEF PanelStops, IInv, TypeOK
    <2>4. ConfPortAgrees'
      BY <1>2, <2>3, ConfigAssumption DEF IInv, ConfPortAgrees, TypeOK, Tunnel
    <2> QED BY <2>1, <2>2, <2>4 DEF SafeNext
  <1>3. UNCHANGED <<registry, conf, mu, th>> \/ (PanelStops /\ UNCHANGED registry)
    BY DEF Unlocked, RestartButton, StopButton, Psictl, UnitExits, UnitRelaunched,
           UpdateReads, UpdateInstalls, PanelCrash, Reboot
  <1> QED BY <1>1, <1>2, <1>3

\* The invariant is inductive.
LEMMA InvStep == IInv /\ [Next]_vars => IInv'
  <1> SUFFICES ASSUME IInv, [Next]_vars PROVE IInv'
    OBVIOUS
  <1>1. TypeOK'
    BY TypeStep DEF IInv
  <1>2. SafeNext
    <2>1. CASE UNCHANGED vars
      BY <2>1, FilesKept DEF vars, IInv, SafeNext, JobInv, LockInv, PendingInv
    <2>2. CASE Unlocked
      BY <2>2, UnlockedSafe
    <2>3. ASSUME NEW t \in Threads, Begin(t) PROVE SafeNext
      BY <2>3, AddSafe, RemoveSafe, ApplySafe, ImportSafe, WaveSafe DEF Begin
    <2>4. ASSUME NEW t \in Threads, Proceed(t) PROVE SafeNext
      BY <2>4, ReadsSafe, AddSafe, RemoveSafe, ApplySafe, ImportSafe, WaveSafe DEF Proceed
    <2> QED BY <2>1, <2>2, <2>3, <2>4 DEF Next
  <1> QED BY <1>1, <1>2 DEF IInv, SafeNext

\* An empty server satisfies it.
LEMMA InvInit == Init => IInv
  <1> SUFFICES ASSUME Init PROVE IInv
    OBVIOUS
  <1>1. TypeOK
    BY IdleType DEF Init, TypeOK, Down, UnitState, Script, NoScript
  <1>2. JobInv /\ LockInv /\ PendingInv
    BY IdleOK DEF Init, JobInv, LockInv, PendingInv
  <1> QED BY <1>1, <1>2 DEF Init, IInv, UniqueEntries, ConfPortAgrees

\* The inductive invariant: types, who is inside a handler, what that handler may
\* still rely on, and the two facts about registry and config files.
THEOREM Invariance == Spec => []IInv
  BY InvInit, InvStep, PTL DEF Spec

\* Every variable keeps its shape, and no port outside the range is registered.
THEOREM TypeCorrect == Spec => []TypeOK
  <1>1. IInv => TypeOK
    BY DEF IInv
  <1> QED BY <1>1, Invariance, PTL

\* No two locations ever share a name or a SOCKS port.
THEOREM UniqueCorrect == Spec => []UniqueEntries
  <1>1. IInv => UniqueEntries
    BY DEF IInv
  <1> QED BY <1>1, Invariance, PTL

\* A readable config file always names the port that the registry has.
THEOREM ConfPortCorrect == Spec => []ConfPortAgrees
  <1>1. IInv => ConfPortAgrees
    BY DEF IInv
  <1> QED BY <1>1, Invariance, PTL


-----------------------------------------------------------------------------
\* Action properties.

\* Only three steps write the registry, and the two that save a list save one
\* that still contains all of it.
LEMMA RegistryMoves ==
    ASSUME IInv, Next
    PROVE  \/ registry \subseteq registry'
           \/ \E t \in Threads : /\ RemoveFromRegistry(t)
                                  /\ registry' = {e \in registry : e.name # th[t].name}
  <1>1. CASE Unlocked
    BY <1>1 DEF Unlocked, RestartButton, StopButton, Psictl, UnitExits, UnitRelaunched,
                UpdateReads, UpdateInstalls, PanelCrash, Reboot
  <1>2. ASSUME NEW t \in Threads, Begin(t) PROVE registry' = registry
    BY <1>2 DEF Begin, Add, AddBegin, Remove, WaveCheck, Upstream, Import
  <1>3. ASSUME NEW t \in Threads, Proceed(t)
        PROVE  \/ registry \subseteq registry'
               \/ RemoveFromRegistry(t) /\ registry' = {e \in registry : e.name # th[t].name}
    <2>1. PendingOK(th[t], registry, conf)
      BY DEF IInv, PendingInv
    <2>2. CASE AddSaveRegistry(t) \/ ImportSaveRegistry(t)
      BY <2>1, <2>2 DEF AddSaveRegistry, ImportSaveRegistry, PendingOK
    <2>3. CASE RemoveFromRegistry(t)
      BY <2>3 DEF RemoveFromRegistry
    <2>4. CASE registry' = registry
      BY <2>4
    <2> QED BY <1>3, <2>2, <2>3, <2>4
            DEF Proceed, RefreshReads, AddWriteConfig, AddRefreshSudoers, AddStart, RemoveStop,
                RemoveFiles, RemoveRefresh, ApplyService, ApplySave, ApplyConfig, ApplyCheck, ApplyRestart,
                UpstreamEnd, ImportLoad, ImportEntry, ImportRefreshSudoers, ImportStart, WaveRestart
  <1> QED BY <1>1, <1>2, <1>3 DEF Next

\* Each of them is a step of the abstract registry: what joins it clashes with
\* nothing, since the registry is unique afterwards.
LEMMA RegistryStep == IInv /\ [Next]_vars => [Reg!Next]_registry
  <1> SUFFICES ASSUME IInv, Next, registry' # registry PROVE Reg!Next
    BY DEF vars
  <1>1. registry' \in Reg!Registries
    <2>1. IInv'
      BY InvStep
    <2> QED BY <2>1 DEF IInv, TypeOK, UniqueEntries, Reg!Registries, Reg!Row, Tunnel
  <1>2. CASE registry \subseteq registry'
    BY <1>1, <1>2 DEF Reg!Import, Reg!Next
  <1>3. ASSUME NEW t \in Threads, RemoveFromRegistry(t),
               registry' = {e \in registry : e.name # th[t].name}
        PROVE  Reg!Next
    <2>1. th[t].name \in Names
      BY <1>3 DEF RemoveFromRegistry, IInv, JobInv, JobOK
    <2>2. Reg!Remove(th[t].name)
      BY <1>3 DEF Reg!Remove
    <2> QED BY <2>1, <2>2 DEF Reg!Next
  <1> QED BY <1>2, <1>3, RegistryMoves

\* Locations implements Registry: through five handlers, their partial failures
\* and every crash, tunnels.json only ever changes in one of its two ways.
THEOREM KeepsRegistryCorrect == Spec => KeepsRegistry
  <1>1. Init => Reg!Init
    BY DEF Init, Reg!Init, Reg!Registries
  <1>2. IInv /\ [Next]_vars => [Reg!Next]_registry
    BY RegistryStep
  <1> QED BY <1>1, <1>2, Invariance, PTL DEF Spec, KeepsRegistry, Reg!Spec

\* Whoever's row leaves the registry is being removed.
LEMMA LostStep ==
    ASSUME IInv, Next
    PROVE  \A e \in registry \ registry' :
              \E t \in Threads : th[t].pc = "rm_save" /\ th[t].name = e.name
    BY RegistryMoves DEF RemoveFromRegistry

\* A registered location leaves the registry only by its own removal.
THEOREM NoLostCorrect == Spec => NoLostLocation
  <1>1. IInv /\ [Next]_vars =>
          [\A e \in registry \ registry' :
              \E t \in Threads : th[t].pc = "rm_save" /\ th[t].name = e.name]_vars
    BY LostStep
  <1> QED BY <1>1, Invariance, PTL DEF Spec, NoLostLocation

\* Only a thread inside a handler proceeds.
LEMMA ProceedBusy ==
    ASSUME NEW t \in Threads, Proceed(t)
    PROVE  th[t].pc # "idle"
  <1>1. CASE AddWriteConfig(t) \/ AddSaveRegistry(t) \/ AddRefreshSudoers(t) \/ AddStart(t)
    BY <1>1 DEF AddWriteConfig, AddSaveRegistry, AddRefreshSudoers, AddStart
  <1>2. CASE RemoveStop(t) \/ RemoveFiles(t) \/ RemoveFromRegistry(t) \/ RemoveRefresh(t)
    BY <1>2 DEF RemoveStop, RemoveFiles, RemoveFromRegistry, RemoveRefresh
  <1>3. CASE \/ ApplyService(t) \/ ApplySave(t) \/ ApplyConfig(t) \/ ApplyCheck(t)
             \/ ApplyRestart(t) \/ UpstreamEnd(t)
    BY <1>3 DEF ApplyService, ApplySave, ApplyConfig, ApplyCheck, ApplyRestart, UpstreamEnd
  <1>4. CASE \/ ImportLoad(t) \/ ImportEntry(t) \/ ImportSaveRegistry(t)
             \/ ImportRefreshSudoers(t) \/ ImportStart(t) \/ WaveRestart(t)
    BY <1>4 DEF ImportLoad, ImportEntry, ImportSaveRegistry, ImportRefreshSudoers, ImportStart,
                WaveRestart
  <1>5. CASE RefreshReads(t)
    BY <1>5 DEF RefreshReads, Reading
  <1> QED BY <1>1, <1>2, <1>3, <1>4, <1>5 DEF Proceed

\* What an add or an import writes, or leaves torn, is never a registered
\* location's file.
LEMMA UntouchedStep ==
    ASSUME IInv, Next
    PROVE  \A t \in Threads :
              th[t].pc \in {"add_config", "im_entry"} /\ th'[t] # th[t] =>
                 \A e \in registry : conf'[e.name] = conf[e.name]
  <1> SUFFICES ASSUME NEW t \in Threads, th[t].pc \in {"add_config", "im_entry"},
                      th'[t] # th[t], NEW e \in registry
               PROVE  conf'[e.name] = conf[e.name]
    OBVIOUS
  <1>1. /\ mu = t /\ PendingOK(th[t], registry, conf) /\ th[t] \in Job /\ TypeOK
        /\ e.name \in Names
      BY DEF IInv, LockInv, PendingInv, TypeOK, Tunnel
  <1>2. \A u \in Threads \ {t} : th[u].pc = "idle"
    BY <1>1 DEF IInv, LockInv
  <1>3. \A u \in Threads : ~Begin(u)
    BY <1>1, SentinelAssumption DEF Begin, Add, AddBegin, Remove, WaveCheck, Upstream, Import
  <1>4. \A u \in Threads : Proceed(u) => u = t
    BY <1>2, ProceedBusy
  <1>5. CASE Proceed(t)
    <2>1. AddWriteConfig(t) \/ ImportEntry(t) \/ ImportSaveRegistry(t)
      BY <1>5, <1>1 DEF Proceed, RefreshReads, Reading, AddWriteConfig, AddSaveRegistry,
                  AddRefreshSudoers, AddStart, RemoveStop,
                  RemoveFiles, RemoveFromRegistry, RemoveRefresh, ApplyService, ApplySave,
                  ApplyConfig, ApplyCheck, ApplyRestart, UpstreamEnd, ImportLoad, ImportEntry,
                  ImportSaveRegistry, ImportRefreshSudoers, ImportStart, WaveRestart
    <2>2. CASE AddWriteConfig(t)
      BY <1>1, <2>2 DEF AddWriteConfig, WriteConfig, WriteConfigFails, PendingOK, TypeOK
    <2>3. CASE ImportEntry(t)
      <3>1. PICK x \in th[t].backup :
               \/ Importable(x, registry \cup th[t].new) /\ (WriteConfig(x) \/ WriteConfigFails(x))
               \/ UNCHANGED conf
        BY <1>1, <2>3 DEF ImportEntry, PendingOK
      <3> QED BY <1>1, <3>1 DEF Importable, WriteConfig, WriteConfigFails, TypeOK
    <2>4. CASE ImportSaveRegistry(t)
      BY <2>4 DEF ImportSaveRegistry
    <2> QED BY <2>1, <2>2, <2>3, <2>4
  <1>6. CASE Unlocked
    <2>1. CASE UNCHANGED conf
      BY <2>1
    <2>2. ASSUME NEW u \in Threads, NEW n \in InWrite(u), conf' = [conf EXCEPT ![n] = Torn]
          PROVE  conf'[e.name] = conf[e.name]
      <3>1. u = t
        BY <1>2, <2>2 DEF InWrite
      <3>2. n # e.name
        <4>1. CASE th[t].pc = "add_config"
          BY <1>1, <2>2, <3>1, <4>1 DEF InWrite, NamesOf, PendingOK
        <4>2. CASE th[t].pc = "im_entry"
          <5>1. PICK x \in th[t].backup : n = x.name /\ Importable(x, registry \cup th[t].new)
            BY <1>1, <2>2, <3>1, <4>2 DEF InWrite, NamesOf, PendingOK
          <5> QED BY <5>1 DEF Importable
        <4> QED BY <4>1, <4>2
      <3> QED BY <1>1, <2>2, <3>2 DEF TypeOK
    <2>3. UNCHANGED conf \/ \E u \in Threads : \E n \in InWrite(u) : conf' = [conf EXCEPT ![n] = Torn]
      BY <1>6 DEF Unlocked, RestartButton, StopButton, Psictl, UnitExits, UnitRelaunched,
                  UpdateReads, UpdateInstalls, PanelCrash, Reboot, PanelStops
    <2> QED BY <2>1, <2>2, <2>3
  <1> QED BY <1>3, <1>4, <1>5, <1>6 DEF Next

\* Adding and importing leave the files of registered locations alone.
THEOREM UntouchedCorrect == Spec => ExistingUntouched
  <1>1. IInv /\ [Next]_vars =>
          [\A t \in Threads :
              th[t].pc \in {"add_config", "im_entry"} /\ th'[t] # th[t] =>
                 \A e \in registry : conf'[e.name] = conf[e.name]]_vars
    BY UntouchedStep
  <1> QED BY <1>1, Invariance, PTL DEF Spec, ExistingUntouched

-----------------------------------------------------------------------------
\* Where the steps of a handler lead.

\* A thread that takes or holds a.mu moves alone.
LEMMA MovesAlone ==
    ASSUME IInv, NEW t \in Threads, Begin(t) \/ Proceed(t)
    PROVE  \A u \in Threads \ {t} : th[u].pc = "idle" /\ th'[u] = th[u]
  <1>0. th \in [Threads -> Job]
    BY DEF IInv, TypeOK
  <1>1. CASE Begin(t)
    <2>1. mu = Free
      BY <1>1 DEF Begin, Add, AddBegin, Remove, WaveCheck, Upstream, Import
    <2>2. \A u \in Threads : th[u].pc = "idle"
      BY <2>1, SentinelAssumption DEF IInv, LockInv
    <2>3. \E j : th' = [th EXCEPT ![t] = j]
      BY <1>1 DEF Begin, Add, AddBegin, Remove, WaveCheck, Upstream, Import
    <2> QED BY <1>0, <2>2, <2>3
  <1>2. CASE Proceed(t)
    <2>1. \A u \in Threads \ {t} : th[u].pc = "idle"
      BY <1>2, ProceedBusy DEF IInv, LockInv
    <2>2. \A u \in Threads \ {t} : th'[u] = th[u]
      <3>1. CASE AddWriteConfig(t) \/ AddSaveRegistry(t) \/ AddRefreshSudoers(t) \/ AddStart(t)
        BY <1>0, <3>1 DEF AddWriteConfig, AddSaveRegistry, AddRefreshSudoers, AddStart
      <3>2. CASE RemoveStop(t) \/ RemoveFiles(t) \/ RemoveFromRegistry(t) \/ RemoveRefresh(t)
        BY <1>0, <3>2 DEF RemoveStop, RemoveFiles, RemoveFromRegistry, RemoveRefresh
      <3>3. CASE \/ ApplyService(t) \/ ApplySave(t) \/ ApplyConfig(t) \/ ApplyCheck(t)
                 \/ ApplyRestart(t) \/ UpstreamEnd(t)
        BY <1>0, <3>3 DEF ApplyService, ApplySave, ApplyConfig, ApplyCheck, ApplyRestart, UpstreamEnd
      <3>4. CASE \/ ImportLoad(t) \/ ImportEntry(t) \/ ImportSaveRegistry(t)
                 \/ ImportRefreshSudoers(t) \/ ImportStart(t) \/ WaveRestart(t)
        BY <1>0, <3>4 DEF ImportLoad, ImportEntry, ImportSaveRegistry, ImportRefreshSudoers,
                          ImportStart, WaveRestart
      <3>5. CASE RefreshReads(t)
        BY <1>0, <3>5 DEF RefreshReads
      <3> QED BY <1>2, <3>1, <3>2, <3>3, <3>4, <3>5 DEF Proceed
    <2> QED BY <2>1, <2>2
  <1> QED BY <1>1, <1>2

\* Where a handler's first step leaves its thread.
LEMMA BeginLands ==
    ASSUME IInv, NEW t \in Threads, Begin(t)
    PROVE  /\ th[t].pc = "idle" /\ mu = Free
           /\ UNCHANGED <<registry, conf, creds, unit, rules, behind, strays>>
           /\ th'[t].pc \in {"add_config", "rm_stop", "wave_restart", "up_service", "up_config"}
           /\ th'[t].pc = "rm_stop" => th'[t].op = "remove"
           /\ th'[t].pc = "wave_restart" => th'[t].name \in NamesOf(registry)
           /\ th'[t].pc = "up_config" => th'[t].up = None
  <1>0. th \in [Threads -> Job]
    BY DEF IInv, TypeOK
  <1>1. ASSUME NEW n \in Names, Add(t, n)
        PROVE  /\ th[t].pc = "idle" /\ mu = Free
               /\ UNCHANGED <<registry, conf, creds, unit, rules, behind, strays>>
               /\ th'[t].pc = "add_config"
    BY <1>0, <1>1 DEF Add, AddBegin, Idle
  <1>2. ASSUME NEW n \in Names, Remove(t, n)
        PROVE  /\ th[t].pc = "idle" /\ mu = Free
               /\ UNCHANGED <<registry, conf, creds, unit, rules, behind, strays>>
               /\ th'[t].pc = "rm_stop" /\ th'[t].op = "remove"
    BY <1>0, <1>2 DEF Remove, Idle
  <1>3. ASSUME NEW n \in Names, WaveCheck(t, n)
        PROVE  /\ th[t].pc = "idle" /\ mu = Free
               /\ UNCHANGED <<registry, conf, creds, unit, rules, behind, strays>>
               /\ th'[t].pc = "wave_restart" /\ th'[t].name \in NamesOf(registry)
    BY <1>0, <1>3 DEF WaveCheck, Idle
  <1>4. ASSUME NEW s \in Upstreams, Upstream(t, s)
        PROVE  /\ th[t].pc = "idle" /\ mu = Free
               /\ UNCHANGED <<registry, conf, creds, unit, rules, behind, strays>>
               /\ th'[t].pc = "up_service"
    BY <1>0, <1>4 DEF Upstream, Idle
  <1>5. ASSUME NEW b \in Backups, NEW s \in Upstreams \cup {None}, Import(t, b, s)
        PROVE  /\ th[t].pc = "idle" /\ mu = Free
               /\ UNCHANGED <<registry, conf, creds, unit, rules, behind, strays>>
               /\ th'[t].pc \in {"up_service", "up_config"}
               /\ th'[t].pc = "up_config" => th'[t].up = None
    BY <1>0, <1>5 DEF Import, Idle
  <1> QED BY <1>1, <1>2, <1>3, <1>4, <1>5 DEF Begin

\* A handler that returns is idle.
LEMMA ReturnLands ==
    ASSUME IInv, NEW t \in Threads, Return(t)
    PROVE  th'[t].pc = "idle"
    BY DEF IInv, TypeOK, Idle

\* Where the steps lead that are neither a save of the registry, nor a refresh,
\* nor the end of a handler.
LEMMA Lands ==
    ASSUME IInv, NEW t \in Threads,
           \/ AddWriteConfig(t) \/ RemoveStop(t) \/ RemoveFiles(t) \/ RemoveFromRegistry(t)
           \/ ApplyService(t) \/ ApplySave(t) \/ ApplyConfig(t) \/ ApplyCheck(t)
           \/ ApplyRestart(t) \/ ImportLoad(t) \/ ImportEntry(t)
    PROVE  th'[t].pc \in {"idle", "add_save", "rm_config", "rm_save", "rm_refresh", "up_save",
                          "up_config", "up_check", "up_restart", "im_entry"}
  <1>0. th \in [Threads -> Job] /\ th[t] \in Job
    BY DEF IInv, TypeOK
  <1>1. CASE Return(t)
    BY <1>1, ReturnLands
  <1>2. CASE RemoveStop(t) \/ RemoveFiles(t) \/ RemoveFromRegistry(t)
    BY <1>0, <1>2 DEF RemoveStop, RemoveFiles, RemoveFromRegistry, Job
  <1>3. CASE (AddWriteConfig(t) \/ ApplyService(t) \/ ApplySave(t)) /\ ~Return(t)
    BY <1>0, <1>3 DEF AddWriteConfig, ApplyService, ApplySave, Job
  <1>4. CASE ApplyConfig(t) /\ ~Return(t)
    <2>1. PICK e \in th[t].todo :
             th' = [th EXCEPT ![t].pc = "up_check", ![t].name = e.name, ![t].todo = @ \ {e}]
      BY <1>4 DEF ApplyConfig
    <2> QED BY <1>0, <2>1 DEF Job
  <1>5. CASE (ApplyRestart(t) \/ ImportLoad(t)) /\ ~Return(t)
    BY <1>0, <1>5 DEF ApplyRestart, ImportLoad, Job
  <1>7. CASE ApplyCheck(t)
    BY <1>0, <1>7 DEF ApplyCheck, Job
  <1>6. CASE ImportEntry(t)
    BY <1>0, <1>6 DEF ImportEntry, Job
  <1> QED BY <1>1, <1>2, <1>3, <1>4, <1>5, <1>6, <1>7

-----------------------------------------------------------------------------
\* What a handler is about to start is ready.

\* A job at a point where it adds nothing and has read nothing to install.
LEMMA NothingNew ==
    ASSUME NEW j, NEW rows, NEW files, NEW up,
           j.pc \notin {"add_save", "add_refresh", "add_install", "add_start", "rm_install",
                        "im_entry", "im_refresh", "im_install", "im_start"}
    PROVE  WrittenOK(j, files, up) /\ StartOK(j, rows)
    BY DEF WrittenOK, StartOK

\* A handler's new rows have their files until they are started, and are registered
\* from its save on: nothing else writes either meanwhile.
LEMMA StartStep == IInv /\ StartInv /\ [Next]_vars => StartInv'
  <1> SUFFICES ASSUME IInv, StartInv, [Next]_vars PROVE StartInv'
    OBVIOUS
  <1>0. /\ th \in [Threads -> Job] /\ TypeOK
        /\ conf \in [Names -> Config \cup {NoConf, Torn}] /\ creds \in Upstreams
    BY DEF IInv, TypeOK
  <1>1. CASE UNCHANGED <<registry, conf, creds, th>>
    BY <1>1 DEF StartInv, StartOK, WrittenOK
  <1>2. CASE PanelStops
    <2>1. \A t \in Threads : th'[t].pc = "idle"
      BY <1>2 DEF PanelStops, Idle
    <2> QED BY <2>1, NothingNew DEF StartInv
  <1>3. CASE Unlocked
    BY <1>1, <1>2, <1>3 DEF Unlocked, RestartButton, StopButton, Psictl, UnitExits,
                UnitRelaunched, UpdateReads, UpdateInstalls, PanelCrash, Reboot
  <1>4. ASSUME NEW t \in Threads, Begin(t) \/ Proceed(t) PROVE StartInv'
    <2>0. th[t] \in Job /\ JobOK(th[t], registry) /\ PendingOK(th[t], registry, conf)
          /\ WrittenOK(th[t], conf, creds) /\ StartOK(th[t], registry)
      BY <1>0 DEF IInv, JobInv, PendingInv, StartInv
    <2>1. \A u \in Threads \ {t} : th'[u].pc = "idle"
      BY <1>4, MovesAlone
    <2>2. SUFFICES WrittenOK(th'[t], conf', creds') /\ StartOK(th'[t], registry')
      BY <2>1, NothingNew DEF StartInv
    <2>3. CASE th'[t].pc \in {"idle", "add_config", "rm_stop", "rm_config", "rm_save", "rm_refresh",
                              "up_service", "up_save", "up_config", "up_check", "up_restart",
                              "wave_restart"}
      BY <2>3, NothingNew
    <2>4. CASE Return(t)
      BY <2>3, <2>4, ReturnLands
    <2>5. CASE Begin(t)
      BY <2>3, <2>5, BeginLands
    <2>6. CASE \/ RemoveStop(t) \/ RemoveFiles(t) \/ RemoveFromRegistry(t)
               \/ ApplyService(t) \/ ApplySave(t) \/ ApplyConfig(t) \/ ApplyCheck(t) \/ ApplyRestart(t)
      <3>1. th'[t].pc \notin {"add_save", "im_entry"}
        <4>1. CASE RemoveStop(t) \/ RemoveFiles(t) \/ RemoveFromRegistry(t)
          BY <1>0, <2>0, <4>1 DEF RemoveStop, RemoveFiles, RemoveFromRegistry, Job
        <4>5. CASE ApplyCheck(t)
          BY <1>0, <2>0, <4>5 DEF ApplyCheck, Job
        <4>2. CASE (ApplyService(t) \/ ApplySave(t) \/ ApplyRestart(t)) /\ ~Return(t)
          BY <1>0, <2>0, <4>2 DEF ApplyService, ApplySave, ApplyRestart, Job
        <4>3. CASE ApplyConfig(t) /\ ~Return(t)
          <5>1. PICK e \in th[t].todo :
                   th' = [th EXCEPT ![t].pc = "up_check", ![t].name = e.name, ![t].todo = @ \ {e}]
            BY <4>3 DEF ApplyConfig
          <5> QED BY <1>0, <2>0, <5>1 DEF Job
        <4>4. CASE Return(t)
          BY <4>4, ReturnLands
        <4> QED BY <2>6, <4>1, <4>2, <4>3, <4>4, <4>5
      <3> QED BY <2>3, <2>6, <3>1, Lands
    <2>7. CASE AddWriteConfig(t)
      <3>1. CASE Return(t)
        BY <2>4, <3>1
      <3>2. CASE ~Return(t)
        <4>1. PICK e \in th[t].new : WriteConfig(e) /\ th' = [th EXCEPT ![t].pc = "add_save"]
          BY <2>7, <3>2 DEF AddWriteConfig
        <4>2. /\ th[t].pc = "add_config" /\ UNCHANGED creds /\ e \in Tunnel /\ e.name \in Names
              /\ \A x \in th[t].new : x = e
          BY <2>0, <2>7 DEF AddWriteConfig, PendingOK, Job, Tunnel
        <4>3. conf'[e.name] = [port |-> e.port, up |-> creds']
          BY <1>0, <4>1, <4>2 DEF WriteConfig, ConfigOf
        <4>4. th'[t].pc = "add_save" /\ th'[t].new = th[t].new
          BY <1>0, <2>0, <4>1 DEF Job
        <4> QED BY <4>2, <4>3, <4>4 DEF WrittenOK, StartOK
      <3> QED BY <3>1, <3>2
    <2>8. CASE AddSaveRegistry(t) \/ ImportSaveRegistry(t)
      <3>1. CASE ~Return(t)
        <4>1. /\ registry' = th[t].list \cup th[t].new /\ UNCHANGED <<conf, creds>>
              /\ th'[t].pc \in {"add_refresh", "im_refresh"} /\ th'[t].new = th[t].new
              /\ th[t].pc \in {"add_save", "im_entry"}
          BY <1>0, <2>0, <2>8, <3>1 DEF AddSaveRegistry, ImportSaveRegistry, Job
        <4> QED BY <2>0, <4>1 DEF WrittenOK, StartOK
      <3> QED BY <2>4, <3>1
    <2>9. CASE RefreshReads(t)
      <3> DEFINE j == [th[t] EXCEPT !.pc = Reading[th[t].pc], !.list = registry]
      <3>1. th' = [th EXCEPT ![t] = j] /\ UNCHANGED <<registry, conf, creds>>
        BY <1>0, <2>9 DEF RefreshReads
      <3>2. th[t].pc \in {"add_refresh", "rm_refresh", "im_refresh"}
        BY <2>9 DEF RefreshReads, Reading
      <3>3. /\ j.list = registry /\ j.new = th[t].new
            /\ j.pc = "add_install" => th[t].pc = "add_refresh"
            /\ j.pc = "im_install" => th[t].pc = "im_refresh"
            /\ j.pc \in {"add_install", "rm_install", "im_install"}
        BY <2>0, <3>2 DEF Job, Reading
      <3>4. th'[t] = j
        BY <1>0, <3>1
      <3> HIDE DEF j
      <3> QED BY <2>0, <3>1, <3>3, <3>4 DEF WrittenOK, StartOK
    <2>10. CASE AddRefreshSudoers(t)
      <3>1. /\ th[t].pc = "add_install" /\ th'[t].pc = "add_start" /\ th'[t].new = th[t].new
            /\ UNCHANGED <<registry, conf, creds>>
        BY <1>0, <2>0, <2>10 DEF AddRefreshSudoers, Job
      <3> QED BY <2>0, <3>1 DEF WrittenOK, StartOK
    <2>11. CASE ImportRefreshSudoers(t)
      <3>1. /\ th[t].pc = "im_install" /\ th'[t].pc = "im_start" /\ th'[t].todo = th[t].new
            /\ UNCHANGED <<registry, conf, creds>>
        BY <1>0, <2>0, <2>11 DEF ImportRefreshSudoers, Job
      <3> QED BY <2>0, <3>1 DEF WrittenOK, StartOK
    <2>12. CASE ImportStart(t)
      <3>1. CASE ~Return(t)
        <4>1. /\ th[t].pc = "im_start" /\ th'[t].pc = "im_start" /\ th'[t].todo \subseteq th[t].todo
              /\ UNCHANGED <<registry, conf, creds>>
          BY <1>0, <2>0, <2>12, <3>1 DEF ImportStart, Job
        <4> QED BY <2>0, <4>1 DEF WrittenOK, StartOK
      <3> QED BY <2>4, <3>1
    <2>13. CASE ImportLoad(t)
      <3>1. CASE ~Return(t)
        <4>1. th'[t].pc = "im_entry" /\ th'[t].new = {}
          BY <1>0, <2>0, <2>13, <3>1 DEF ImportLoad, Job, JobOK
        <4> QED BY <4>1 DEF WrittenOK, StartOK
      <3> QED BY <2>4, <3>1
    <2>14. CASE ImportEntry(t)
      <3>1. PICK e \in th[t].backup :
              \/ /\ Importable(e, th[t].list \cup th[t].new)
                 /\ \/ WriteConfig(e) /\ th' = [th EXCEPT ![t].backup = @ \ {e}, ![t].new = @ \cup {e}]
                    \/ WriteConfigFails(e) /\ th' = [th EXCEPT ![t].backup = @ \ {e}]
              \/ /\ ~Importable(e, th[t].list \cup th[t].new)
                 /\ th' = [th EXCEPT ![t].backup = @ \ {e}]
                 /\ UNCHANGED conf
        BY <2>14 DEF ImportEntry
      <3>2. /\ th[t].pc = "im_entry" /\ th'[t].pc = "im_entry" /\ UNCHANGED creds
            /\ e.name \in Names /\ \A x \in th[t].new : x.name \in Names
        BY <1>0, <2>0, <2>14, <3>1 DEF ImportEntry, Job, Tunnel, BackupTunnel
      <3>3. \A x \in th[t].new : conf'[x.name] = [port |-> x.port, up |-> creds']
        <4>1. \A m \in Names \ {e.name} : conf'[m] = conf[m]
          <5>1. WriteConfig(e) \/ WriteConfigFails(e) \/ UNCHANGED conf
            BY <3>1
          <5> QED BY <1>0, <3>2, <5>1 DEF WriteConfig, WriteConfigFails
        <4>2. Importable(e, th[t].list \cup th[t].new) => \A x \in th[t].new : x.name # e.name
          BY DEF Importable
        <4>3. UNCHANGED conf \/ \A x \in th[t].new : conf'[x.name] = conf[x.name]
          <5>1. Importable(e, th[t].list \cup th[t].new) \/ UNCHANGED conf
            BY <3>1
          <5> QED BY <3>2, <4>1, <4>2, <5>1
        <4> QED BY <2>0, <3>2, <4>3 DEF WrittenOK
      <3>4. \/ th'[t].new = th[t].new
            \/ th'[t].new = th[t].new \cup {e} /\ conf'[e.name] = [port |-> e.port, up |-> creds']
        <4>1. WriteConfig(e) => conf'[e.name] = [port |-> e.port, up |-> creds']
          BY <1>0, <3>2 DEF WriteConfig, ConfigOf
        <4> QED BY <1>0, <2>0, <3>1, <4>1 DEF Job
      <3> QED BY <3>2, <3>3, <3>4 DEF WrittenOK, StartOK
    <2> QED BY <1>4, <2>4, <2>5, <2>6, <2>7, <2>8, <2>9, <2>10, <2>11, <2>12, <2>13, <2>14
            DEF Proceed, AddStart, RemoveRefresh, UpstreamEnd, WaveRestart
  <1> QED BY <1>1, <1>3, <1>4 DEF Next, vars

-----------------------------------------------------------------------------
\* The sudoers rule and the registry.

\* Nothing is to be shown of the rule once it is in step, or known to be behind.
LEMMA RulesSettled ==
    ASSUME rules' = registry' \/ behind'
    PROVE  RulesInv'
    BY DEF RulesInv

\* Every run of the script that ends leaves the rule in step, or known to be behind.
LEMMA Installed ==
    ASSUME NEW rows, InstallsOrFails(rows), UNCHANGED registry
    PROVE  rules' = registry' \/ behind'
  <1>1. PICK installed : Installs(installed)
    OBVIOUS
  <1>2. CASE installed = registry
    BY <1>1, <1>2
  <1>3. CASE installed # registry
    BY <1>1, <1>3
  <1> QED BY <1>2, <1>3

\* Between two steps of the panel the rule is the registry's or is behind, or the
\* one thread at work is about to refresh it.
LEMMA RulesStep == IInv /\ StartInv /\ RulesInv /\ [Next]_vars => RulesInv'
  <1> SUFFICES ASSUME IInv, StartInv, RulesInv, [Next]_vars PROVE RulesInv'
    OBVIOUS
  <1> DEFINE Removing == {"rm_refresh", "rm_install"}
             Lagging == {"add_refresh", "add_install", "im_refresh", "im_install"} \cup Removing
  <1>0. th \in [Threads -> Job]
    BY DEF IInv, TypeOK
  <1>1. CASE UNCHANGED <<registry, rules, th, behind>>
    BY <1>1 DEF RulesInv
  <1>2. CASE Unlocked
    <2>1. CASE UpdateInstalls
      BY <2>1, Installed, RulesSettled DEF UpdateInstalls
    <2>2. CASE PanelCrash \/ Reboot
      <3>1. rules' = registry' \/ behind'
        BY <2>2 DEF PanelCrash, Reboot, PanelStops
      <3> QED BY <3>1, RulesSettled
    <2> QED BY <1>1, <1>2, <2>1, <2>2
            DEF Unlocked, RestartButton, StopButton, Psictl, UnitExits, UnitRelaunched, UpdateReads
  <1>3. ASSUME NEW t \in Threads, Begin(t) \/ Proceed(t) PROVE RulesInv'
    <2>1. \A u \in Threads \ {t} : th[u].pc = "idle" /\ th'[u].pc = "idle"
      BY <1>3, MovesAlone
    <2>2. th[t].pc \notin Lagging => rules = registry \/ behind
      BY <2>1 DEF RulesInv
    <2>3. CASE th[t].pc \notin Lagging /\ UNCHANGED <<registry, rules, behind>>
      BY <2>2, <2>3, RulesSettled
    <2>4. CASE AddSaveRegistry(t) \/ ImportSaveRegistry(t)
      <3>1. th[t].list = registry /\ th[t].pc \notin Lagging /\ UNCHANGED <<rules, behind>>
        BY <2>4 DEF AddSaveRegistry, ImportSaveRegistry, IInv, PendingInv, PendingOK
      <3>2. CASE registry' = registry
        BY <2>3, <3>1, <3>2
      <3>3. CASE /\ registry' = th[t].list \cup th[t].new
                 /\ th' = [th EXCEPT ![t].pc = "add_refresh"] \/ th' = [th EXCEPT ![t].pc = "im_refresh"]
        <4>1. th'[t].pc \in {"add_refresh", "im_refresh"}
          BY <1>0, <3>3 DEF Job
        <4>2. \A e \in rules' : e \in registry' \/ behind'
          BY <2>2, <3>1, <3>3
        <4> QED BY <4>1, <4>2 DEF RulesInv
      <3>4. CASE registry' = th[t].list \cup th[t].new /\ th[t].new = {}
        BY <3>1, <3>2, <3>4
      <3> QED BY <2>4, <3>2, <3>3, <3>4 DEF AddSaveRegistry, ImportSaveRegistry
    <2>5. CASE AddRefreshSudoers(t) \/ ImportRefreshSudoers(t) \/ RemoveRefresh(t)
      <3>1. InstallsOrFails(th[t].list) /\ UNCHANGED registry
        BY <2>5 DEF AddRefreshSudoers, ImportRefreshSudoers, RemoveRefresh
      <3> QED BY <3>1, Installed, RulesSettled
    <2>6. CASE RemoveFromRegistry(t)
      <3>1. th[t].pc \notin Lagging /\ UNCHANGED <<rules, behind>>
        BY <2>6 DEF RemoveFromRegistry
      <3>2. th'[t].pc = "rm_refresh" /\ th'[t].name = th[t].name
        BY <1>0, <2>6 DEF RemoveFromRegistry, Job
      <3>3. \A e \in rules' : e \in registry' \/ behind' \/ e.name = th'[t].name
        BY <2>2, <2>6, <3>1, <3>2 DEF RemoveFromRegistry
      <3> QED BY <3>2, <3>3 DEF RulesInv
    <2>7. CASE RefreshReads(t)
      <3> DEFINE j == [th[t] EXCEPT !.pc = Reading[th[t].pc], !.list = registry]
      <3>1. th' = [th EXCEPT ![t] = j] /\ UNCHANGED <<registry, rules, behind>> /\ th[t] \in Job
        BY <1>0, <2>7 DEF RefreshReads
      <3>2. th[t].pc \in {"add_refresh", "rm_refresh", "im_refresh"}
        BY <2>7 DEF RefreshReads, Reading
      <3>3. /\ j.pc \in {"add_install", "rm_install", "im_install"} /\ j.name = th[t].name
            /\ th[t].pc = "rm_refresh" => j.pc = "rm_install"
        BY <3>1, <3>2 DEF Job, Reading
      <3>4. th'[t] = j
        BY <1>0, <3>1
      <3>5. \A e \in rules' : \/ e \in registry' \/ behind'
                              \/ th[t].pc \in Removing /\ th[t].name = e.name
        BY <2>1, <3>1 DEF RulesInv
      <3> HIDE DEF j
      <3> QED BY <3>2, <3>3, <3>4, <3>5 DEF RulesInv
    <2>8. CASE Begin(t)
      BY <2>3, <2>8, BeginLands
    <2> QED BY <1>3, <2>3, <2>4, <2>5, <2>6, <2>7, <2>8
            DEF Proceed, AddWriteConfig, AddStart, RemoveStop, RemoveFiles, ApplyService, ApplySave,
                ApplyConfig, ApplyCheck, ApplyRestart, UpstreamEnd, ImportLoad, ImportEntry,
                ImportStart, WaveRestart
  <1> QED BY <1>1, <1>2, <1>3 DEF Next, vars

\* Init has no handler at work and nothing registered.
LEMMA StartInit == Init => StartInv /\ RulesInv
  <1> SUFFICES ASSUME Init PROVE StartInv /\ RulesInv
    OBVIOUS
  <1>1. \A t \in Threads : th[t].pc = "idle"
    BY DEF Init, Idle
  <1>2. StartInv
    BY <1>1, NothingNew DEF StartInv
  <1>3. RulesInv
    BY DEF Init, RulesInv
  <1> QED BY <1>2, <1>3

\* What handlers are about to start, and what the rule lists: both invariants.
LEMMA ReadyInvariance == Spec => [](IInv /\ StartInv /\ RulesInv)
  <1>1. IInv /\ StartInv /\ RulesInv /\ [Next]_vars => IInv' /\ StartInv' /\ RulesInv'
    BY InvStep, StartStep, RulesStep
  <1> QED BY <1>1, InvInit, StartInit, PTL DEF Spec

\* Whatever fails and whoever else is at work: what handleAdd or an import starts is
\* registered, has the file it is to run, and is in the sudoers rule unless a run of
\* the refresh script failed or an update's run overtook the handler's.
THEOREM StartsReadyCorrect == Spec => []StartsReady
  <1>1. IInv /\ StartInv /\ RulesInv => StartsReady
    <2> SUFFICES ASSUME IInv, StartInv, RulesInv,
                        NEW t \in Threads, th[t].pc \in {"add_start", "im_start"},
                        NEW e \in IF th[t].pc = "add_start" THEN th[t].new ELSE th[t].todo
                 PROVE  /\ e \in registry /\ conf[e.name] = ConfigOf(e)
                        /\ Permitted(e.name) \/ behind
      BY DEF StartsReady
    <2>1. e \in registry /\ conf[e.name] = ConfigOf(e)
      BY DEF StartInv, WrittenOK, StartOK, ConfigOf
    <2>2. \A u \in Threads \ {t} : th[u].pc = "idle"
      BY DEF IInv, LockInv
    <2>3. rules = registry \/ behind
      BY <2>2 DEF RulesInv
    <2> QED BY <2>1, <2>3 DEF Permitted, NamesOf
  <1> QED BY <1>1, ReadyInvariance, PTL

\* With no handler at work the sudoers rule lists exactly what is registered, unless
\* a run of the script failed, was cut off by a crash or was overtaken.
THEOREM RulesInStepCorrect == Spec => []RulesInStep
  <1>1. IInv /\ RulesInv => RulesInStep
    BY SentinelAssumption DEF IInv, LockInv, RulesInv, RulesInStep
  <1> QED BY <1>1, ReadyInvariance, PTL

-----------------------------------------------------------------------------
\* What the commands do to a unit.

\* The unit of one location is left as it is, or becomes one of these.
Moved(n, us) == \E v \in us \cup {unit[n]} : unit' = [unit EXCEPT ![n] = v]

\* What a start or restart may leave of a unit.
Started(n) == StartPartly(n) \cup {Restarted(n)}

\* A unit that runs either runs its current file or what it ran before.
Fresh(n, u) ==
    u.state = "active" =>
        u.conf = conf[n] \/ (unit[n].state = "active" /\ u.conf = unit[n].conf)

\* It runs, or would after a reboot.
Live(u) == u.state \in {"active", "activating"} \/ u.enabled

\* A command that succeeds or fails moves its own unit only.
LEMMA CallMoves ==
    ASSUME TypeOK, NEW n \in Names, NEW u, NEW partly, Succeeds(n, u) \/ Fails(n, partly), u \in partly
    PROVE  Moved(n, partly)
  <1>1. CASE UNCHANGED unit
    <2>1. unit' = [unit EXCEPT ![n] = unit[n]]
      BY <1>1 DEF TypeOK
    <2> QED BY <2>1 DEF Moved
  <1>2. CASE \E v \in partly \cup {unit[n]} : unit' = [unit EXCEPT ![n] = v]
    BY <1>2 DEF Moved
  <1> QED BY <1>1, <1>2 DEF Succeeds, Fails

\* A start never leaves a unit stopped that was not, nor running an old file anew.
LEMMA StartResult ==
    ASSUME TypeOK, NEW n \in Names, NEW v \in Started(n) \cup {unit[n]}
    PROVE  /\ v \in UnitState
           /\ v.state = "inactive" => unit[n].state = "inactive"
           /\ Fresh(n, v)
  <1>1. unit[n] \in UnitState /\ v \in UnitState
    BY CommandType DEF Started
  <1>2. \A b : /\ Launched(conf[n], b).state # "inactive"
               /\ Launched(conf[n], b).state = "active" => Launched(conf[n], b).conf = conf[n]
    BY DEF Launched
  <1>3. /\ [unit[n] EXCEPT !.enabled = TRUE].conf = unit[n].conf
        /\ [unit[n] EXCEPT !.enabled = TRUE].state = unit[n].state
    BY <1>1 DEF UnitState
  <1>4. v \in {unit[n], [unit[n] EXCEPT !.enabled = TRUE], Launched(conf[n], TRUE),
               Launched(conf[n], unit[n].enabled)}
    BY DEF Started, StartPartly, EnabledNow, Restarted
  <1> QED BY <1>1, <1>2, <1>3, <1>4 DEF Fresh

\* A stop leaves a unit as it was, disabled but not yet stopped, or down.
LEMMA StopResult ==
    ASSUME TypeOK, NEW n \in Names, NEW v \in StopPartly(n) \cup {unit[n]}
    PROVE  /\ v \in UnitState
           /\ v.state = "inactive" /\ v.enabled => unit[n].state = "inactive"
           /\ unit[n] = Down => v = Down
           /\ Live(v) => Live(unit[n])
           /\ Fresh(n, v)
  <1>1. unit[n] \in UnitState /\ v \in UnitState
    BY CommandType
  <1>2. /\ [unit[n] EXCEPT !.enabled = FALSE].conf = unit[n].conf
        /\ [unit[n] EXCEPT !.enabled = FALSE].state = unit[n].state
        /\ [unit[n] EXCEPT !.enabled = FALSE].enabled = FALSE
        /\ unit[n].enabled = FALSE => [unit[n] EXCEPT !.enabled = FALSE] = unit[n]
    BY <1>1 DEF UnitState
  <1>3. Down.state = "inactive" /\ Down.enabled = FALSE
    BY DEF Down
  <1>4. v \in {unit[n], [unit[n] EXCEPT !.enabled = FALSE], Down}
    BY DEF StopPartly, DisabledNow
  <1> QED BY <1>1, <1>2, <1>3, <1>4 DEF Fresh, Live

\* A handler's step moves no unit but that of the location it starts or removes.
LEMMA ProceedMoves ==
    ASSUME IInv, NEW t \in Threads, Proceed(t)
    PROVE  \/ UNCHANGED unit
           \/ /\ UNCHANGED <<registry, conf, creds, strays>> /\ th'[t] # th[t]
              /\ \E n \in Starting(t) : n \in Names /\ Moved(n, Started(n))
           \/ RemoveStop(t) /\ th[t].name \in Names /\ Moved(th[t].name, StopPartly(th[t].name))
  <1>0. th \in [Threads -> Job] /\ th[t] \in Job /\ TypeOK /\ JobOK(th[t], registry)
    BY DEF IInv, TypeOK, JobInv
  <1>1. \A n \in Names : EnabledNow(n) \in StartPartly(n) /\ DisabledNow(n) \in StopPartly(n)
    BY DEF StartPartly, StopPartly
  <1>2. ASSUME Return(t), th[t].pc # "idle" PROVE th'[t] # th[t]
    BY <1>2, ReturnLands
  <1>3. ASSUME NEW n \in Names, \/ Succeeds(n, EnabledNow(n)) \/ Fails(n, StartPartly(n))
                                \/ Succeeds(n, Restarted(n)) \/ Fails(n, {Restarted(n)})
        PROVE  Moved(n, Started(n))
    <2>1. CASE Succeeds(n, EnabledNow(n)) \/ Fails(n, StartPartly(n))
      <3>1. Moved(n, StartPartly(n))
        BY <1>0, <1>1, <2>1, CallMoves
      <3> QED BY <3>1 DEF Moved, Started
    <2>2. CASE Succeeds(n, Restarted(n)) \/ Fails(n, {Restarted(n)})
      <3>1. Moved(n, {Restarted(n)})
        BY <1>0, <2>2, CallMoves
      <3> QED BY <3>1 DEF Moved, Started
    <2> QED BY <1>3, <2>1, <2>2
  <1>4. CASE AddStart(t)
    <2>1. PICK e \in th[t].new : Succeeds(e.name, EnabledNow(e.name)) \/ Fails(e.name, StartPartly(e.name))
      BY <1>4 DEF AddStart
    <2>2. e.name \in Names /\ e.name \in Starting(t)
      BY <1>0, <1>4 DEF AddStart, Starting, NamesOf, Job, Tunnel
    <2>3. Moved(e.name, Started(e.name))
      BY <1>3, <2>1, <2>2
    <2> QED BY <1>2, <1>4, <2>2, <2>3 DEF AddStart
  <1>5. CASE ImportStart(t)
    <2>1. PICK e \in th[t].todo :
            /\ Succeeds(e.name, EnabledNow(e.name)) \/ Fails(e.name, StartPartly(e.name))
            /\ Return(t) \/ th' = [th EXCEPT ![t].todo = @ \ {e}]
      BY <1>5 DEF ImportStart
    <2>2. e.name \in Names /\ e.name \in Starting(t)
      BY <1>0, <1>5 DEF ImportStart, Starting, NamesOf, Job, Tunnel
    <2>3. Moved(e.name, Started(e.name))
      BY <1>3, <2>1, <2>2
    <2>4. th'[t] # th[t]
      <3>1. CASE th' = [th EXCEPT ![t].todo = @ \ {e}]
        <4>1. th'[t].todo = th[t].todo \ {e}
          BY <1>0, <3>1 DEF Job
        <4> QED BY <4>1
      <3> QED BY <1>2, <1>5, <2>1, <3>1 DEF ImportStart
    <2> QED BY <1>5, <2>2, <2>3, <2>4 DEF ImportStart
  <1>6. CASE ApplyRestart(t) \/ WaveRestart(t)
    <2>1. th[t].name \in Names /\ th[t].name \in Starting(t)
      BY <1>0, <1>6 DEF ApplyRestart, WaveRestart, Starting, JobOK
    <2>2. Moved(th[t].name, Started(th[t].name))
      BY <1>3, <1>6, <2>1 DEF ApplyRestart, WaveRestart
    <2>3. th'[t] # th[t]
      <3>1. CASE ApplyRestart(t) /\ ~Return(t)
        <4>1. th'[t].pc = "up_config"
          BY <1>0, <3>1 DEF ApplyRestart, Job
        <4> QED BY <3>1, <4>1 DEF ApplyRestart
      <3> QED BY <1>2, <1>6, <3>1 DEF ApplyRestart, WaveRestart
    <2> QED BY <1>6, <2>1, <2>2, <2>3 DEF ApplyRestart, WaveRestart
  <1>7. CASE RemoveStop(t)
    <2>1. th[t].name \in Names
      BY <1>0, <1>7 DEF RemoveStop, JobOK
    <2>2. \/ Succeeds(th[t].name, DisabledNow(th[t].name))
          \/ Fails(th[t].name, StopPartly(th[t].name))
      BY <1>7 DEF RemoveStop
    <2>3. Moved(th[t].name, StopPartly(th[t].name))
      BY <1>0, <1>1, <2>1, <2>2, CallMoves
    <2> QED BY <1>7, <2>1, <2>3
  <1> QED BY <1>4, <1>5, <1>6, <1>7
          DEF Proceed, RefreshReads, AddWriteConfig, AddSaveRegistry, AddRefreshSudoers, RemoveFiles,
              RemoveFromRegistry, RemoveRefresh, ApplyService, ApplySave, ApplyConfig, ApplyCheck,
              UpstreamEnd, ImportLoad, ImportEntry, ImportSaveRegistry, ImportRefreshSudoers

\* What the buttons, psictl and systemd itself do to a unit.
LEMMA ByHandMoves ==
    ASSUME TypeOK, NEW n \in Names
    PROVE  /\ RestartButton(n) => Moved(n, Started(n))
           /\ StopButton(n) => Moved(n, StopPartly(n))
           /\ Psictl(n) => Moved(n, Started(n)) \/ Moved(n, StopPartly(n))
           /\ UnitExits(n) \/ UnitRelaunched(n) =>
                 \E v : /\ unit' = [unit EXCEPT ![n] = v] /\ v.state \in {"active", "activating"}
                        /\ unit[n].state \in {"active", "activating"} /\ Fresh(n, v)
  <1>0. unit[n] \in UnitState
    BY DEF TypeOK
  <1>1. RestartButton(n) => Moved(n, Started(n))
    BY DEF RestartButton, Succeeds, Moved, Started
  <1>2. DisabledNow(n) \in StopPartly(n)
    BY DEF StopPartly
  <1>3. StopButton(n) => Moved(n, StopPartly(n))
    BY <1>2, CallMoves DEF StopButton
  <1>4. Psictl(n) => Moved(n, Started(n)) \/ Moved(n, StopPartly(n))
    BY DEF Psictl, Moved, Started, StartPartly, StopPartly
  <1>5. ASSUME UnitExits(n)
        PROVE  \E v : /\ unit' = [unit EXCEPT ![n] = v] /\ v.state \in {"active", "activating"}
                      /\ unit[n].state \in {"active", "activating"} /\ Fresh(n, v)
    <2> DEFINE v == [unit[n] EXCEPT !.state = "activating", !.conf = NoConf]
    <2>1. unit' = [unit EXCEPT ![n] = v] /\ unit[n].state = "active"
      BY <1>5 DEF UnitExits, TypeOK
    <2>2. v.state = "activating"
      BY <1>0 DEF UnitState
    <2> HIDE DEF v
    <2> QED BY <2>1, <2>2 DEF Fresh
  <1>6. ASSUME UnitRelaunched(n)
        PROVE  \E v : /\ unit' = [unit EXCEPT ![n] = v] /\ v.state \in {"active", "activating"}
                      /\ unit[n].state \in {"active", "activating"} /\ Fresh(n, v)
    <2> DEFINE v == Restarted(n)
    <2>1. unit' = [unit EXCEPT ![n] = v] /\ unit[n].state = "activating"
      BY <1>6 DEF UnitRelaunched, Restarted
    <2>2. v \in Started(n) /\ v.state \in {"active", "activating"}
      BY DEF Started, Restarted, Launched
    <2> HIDE DEF v
    <2>3. Fresh(n, v)
      BY <2>2, StartResult
    <2> QED BY <2>1, <2>2, <2>3
  <1> QED BY <1>1, <1>3, <1>4, <1>5, <1>6

-----------------------------------------------------------------------------
\* A stop stays.

\* The step form of StopSurvivesReboot.
StopKept(n) ==
    /\ unit'[n].state = "inactive" /\ unit'[n].enabled => unit[n].state = "inactive"
    /\ unit[n] = Down /\ unit'[n] # Down =>
          RestartButton(n) \/ Psictl(n) \/ \E t \in Threads : n \in Starting(t) /\ th'[t] # th[t]

LEMMA StopStep ==
    ASSUME IInv, [Next]_vars, NEW m \in Names
    PROVE  StopKept(m)
  <1>0. TypeOK /\ unit \in [Names -> UnitState]
    BY DEF IInv, TypeOK
  <1>1. CASE unit'[m] = unit[m]
    BY <1>1 DEF StopKept
  <1>2. ASSUME NEW n \in Names, Moved(n, Started(n)),
               RestartButton(n) \/ Psictl(n) \/ \E t \in Threads : n \in Starting(t) /\ th'[t] # th[t]
        PROVE  StopKept(m)
    <2>1. PICK v \in Started(n) \cup {unit[n]} : unit' = [unit EXCEPT ![n] = v]
      BY <1>2 DEF Moved
    <2>2. CASE m = n
      <3>1. unit'[m] = v
        BY <1>0, <2>1, <2>2
      <3> QED BY <1>0, <1>2, <2>2, <3>1, StartResult DEF StopKept
    <2>3. CASE m # n
      BY <1>0, <1>1, <2>1, <2>3
    <2> QED BY <2>2, <2>3
  <1>3. ASSUME NEW n \in Names, Moved(n, StopPartly(n)) PROVE StopKept(m)
    <2>1. PICK v \in StopPartly(n) \cup {unit[n]} : unit' = [unit EXCEPT ![n] = v]
      BY <1>3 DEF Moved
    <2>2. CASE m = n
      <3>1. unit'[m] = v
        BY <1>0, <2>1, <2>2
      <3> QED BY <1>0, <2>2, <3>1, StopResult DEF StopKept
    <2>3. CASE m # n
      BY <1>0, <1>1, <2>1, <2>3
    <2> QED BY <2>2, <2>3
  <1>4. CASE UNCHANGED unit
    BY <1>1, <1>4
  <1>5. ASSUME NEW t \in Threads, Begin(t) PROVE StopKept(m)
    BY <1>4, <1>5, BeginLands
  <1>6. ASSUME NEW t \in Threads, Proceed(t) PROVE StopKept(m)
    <2>1. CASE \E n \in Starting(t) : n \in Names /\ Moved(n, Started(n)) /\ th'[t] # th[t]
      BY <1>2, <2>1
    <2>2. CASE RemoveStop(t) /\ th[t].name \in Names /\ Moved(th[t].name, StopPartly(th[t].name))
      BY <1>3, <2>2
    <2> QED BY <1>4, <1>6, <2>1, <2>2, ProceedMoves
  <1>7. ASSUME NEW n \in Names,
               RestartButton(n) \/ StopButton(n) \/ Psictl(n) \/ UnitExits(n) \/ UnitRelaunched(n)
        PROVE  StopKept(m)
    <2>1. CASE RestartButton(n) \/ StopButton(n) \/ Psictl(n)
      BY <1>0, <1>2, <1>3, <2>1, ByHandMoves
    <2>2. CASE UnitExits(n) \/ UnitRelaunched(n)
      <3>1. PICK v : /\ unit' = [unit EXCEPT ![n] = v] /\ v.state \in {"active", "activating"}
                     /\ unit[n].state \in {"active", "activating"}
        BY <1>0, <2>2, ByHandMoves
      <3>2. CASE m = n
        <4>1. unit'[m].state # "inactive" /\ unit[m] # Down
          BY <1>0, <3>1, <3>2 DEF Down
        <4> QED BY <4>1 DEF StopKept
      <3>3. CASE m # n
        BY <1>0, <1>1, <3>1, <3>3
      <3> QED BY <3>2, <3>3
    <2> QED BY <1>7, <2>1, <2>2
  <1>8. CASE Reboot
    <2>1. unit'[m] = IF unit[m].enabled THEN Launched(conf'[m], TRUE) ELSE Down
      BY <1>8 DEF Reboot
    <2>2. /\ Launched(conf'[m], TRUE).state # "inactive"
          /\ ~Down.enabled
      BY DEF Launched, Down
    <2>3. unit[m] = Down => unit'[m] = Down
      BY <2>1 DEF Down
    <2> QED BY <2>1, <2>2, <2>3 DEF StopKept
  <1>9. CASE UpdateReads \/ UpdateInstalls \/ PanelCrash
    BY <1>4, <1>9 DEF UpdateReads, UpdateInstalls, PanelCrash
  <1> QED BY <1>4, <1>5, <1>6, <1>7, <1>8, <1>9 DEF Next, Unlocked, vars

\* A stop and its disabling come together, and only a start of that very location,
\* by the panel or by hand, undoes them: no reboot, crash, retry, half failed
\* command or change of the upstream does.
THEOREM StopSurvivesCorrect == Spec => StopSurvivesReboot
  <1>1. IInv /\ [Next]_vars =>
          [\A n \in Names :
              /\ unit'[n].state = "inactive" /\ unit'[n].enabled => unit[n].state = "inactive"
              /\ unit[n] = Down /\ unit'[n] # Down =>
                    RestartButton(n) \/ Psictl(n) \/ \E t \in Threads : n \in Starting(t) /\ th'[t] # th[t]]_vars
    <2> SUFFICES ASSUME IInv, [Next]_vars, NEW n \in Names PROVE StopKept(n)
      BY Zenon DEF StopKept
    <2> QED BY StopStep
  <1> QED BY <1>1, Invariance, PTL DEF Spec, StopSurvivesReboot

-----------------------------------------------------------------------------
\* What runs is registered.

\* The table of units, names and rows, as the lemmas below use them.
LEMMA Shapes ==
    ASSUME IInv
    PROVE  /\ th \in [Threads -> Job] /\ unit \in [Names -> UnitState] /\ registry \subseteq Tunnel
           /\ conf \in [Names -> Config \cup {NoConf, Torn}] /\ strays \subseteq Names /\ TypeOK
           /\ \A e \in registry : e.name \in Names /\ e.name \in NamesOf(registry)
    BY DEF IInv, TypeOK, Tunnel, NamesOf

\* NoOrphan in terms of Live.
LEMMA OrphanFree == NoOrphan <=> \A n \in Names : Live(unit[n]) => n \in NamesOf(registry) \cup strays
    BY DEF NoOrphan, Live, IsRunning

\* The same after a step.
LEMMA OrphanFreeNext ==
    ASSUME \A n \in Names : Live(unit'[n]) => n \in NamesOf(registry') \cup strays'
    PROVE  NoOrphan'
    BY DEF NoOrphan, Live, IsRunning

\* What is registered or astray is a matter of these variables only.
LEMMA RunKept ==
    ASSUME RunInv, UNCHANGED <<registry, unit, strays, th>>
    PROVE  RunInv'
    BY DEF RunInv, RunOK, NoOrphan, IsRunning, NamesOf

\* A move of one unit by hand: it is down, or was live, or its location is
\* registered and not being removed, or it is a stray from now on.
LEMMA ByHandRun ==
    ASSUME IInv, RunInv, NEW n \in Names, NEW v, UNCHANGED <<registry, th>>,
           unit' = [unit EXCEPT ![n] = v],
           strays' = (IF unit'[n] = Down THEN strays \ {n} ELSE strays) \/ strays' = strays \cup {n},
           \/ v = Down
           \/ strays' = strays /\ unit[n] # Down /\ (Live(v) => Live(unit[n]))
           \/ strays' = strays /\ n \in NamesOf(registry) /\ ~BeingRemoved(n)
           \/ n \in strays'
    PROVE  RunInv'
  <1>0. unit'[n] = v /\ \A m \in Names \ {n} : unit'[m] = unit[m] /\ (m \in strays => m \in strays')
    BY Shapes
  <1>1. ~Live(Down)
    BY DEF Live, Down
  <1>2. NoOrphan'
    <2> SUFFICES ASSUME NEW m \in Names, Live(unit'[m])
                 PROVE  m \in NamesOf(registry) \cup strays'
      BY OrphanFreeNext
    <2>1. CASE m # n
      BY <1>0, <2>1, OrphanFree DEF RunInv
    <2>2. CASE m = n
      <3>1. v # Down
        BY <1>0, <1>1, <2>2
      <3>2. Live(unit[n]) => n \in NamesOf(registry) \cup strays
        BY OrphanFree DEF RunInv
      <3> QED BY <1>0, <2>2, <3>1, <3>2
    <2> QED BY <2>1, <2>2
  <1>3. ASSUME NEW t \in Threads PROVE RunOK(th[t], registry, strays)'
    <2>1. RunOK(th[t], registry, strays) /\ JobOK(th[t], registry)
      BY DEF RunInv, IInv, JobInv
    <2>2. th[t].pc \in {"rm_config", "rm_save"} => unit'[th[t].name] = Down \/ th[t].name \in strays'
      <3> SUFFICES ASSUME th[t].pc \in {"rm_config", "rm_save"}
                   PROVE  unit'[th[t].name] = Down \/ th[t].name \in strays'
        OBVIOUS
      <3>1. /\ th[t].name \in Names /\ th[t].op = "remove"
            /\ unit[th[t].name] = Down \/ th[t].name \in strays
        BY <2>1 DEF RunOK, JobOK
      <3>2. CASE th[t].name # n
        BY <1>0, <3>1, <3>2
      <3>3. CASE th[t].name = n
        <4>1. BeingRemoved(n)
          BY <3>1, <3>3 DEF BeingRemoved
        <4> QED BY <1>0, <3>1, <3>3, <4>1
      <3> QED BY <3>2, <3>3
    <2> QED BY <2>1, <2>2 DEF RunOK
  <1> QED BY <1>2, <1>3 DEF RunInv

\* Whatever sudo permits and is not registered is astray: the rule is behind, or the
\* location is just being removed.
LEMMA PermittedAstray ==
    ASSUME RulesInv, RunInv, NEW n, Permitted(n), n \notin NamesOf(registry)
    PROVE  Astray(n)
  <1>1. PICK e \in rules : e.name = n
    BY DEF Permitted, NamesOf
  <1>2. e \notin registry
    BY <1>1 DEF NamesOf
  <1>3. behind \/ \E t \in Threads : th[t].pc \in {"rm_refresh", "rm_install"} /\ th[t].name = n
    BY <1>1, <1>2 DEF RulesInv
  <1>4. \A t \in Threads : th[t].pc \in {"rm_refresh", "rm_install"} => th[t].op = "remove"
    BY DEF RunInv, RunOK
  <1> QED BY <1>3, <1>4 DEF Astray, BeingRemoved

\* No removal leaves a unit live that is not a stray, and nothing but a command by
\* hand starts one that is not registered.
LEMMA RunStep == IInv /\ StartInv /\ RulesInv /\ RunInv /\ [Next]_vars => RunInv'
  <1> SUFFICES ASSUME IInv, StartInv, RulesInv, RunInv, [Next]_vars PROVE RunInv'
    OBVIOUS
  <1>0. /\ th \in [Threads -> Job] /\ unit \in [Names -> UnitState] /\ TypeOK
        /\ \A e \in registry : e.name \in Names /\ e.name \in NamesOf(registry)
    BY Shapes
  <1>1. CASE UNCHANGED <<registry, unit, strays, th>>
    BY <1>1, RunKept
  <1>2. ASSUME NEW n \in Names,
               RestartButton(n) \/ StopButton(n) \/ Psictl(n) \/ UnitExits(n) \/ UnitRelaunched(n)
        PROVE  RunInv'
    <2>1. CASE RestartButton(n)
      <3>1. /\ Permitted(n) /\ unit' = [unit EXCEPT ![n] = Restarted(n)]
            /\ Strays(n, Astray(n)) /\ UNCHANGED <<registry, th>>
        BY <2>1 DEF RestartButton, Succeeds
      <3>2. CASE Astray(n) /\ Restarted(n) # Down
        <4>1. strays' = strays \cup {n}
          BY <1>0, <3>1, <3>2 DEF Strays
        <4> QED BY <3>1, <4>1, ByHandRun
      <3>3. CASE Restarted(n) = Down
        <4>1. strays' = IF unit'[n] = Down THEN strays \ {n} ELSE strays
          BY <1>0, <3>1, <3>3 DEF Strays
        <4> QED BY <3>1, <3>3, <4>1, ByHandRun
      <3>4. CASE ~Astray(n) /\ Restarted(n) # Down
        <4>1. strays' = strays /\ n \in NamesOf(registry) /\ ~BeingRemoved(n)
          BY <1>0, <3>1, <3>4, PermittedAstray DEF Strays, Astray
        <4>2. unit'[n] # Down
          BY <1>0, <3>1, <3>4
        <4> QED BY <3>1, <4>1, <4>2, ByHandRun
      <3> QED BY <3>2, <3>3, <3>4
    <2>2. CASE StopButton(n)
      <3>1. PICK v \in StopPartly(n) \cup {unit[n]} : unit' = [unit EXCEPT ![n] = v]
        BY <1>0, <2>2, ByHandMoves DEF Moved
      <3>2. strays' = (IF unit'[n] = Down THEN strays \ {n} ELSE strays) /\ UNCHANGED <<registry, th>>
        BY <2>2 DEF StopButton, Strays
      <3>3. unit'[n] = v
        BY <1>0, <3>1
      <3>4. (unit[n] = Down => v = Down) /\ (Live(v) => Live(unit[n]))
        BY <1>0, StopResult
      <3>5. v = Down \/ (strays' = strays /\ unit[n] # Down)
        BY <3>2, <3>3, <3>4
      <3> QED BY <3>1, <3>2, <3>4, <3>5, ByHandRun
    <2>3. CASE Psictl(n)
      <3>1. n \in NamesOf(registry) /\ Strays(n, Astray(n)) /\ UNCHANGED <<registry, th>>
        BY <2>3 DEF Psictl
      <3>2. PICK v : unit' = [unit EXCEPT ![n] = v]
        BY <2>3 DEF Psictl
      <3>3. unit'[n] = v
        BY <1>0, <3>2
      <3>4. CASE v = Down
        <4>1. strays' = IF unit'[n] = Down THEN strays \ {n} ELSE strays
          BY <3>1, <3>3, <3>4 DEF Strays
        <4> QED BY <3>1, <3>2, <3>4, <4>1, ByHandRun
      <3>5. CASE v # Down /\ Astray(n)
        <4>1. strays' = strays \cup {n}
          BY <3>1, <3>3, <3>5 DEF Strays
        <4> QED BY <3>1, <3>2, <4>1, ByHandRun
      <3>6. CASE v # Down /\ ~Astray(n)
        <4>1. strays' = strays /\ ~BeingRemoved(n)
          BY <3>1, <3>3, <3>6 DEF Strays, Astray
        <4> QED BY <3>1, <3>2, <3>3, <3>6, <4>1, ByHandRun
      <3> QED BY <3>4, <3>5, <3>6
    <2>4. CASE UnitExits(n) \/ UnitRelaunched(n)
      <3>1. PICK v : /\ unit' = [unit EXCEPT ![n] = v] /\ v.state \in {"active", "activating"}
                     /\ unit[n].state \in {"active", "activating"}
        BY <1>0, <2>4, ByHandMoves
      <3>2. Live(unit[n]) /\ unit[n] # Down /\ v # Down
        BY <3>1 DEF Live, Down
      <3>3. strays' = strays /\ UNCHANGED <<registry, th>>
        BY <2>4 DEF UnitExits, UnitRelaunched
      <3>4. unit'[n] # Down
        BY <1>0, <3>1, <3>2
      <3> QED BY <3>1, <3>2, <3>3, <3>4, ByHandRun
    <2> QED BY <1>2, <2>1, <2>2, <2>3, <2>4
  <1>3. CASE PanelCrash \/ Reboot
    <2>0. PanelStops
      BY <1>3 DEF PanelCrash, Reboot
    <2>1. \A t \in Threads : th'[t].pc = "idle"
      BY <2>0 DEF PanelStops, Idle
    <2>2. \A n \in Names : Live(unit'[n]) => Live(unit[n])
      <3>1. CASE PanelCrash
        BY <3>1 DEF PanelCrash
      <3>2. CASE Reboot
        BY <3>2 DEF Reboot, Live, Down
      <3> QED BY <1>3, <3>1, <3>2
    <2>3. UNCHANGED <<registry, strays>>
      BY <1>3 DEF PanelCrash, Reboot, PanelStops
    <2>4. NoOrphan'
      BY <2>2, <2>3, OrphanFree, OrphanFreeNext DEF RunInv
    <2> QED BY <2>1, <2>4 DEF RunInv, RunOK
  <1>4. CASE UpdateReads \/ UpdateInstalls
    BY <1>1, <1>4 DEF UpdateReads, UpdateInstalls
  <1>5. ASSUME NEW t \in Threads, Begin(t) \/ Proceed(t) PROVE RunInv'
    <2>0. th[t] \in Job /\ JobOK(th[t], registry) /\ RunOK(th[t], registry, strays)
          /\ StartOK(th[t], registry) /\ PendingOK(th[t], registry, conf)
      BY <1>0 DEF IInv, JobInv, RunInv, StartInv, PendingInv
    <2>1. \A u \in Threads \ {t} : th'[u].pc = "idle"
      BY <1>5, MovesAlone
    <2>2. ASSUME RunOK(th[t], registry, strays)',
                 \A n \in Names : Live(unit'[n]) => n \in NamesOf(registry') \cup strays'
          PROVE  RunInv'
      BY <2>1, <2>2, OrphanFreeNext DEF RunInv, RunOK
    <2>3. ASSUME RunOK(th[t], registry, strays)', UNCHANGED <<unit, strays>>,
                 NamesOf(registry) \subseteq NamesOf(registry')
          PROVE  RunInv'
      BY <2>2, <2>3, OrphanFree DEF RunInv
    <2>4. CASE Begin(t)
      <3>1. RunOK(th[t], registry, strays)'
        BY <2>4, BeginLands DEF RunOK
      <3> QED BY <2>3, <2>4, <3>1, BeginLands
    <2>5. CASE RemoveStop(t)
      <3> DEFINE n == th[t].name
      <3>1. n \in Names /\ th'[t].pc = "rm_config" /\ th'[t].name = n /\ th'[t].op = "remove"
        BY <1>0, <2>0, <2>5 DEF RemoveStop, JobOK, RunOK, Job
      <3>2. Strays(n, TRUE) /\ UNCHANGED registry
        BY <2>5 DEF RemoveStop
      <3>3. PICK v : unit' = [unit EXCEPT ![n] = v]
        <4>1. Succeeds(n, DisabledNow(n)) \/ Fails(n, StopPartly(n))
          BY <2>5 DEF RemoveStop
        <4>2. DisabledNow(n) \in StopPartly(n)
          BY DEF StopPartly
        <4>3. Moved(n, StopPartly(n))
          BY <1>0, <3>1, <4>1, <4>2, CallMoves
        <4> QED BY <4>3 DEF Moved
      <3> HIDE DEF n
      <3>4. unit'[n] = v /\ \A m \in Names \ {n} : unit'[m] = unit[m] /\ (m \in strays => m \in strays')
        BY <1>0, <3>1, <3>2, <3>3 DEF Strays
      <3>5. v = Down \/ n \in strays'
        BY <3>2, <3>4 DEF Strays
      <3>6. ~Live(Down)
        BY DEF Live, Down
      <3>7. \A m \in Names : Live(unit'[m]) => m \in NamesOf(registry') \cup strays'
        BY <3>2, <3>4, <3>5, <3>6, OrphanFree DEF RunInv
      <3>8. RunOK(th[t], registry, strays)'
        BY <3>1, <3>4, <3>5 DEF RunOK
      <3> QED BY <2>2, <3>7, <3>8
    <2>6. CASE RemoveFiles(t)
      <3>1. /\ th'[t].pc = "rm_save" /\ th'[t].name = th[t].name /\ th'[t].op = "remove"
            /\ UNCHANGED <<registry, unit, strays>>
            /\ unit[th[t].name] = Down \/ th[t].name \in strays
        BY <1>0, <2>0, <2>6 DEF RemoveFiles, RunOK, Job
      <3>2. RunOK(th[t], registry, strays)'
        BY <3>1 DEF RunOK
      <3> QED BY <2>3, <3>1, <3>2
    <2>7. CASE RemoveFromRegistry(t)
      <3>1. /\ th'[t].pc = "rm_refresh" /\ th'[t].name = th[t].name /\ th'[t].op = "remove"
            /\ UNCHANGED <<unit, strays>>
            /\ unit[th[t].name] = Down \/ th[t].name \in strays
        BY <1>0, <2>0, <2>7 DEF RemoveFromRegistry, RunOK, Job
      <3>2. RunOK(th[t], registry, strays)'
        BY <3>1 DEF RunOK
      <3>3. \A e \in registry : e.name # th[t].name => e \in registry'
        BY <2>7 DEF RemoveFromRegistry
      <3>4. ~Live(Down)
        BY DEF Live, Down
      <3>5. \A m \in Names : m \in NamesOf(registry) => m \in NamesOf(registry') \/ m = th[t].name
        BY <3>3 DEF NamesOf
      <3>6. \A m \in Names : Live(unit'[m]) => m \in NamesOf(registry') \cup strays'
        BY <3>1, <3>4, <3>5, OrphanFree DEF RunInv
      <3> QED BY <2>2, <3>2, <3>6
    <2>8. CASE RefreshReads(t)
      <3> DEFINE j == [th[t] EXCEPT !.pc = Reading[th[t].pc], !.list = registry]
      <3>1. th' = [th EXCEPT ![t] = j] /\ UNCHANGED <<registry, unit, strays>>
        BY <1>0, <2>8 DEF RefreshReads
      <3>2. th[t].pc \in {"add_refresh", "rm_refresh", "im_refresh"}
        BY <2>8 DEF RefreshReads, Reading
      <3>3. /\ j.op = th[t].op /\ j.pc = "rm_install" => th[t].pc = "rm_refresh"
            /\ j.pc \in {"add_install", "rm_install", "im_install"}
        BY <2>0, <3>2 DEF Job, Reading
      <3>4. th'[t] = j /\ j.op = th[t].op
        BY <1>0, <2>0, <3>1 DEF Job
      <3>5. j.pc = "rm_install" => th[t].pc = "rm_refresh"
        BY <2>0, <3>2 DEF Job, Reading
      <3> HIDE DEF j
      <3>6. RunOK(th[t], registry, strays)'
        BY <2>0, <3>3, <3>4, <3>5 DEF RunOK
      <3> QED BY <2>3, <3>1, <3>6
    <2>9. CASE ApplyConfig(t) /\ ~Return(t)
      <3>1. PICK e \in th[t].todo :
               th' = [th EXCEPT ![t].pc = "up_check", ![t].name = e.name, ![t].todo = @ \ {e}]
        BY <2>9 DEF ApplyConfig
      <3>2. e \in registry /\ UNCHANGED <<registry, unit, strays>>
        BY <2>0, <2>9 DEF ApplyConfig, JobOK
      <3>3. th'[t].pc = "up_check" /\ th'[t].name = e.name
        BY <1>0, <3>1 DEF Job
      <3>4. RunOK(th[t], registry, strays)'
        BY <3>2, <3>3 DEF RunOK, NamesOf
      <3> QED BY <2>3, <3>2, <3>4
    <2>10. CASE ApplyCheck(t)
      <3>1. /\ th'[t].pc \in {"up_config", "up_restart"} /\ th'[t].name = th[t].name
            /\ UNCHANGED <<registry, unit, strays>> /\ th[t].name \in NamesOf(registry)
        BY <1>0, <2>0, <2>10 DEF ApplyCheck, RunOK, Job
      <3>2. RunOK(th[t], registry, strays)'
        BY <3>1 DEF RunOK
      <3> QED BY <2>3, <3>1, <3>2
    <2>11. CASE th'[t].pc \notin {"rm_stop", "rm_config", "rm_save", "rm_refresh", "rm_install",
                                  "up_check", "up_restart", "wave_restart"}
                /\ Proceed(t) /\ ~RemoveStop(t) /\ ~RemoveFromRegistry(t)
      <3>1. RunOK(th[t], registry, strays)'
        BY <2>11 DEF RunOK
      <3>2. CASE UNCHANGED unit
        <4>1. UNCHANGED strays
          BY <2>11 DEF Proceed, RefreshReads, AddWriteConfig, AddSaveRegistry, AddRefreshSudoers,
                AddStart, RemoveFiles, RemoveRefresh, ApplyService, ApplySave, ApplyConfig, ApplyCheck,
                ApplyRestart, UpstreamEnd, ImportLoad, ImportEntry, ImportSaveRegistry,
                ImportRefreshSudoers, ImportStart, WaveRestart
        <4>2. registry \subseteq registry'
          <5>1. ~RemoveFromRegistry(t)
            BY <2>11
          <5>2. CASE AddSaveRegistry(t) \/ ImportSaveRegistry(t)
            BY <2>0, <5>2 DEF AddSaveRegistry, ImportSaveRegistry, PendingOK
          <5> QED BY <2>11, <5>2
              DEF Proceed, RefreshReads, AddWriteConfig, AddRefreshSudoers,
                  AddStart, RemoveFiles, RemoveRefresh, ApplyService, ApplySave, ApplyConfig, ApplyCheck,
                  ApplyRestart, UpstreamEnd, ImportLoad, ImportEntry,
                  ImportRefreshSudoers, ImportStart, WaveRestart
        <4>3. NamesOf(registry) \subseteq NamesOf(registry')
          BY <4>2 DEF NamesOf
        <4> QED BY <2>3, <3>1, <3>2, <4>1, <4>3
      <3>3. ASSUME UNCHANGED <<registry, conf, creds, strays>>, NEW n \in Starting(t), n \in Names,
                   Moved(n, Started(n))
            PROVE  RunInv'
        <4>1. n \in NamesOf(registry)
          BY <2>0, <3>3 DEF Starting, StartOK, RunOK, NamesOf
        <4>2. \A m \in Names \ {n} : unit'[m] = unit[m]
          BY <1>0, <3>3 DEF Moved
        <4>3. \A m \in Names : Live(unit'[m]) => m \in NamesOf(registry') \cup strays'
          BY <3>3, <4>1, <4>2, OrphanFree DEF RunInv
        <4> QED BY <2>2, <3>1, <4>3
      <3> QED BY <2>11, <3>2, <3>3, ProceedMoves
    <2>12. CASE Return(t) /\ Proceed(t)
      <3>1. th'[t].pc = "idle"
        BY <2>12, ReturnLands
      <3>2. ~RemoveStop(t) /\ ~RemoveFromRegistry(t)
        BY <1>0, <2>0, <3>1 DEF RemoveStop, RemoveFromRegistry, Job
      <3> QED BY <2>11, <2>12, <3>1, <3>2
    <2>13. CASE Proceed(t) /\ ~Return(t)
      <3>1. CASE AddWriteConfig(t) \/ AddSaveRegistry(t) \/ AddRefreshSudoers(t)
        <4>1. th'[t].pc \in {"add_save", "add_refresh", "add_start"}
          BY <1>0, <2>0, <2>13, <3>1 DEF AddWriteConfig, AddSaveRegistry, AddRefreshSudoers, Job
        <4>2. ~RemoveStop(t) /\ ~RemoveFromRegistry(t)
          BY <3>1 DEF AddWriteConfig, AddSaveRegistry, AddRefreshSudoers, RemoveStop, RemoveFromRegistry
        <4> QED BY <2>11, <2>13, <4>1, <4>2
      <3>2. CASE ApplyService(t) \/ ApplySave(t) \/ ApplyRestart(t)
        <4>1. th'[t].pc \in {"up_save", "up_config"}
          BY <1>0, <2>0, <2>13, <3>2 DEF ApplyService, ApplySave, ApplyRestart, Job
        <4>2. ~RemoveStop(t) /\ ~RemoveFromRegistry(t)
          BY <3>2 DEF ApplyService, ApplySave, ApplyRestart, RemoveStop, RemoveFromRegistry
        <4> QED BY <2>11, <2>13, <4>1, <4>2
      <3>3. CASE ImportLoad(t) \/ ImportSaveRegistry(t) \/ ImportRefreshSudoers(t)
        <4>1. th'[t].pc \in {"im_entry", "im_refresh", "im_start"}
          BY <1>0, <2>0, <2>13, <3>3 DEF ImportLoad, ImportSaveRegistry, ImportRefreshSudoers, Job
        <4>2. ~RemoveStop(t) /\ ~RemoveFromRegistry(t)
          BY <3>3 DEF ImportLoad, ImportSaveRegistry, ImportRefreshSudoers, RemoveStop, RemoveFromRegistry
        <4> QED BY <2>11, <2>13, <4>1, <4>2
      <3>4. CASE ImportEntry(t)
        <4>1. th'[t].pc = "im_entry"
          BY <1>0, <2>0, <3>4 DEF ImportEntry, Job
        <4>2. ~RemoveStop(t) /\ ~RemoveFromRegistry(t)
          BY <3>4 DEF ImportEntry, RemoveStop, RemoveFromRegistry
        <4> QED BY <2>11, <2>13, <4>1, <4>2
      <3>5. CASE ImportStart(t)
        <4>1. th'[t].pc = "im_start"
          BY <1>0, <2>0, <2>13, <3>5 DEF ImportStart, Job
        <4>2. ~RemoveStop(t) /\ ~RemoveFromRegistry(t)
          BY <3>5 DEF ImportStart, RemoveStop, RemoveFromRegistry
        <4> QED BY <2>11, <2>13, <4>1, <4>2
      <3> QED BY <2>5, <2>6, <2>7, <2>8, <2>9, <2>10, <2>13, <3>1, <3>2, <3>3, <3>4, <3>5
              DEF Proceed, AddStart, RemoveRefresh, UpstreamEnd, WaveRestart
    <2> QED BY <1>5, <2>4, <2>12, <2>13
  <1> QED BY <1>1, <1>2, <1>3, <1>4, <1>5 DEF Next, Unlocked, vars, ghosts

\* An empty server runs nothing.
LEMMA RunInit == Init => RunInv
  <1> SUFFICES ASSUME Init PROVE RunInv
    OBVIOUS
  <1>1. NoOrphan
    BY DEF Init, NoOrphan, IsRunning, Down
  <1>2. \A t \in Threads : RunOK(th[t], registry, strays)
    BY DEF Init, RunOK, Idle
  <1> QED BY <1>1, <1>2 DEF RunInv

\* What runs, or would after a reboot, is registered or was left astray by one of the
\* causes that Strays names: through every interleaving, crash and failed command no
\* other unit escapes the dashboard.
THEOREM NoOrphanCorrect == Spec => []NoOrphan
  <1>1. RunInv => NoOrphan
    BY DEF RunInv
  <1>2. IInv /\ StartInv /\ RulesInv /\ RunInv /\ [Next]_vars => RunInv'
    BY RunStep
  <1> QED BY <1>1, <1>2, RunInit, ReadyInvariance, PTL DEF Spec

-----------------------------------------------------------------------------
\* What applyUpstream has been through runs the new upstream.

\* What becomes of the units alone: none runs an old file anew.
LEMMA AppliedUnits ==
    ASSUME IInv, AppliedInv, UNCHANGED <<registry, conf, creds, th>>,
           \A n \in Names : unit'[n].state = "active" =>
              unit'[n].conf = conf[n] \/ (unit[n].state = "active" /\ unit'[n].conf = unit[n].conf)
    PROVE  AppliedInv'
  <1>1. \A e \in registry : e.name \in Names
    BY Shapes
  <1>2. \A t \in Threads, e \in registry : AppliedOK(th[t], e) => AppliedOK(th[t], e)'
    BY <1>1 DEF AppliedOK
  <1> QED BY <1>2 DEF AppliedInv

\* Nobody who takes no lock makes a location run an older file.
LEMMA UnlockedFresh ==
    ASSUME IInv, NEW n \in Names,
           RestartButton(n) \/ StopButton(n) \/ Psictl(n) \/ UnitExits(n) \/ UnitRelaunched(n)
    PROVE  /\ UNCHANGED <<registry, conf, creds, th>>
           /\ \A m \in Names : Fresh(m, unit'[m])
  <1>0. TypeOK /\ unit \in [Names -> UnitState]
    BY Shapes
  <1>1. UNCHANGED <<registry, conf, creds, th>>
    BY DEF RestartButton, StopButton, Psictl, UnitExits, UnitRelaunched
  <1>2. \E v : unit' = [unit EXCEPT ![n] = v] /\ Fresh(n, v)
    <2>1. CASE Moved(n, Started(n))
      BY <1>0, <2>1, StartResult DEF Moved
    <2>2. CASE Moved(n, StopPartly(n))
      BY <1>0, <2>2, StopResult DEF Moved
    <2>3. CASE UnitExits(n) \/ UnitRelaunched(n)
      BY <1>0, <2>3, ByHandMoves
    <2> QED BY <1>0, <2>1, <2>2, <2>3, ByHandMoves
  <1>3. \A m \in Names : Fresh(m, unit[m])
    BY DEF Fresh
  <1> QED BY <1>0, <1>1, <1>2, <1>3

\* Each row that leaves applyUpstream's list has the new file, and what runs of it
\* is restarted, skipped, or about to be restarted.
LEMMA AppliedStep == IInv /\ AppliedInv /\ [Next]_vars => AppliedInv'
  <1> SUFFICES ASSUME IInv, AppliedInv, [Next]_vars PROVE AppliedInv'
    OBVIOUS
  <1>0. /\ th \in [Threads -> Job] /\ unit \in [Names -> UnitState] /\ registry \subseteq Tunnel
        /\ conf \in [Names -> Config \cup {NoConf, Torn}] /\ TypeOK
        /\ \A e \in registry : e.name \in Names
    BY Shapes
  <1>1. CASE UNCHANGED <<registry, conf, creds, th, unit>>
    BY <1>1, AppliedUnits
  <1>2. CASE PanelCrash \/ Reboot
    <2>0. PanelStops
      BY <1>2 DEF PanelCrash, Reboot
    <2>1. \A t \in Threads : th'[t].pc = "idle"
      BY <2>0 DEF PanelStops, Idle
    <2> QED BY <2>1 DEF AppliedInv
  <1>3. CASE UpdateReads \/ UpdateInstalls
    BY <1>1, <1>3 DEF UpdateReads, UpdateInstalls
  <1>4. ASSUME NEW n \in Names,
               RestartButton(n) \/ StopButton(n) \/ Psictl(n) \/ UnitExits(n) \/ UnitRelaunched(n)
        PROVE  AppliedInv'
    BY <1>4, AppliedUnits, UnlockedFresh DEF Fresh
  <1>5. ASSUME NEW t \in Threads, Begin(t) \/ Proceed(t) PROVE AppliedInv'
    <2> DEFINE Applying == {"up_config", "up_check", "up_restart"}
    <2>0. th[t] \in Job /\ JobOK(th[t], registry)
      BY <1>0 DEF IInv, JobInv
    <2>1. \A u \in Threads \ {t} : th'[u].pc = "idle"
      BY <1>5, MovesAlone
    <2>2. ASSUME th'[t].pc \in Applying /\ th'[t].up # None =>
                    /\ th'[t].up = creds'
                    /\ \A e \in registry' : e \in th'[t].todo \/ AppliedOK(th[t], e)'
          PROVE  AppliedInv'
      BY <2>1, <2>2 DEF AppliedInv
    <2>3. CASE th'[t].pc \notin Applying
      BY <2>2, <2>3
    <2>4. CASE Return(t)
      BY <2>3, <2>4, ReturnLands
    <2>5. CASE Begin(t)
      BY <2>2, <2>5, BeginLands
    <2>6. CASE ApplySave(t) /\ ~Return(t)
      <3>1. /\ th' = [th EXCEPT ![t].pc = "up_config", ![t].todo = registry]
            /\ creds' = th[t].up /\ UNCHANGED registry
        BY <2>6 DEF ApplySave
      <3>2. th'[t].todo = registry /\ th'[t].up = creds'
        BY <1>0, <2>0, <3>1 DEF Job
      <3> QED BY <2>2, <3>1, <3>2
    <2>7. CASE ApplyConfig(t) /\ ~Return(t)
      <3>1. PICK e \in th[t].todo :
               /\ WriteConfig(e)
               /\ th' = [th EXCEPT ![t].pc = "up_check", ![t].name = e.name, ![t].todo = @ \ {e}]
        BY <2>7 DEF ApplyConfig
      <3>2. th[t].pc = "up_config" /\ UNCHANGED <<registry, creds, unit>> /\ e \in registry
        BY <2>0, <2>7 DEF ApplyConfig, JobOK
      <3>3. /\ th'[t].pc = "up_check" /\ th'[t].name = e.name /\ th'[t].todo = th[t].todo \ {e}
            /\ th'[t].up = th[t].up /\ th'[t].unasked = th[t].unasked
        BY <1>0, <2>0, <3>1 DEF Job
      <3>4. e.name \in Names /\ \A x \in registry : x.name \in Names /\ (x # e => x.name # e.name)
        BY <1>0, <3>2 DEF IInv, UniqueEntries
      <3>5. conf'[e.name] = [port |-> e.port, up |-> creds] /\ \A m \in Names \ {e.name} : conf'[m] = conf[m]
        BY <1>0, <3>1, <3>4 DEF WriteConfig, ConfigOf
      <3>6. ASSUME th[t].up # None
            PROVE  /\ th[t].up = creds
                   /\ \A x \in registry : x \in th[t].todo \/ AppliedOK(th[t], x)
        BY <3>2, <3>6 DEF AppliedInv
      <3>7. ASSUME th[t].up # None PROVE AppliedOK(th[t], e)'
        BY <3>3, <3>5, <3>6, <3>7 DEF AppliedOK
      <3>8. ASSUME NEW x \in registry, x # e, AppliedOK(th[t], x) PROVE AppliedOK(th[t], x)'
        <4>1. conf'[x.name] = conf[x.name]
          BY <3>4, <3>5, <3>8
        <4>2. /\ conf[x.name] = [port |-> x.port, up |-> th[t].up]
              /\ unit[x.name].state = "active" =>
                    unit[x.name].conf = conf[x.name] \/ x.name \in th[t].unasked
          BY <3>2, <3>8 DEF AppliedOK
        <4> QED BY <3>2, <3>3, <4>1, <4>2 DEF AppliedOK
      <3> QED BY <2>2, <3>2, <3>3, <3>6, <3>7, <3>8
    <2>8. CASE ApplyCheck(t)
      <3>1. /\ th[t].pc = "up_check" /\ UNCHANGED <<registry, conf, creds, unit>>
            /\ th[t].name \in Names
        BY <2>0, <2>8 DEF ApplyCheck, JobOK
      <3>2. /\ th'[t].name = th[t].name /\ th'[t].todo = th[t].todo /\ th'[t].up = th[t].up
            /\ th[t].unasked \subseteq th'[t].unasked
            /\ \/ th'[t].pc = "up_restart"
               \/ ~IsRunning(th[t].name)
               \/ th[t].name \in th'[t].unasked
        <4>1. CASE th' = [th EXCEPT ![t].pc = "up_config", ![t].unasked = @ \cup {th[t].name}]
          BY <1>0, <2>0, <4>1 DEF Job
        <4>2. CASE th' = [th EXCEPT ![t].pc = IF IsRunning(th[t].name) THEN "up_restart" ELSE "up_config"]
          <5>1. CASE IsRunning(th[t].name)
            BY <1>0, <2>0, <4>2, <5>1 DEF Job
          <5>2. CASE ~IsRunning(th[t].name)
            BY <1>0, <2>0, <4>2, <5>2 DEF Job
          <5> QED BY <5>1, <5>2
        <4> QED BY <2>8, <4>1, <4>2 DEF ApplyCheck
      <3>3. ASSUME NEW e \in registry, AppliedOK(th[t], e) PROVE AppliedOK(th[t], e)'
        <4>1. ~IsRunning(th[t].name) /\ e.name = th[t].name => unit[e.name].state # "active"
          BY DEF IsRunning
        <4> QED BY <3>1, <3>2, <3>3, <4>1 DEF AppliedOK
      <3>4. th[t].up # None => /\ th[t].up = creds
                               /\ \A e \in registry : e \in th[t].todo \/ AppliedOK(th[t], e)
        BY <3>1 DEF AppliedInv
      <3> QED BY <2>2, <3>1, <3>2, <3>3, <3>4
    <2>9. CASE ApplyRestart(t) /\ ~Return(t)
      <3> DEFINE n == th[t].name
      <3>1. /\ th[t].pc = "up_restart" /\ UNCHANGED <<registry, conf, creds>> /\ n \in Names
            /\ unit' = [unit EXCEPT ![n] = Restarted(n)] /\ th' = [th EXCEPT ![t].pc = "up_config"]
        BY <2>0, <2>9 DEF ApplyRestart, JobOK, Succeeds
      <3>2. /\ th'[t].pc = "up_config" /\ th'[t].todo = th[t].todo /\ th'[t].up = th[t].up
            /\ th'[t].unasked = th[t].unasked
        BY <1>0, <2>0, <3>1 DEF Job
      <3>3. Restarted(n).state = "active" => Restarted(n).conf = conf[n]
        BY DEF Restarted, Launched
      <3>4. ASSUME NEW e \in registry, AppliedOK(th[t], e) PROVE AppliedOK(th[t], e)'
        <4>1. CASE e.name = n
          <5>1. unit'[e.name].state = "active" => unit'[e.name].conf = conf[e.name]
            <6> HIDE DEF n
            <6> QED BY <1>0, <3>1, <3>3, <4>1
          <5> QED BY <3>1, <3>2, <3>4, <5>1 DEF AppliedOK
        <4>2. CASE e.name # n
          <5>1. unit'[e.name] = unit[e.name]
            BY <1>0, <3>1, <4>2
          <5>2. unit[e.name].state = "active" =>
                    unit[e.name].conf = conf[e.name] \/ e.name \in th[t].unasked
            BY <3>4, <4>2 DEF AppliedOK
          <5> QED BY <3>1, <3>2, <3>4, <5>1, <5>2 DEF AppliedOK
        <4> QED BY <4>1, <4>2
      <3>5. th[t].up # None => /\ th[t].up = creds
                               /\ \A e \in registry : e \in th[t].todo \/ AppliedOK(th[t], e)
        BY <3>1 DEF AppliedInv
      <3> HIDE DEF n
      <3> QED BY <2>2, <3>1, <3>2, <3>4, <3>5
    <2>10. CASE Proceed(t) /\ ~Return(t) /\ ~ApplySave(t) /\ ~ApplyConfig(t) /\ ~ApplyCheck(t)
                /\ ~ApplyRestart(t)
      <3>1. CASE AddWriteConfig(t) \/ AddSaveRegistry(t) \/ AddRefreshSudoers(t)
        <4>1. th'[t].pc \in {"add_save", "add_refresh", "add_start"}
          BY <1>0, <2>0, <2>10, <3>1 DEF AddWriteConfig, AddSaveRegistry, AddRefreshSudoers, Job
        <4> QED BY <2>3, <4>1
      <3>2. CASE RemoveStop(t) \/ RemoveFiles(t) \/ RemoveFromRegistry(t) \/ ApplyService(t)
        <4>1. CASE RemoveStop(t) \/ RemoveFiles(t) \/ RemoveFromRegistry(t)
          <5>1. th'[t].pc \in {"rm_config", "rm_save", "rm_refresh"}
            BY <1>0, <2>0, <4>1 DEF RemoveStop, RemoveFiles, RemoveFromRegistry, Job
          <5> QED BY <2>3, <5>1
        <4>2. CASE ApplyService(t)
          <5>1. th'[t].pc = "up_save"
            BY <1>0, <2>0, <2>10, <4>2 DEF ApplyService, Job
          <5> QED BY <2>3, <5>1
        <4> QED BY <3>2, <4>1, <4>2
      <3>3. CASE ImportLoad(t) \/ ImportSaveRegistry(t) \/ ImportRefreshSudoers(t)
        <4>1. th'[t].pc \in {"im_entry", "im_refresh", "im_start"}
          BY <1>0, <2>0, <2>10, <3>3 DEF ImportLoad, ImportSaveRegistry, ImportRefreshSudoers, Job
        <4> QED BY <2>3, <4>1
      <3>4. CASE ImportEntry(t)
        BY <1>0, <2>0, <2>3, <3>4 DEF ImportEntry, Job
      <3>5. CASE ImportStart(t)
        <4>1. th'[t].pc \in {"im_start"}
          BY <1>0, <2>0, <2>10, <3>5 DEF ImportStart, Job
        <4> QED BY <2>3, <4>1
      <3>6. CASE RefreshReads(t)
        <4> DEFINE j == [th[t] EXCEPT !.pc = Reading[th[t].pc], !.list = registry]
        <4>1. th' = [th EXCEPT ![t] = j]
          BY <1>0, <3>6 DEF RefreshReads
        <4>2. th[t].pc \in {"add_refresh", "rm_refresh", "im_refresh"}
          BY <3>6 DEF RefreshReads, Reading
        <4>3. j.pc \in {"add_install", "rm_install", "im_install"} /\ th'[t] = j
          BY <1>0, <2>0, <4>1, <4>2 DEF Job, Reading
        <4> QED BY <2>3, <4>3
      <3> QED BY <2>10, <3>1, <3>2, <3>3, <3>4, <3>5, <3>6
              DEF Proceed, AddStart, RemoveRefresh, UpstreamEnd, WaveRestart
    <2> QED BY <1>5, <2>4, <2>5, <2>6, <2>7, <2>8, <2>9, <2>10
  <1> QED BY <1>1, <1>2, <1>3, <1>4, <1>5 DEF Next, Unlocked, vars

\* Once applyUpstream is through, every registered location has the new upstream in
\* its file, and what runs of them runs that file: through crashes and tries that
\* failed half way before, and through restarts and stops by hand meanwhile.
THEOREM UpstreamAppliedCorrect == Spec => []UpstreamApplied
  <1>1. AppliedInv => UpstreamApplied
    BY DEF AppliedInv, AppliedOK, UpstreamApplied
  <1>2. Init => AppliedInv
    BY DEF Init, AppliedInv, Idle
  <1>3. IInv /\ AppliedInv /\ [Next]_vars => AppliedInv'
    BY AppliedStep
  <1> QED BY <1>1, <1>2, <1>3, Invariance, PTL DEF Spec

=============================================================================
