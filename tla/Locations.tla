----------------------------- MODULE Locations -----------------------------
(***************************************************************************)
(* The locations of a regionhop server: the registry (tunnels.json), one   *)
(* config file and one psi-tunnel@<name>.service unit per location, the    *)
(* sudoers allowlist that a script generates from the registry, and        *)
(* every panel handler that changes them.  The handlers that take a.mu are *)
(* threads: each step is one write, one rename or one command, and a step  *)
(* of anybody else may come between two of them.  The restart and stop     *)
(* buttons take no lock and are one command each, and an update of the     *)
(* panel runs the script that generates the allowlist without the lock.    *)
(***************************************************************************)
EXTENDS Naturals, FiniteSets

CONSTANTS
    Names,              \* the location names in play
    PortBase, PortMax,  \* SOCKS_PORT_RANGE
    Foreign,            \* ports other programs of the host listen on
    BackupPorts,        \* ports that occur in backup files, in range or not
    MaxBackup,          \* bound: locations in one backup file
    Upstreams,          \* values of creds.UpstreamProxyURL
    Threads,            \* goroutines that may hold a.mu
    Free,               \* a.mu is not held
    None,               \* an unset field of a thread
    NoConf,             \* no config file
    Torn,               \* a config file cut short by a crash or a full disk
    Faults              \* what may go wrong or come in between: a subset of FaultKinds

FaultKinds == {"write", "save", "read", "refresh", "systemctl", "service", "crash", "reboot", "update"}

ASSUME PortsAssumption == PortBase \in Nat /\ PortMax \in Nat
ASSUME BackupAssumption == BackupPorts \subseteq Nat /\ MaxBackup \in Nat
ASSUME FaultsAssumption == Faults \subseteq FaultKinds
ASSUME SentinelAssumption ==
    /\ Free \notin Threads
    /\ None \notin Names /\ None \notin Upstreams

Ports == PortBase .. PortMax

\* One registry row. The region is left out: no property tells regions apart.
Tunnel == [name : Names, port : Ports]

\* A row of a backup file: its port need not be in range.
BackupTunnel == [name : Names, port : BackupPorts]

\* What a config file says that differs between two writes of it.
Config == [port : Ports, up : Upstreams]

ASSUME ConfigAssumption == NoConf \notin Config /\ Torn \notin Config /\ NoConf # Torn

VARIABLES
    registry,   \* tunnels.json, as a set of rows
    conf,       \* configs/<name>.json: a Config, NoConf or Torn
    creds,      \* a.creds.UpstreamProxyURL, and upstream.json which it is loaded from
    unit,       \* systemd's view of psi-tunnel@<name>: state, config it runs, enabled
    rules,      \* the registry rows the sudoers rule was last generated from
    mu,         \* the thread that holds a.mu, or Free
    th,         \* each thread's program counter and local variables
    upd,        \* the refresh script that an update runs, and the rows it has read
    behind,     \* auxiliary: the rule was left out of step, see Installs and PanelStops
    strays      \* auxiliary: names whose removal was undone or failed, see Strays

ghosts == <<behind, strays>>

vars == <<registry, conf, creds, unit, rules, mu, th, upd, ghosts>>

Idle == [op |-> "none", pc |-> "idle", name |-> None, up |-> None,
         list |-> {}, new |-> {}, todo |-> {}, backup |-> {}, unasked |-> {}]

PCs == {"idle", "add_config", "add_save", "add_refresh", "add_install", "add_start",
        "rm_stop", "rm_config", "rm_save", "rm_refresh", "rm_install",
        "up_service", "up_save", "up_config", "up_check", "up_restart",
        "im_entry", "im_refresh", "im_install", "im_start", "wave_restart"}

\* No run of the refresh script but the handlers' own.
NoScript == [pc |-> "idle", rows |-> {}]

NamesOf(rows) == {e.name : e \in rows}

Down == [state |-> "inactive", conf |-> NoConf, enabled |-> FALSE]

Init ==
    /\ registry = {}
    /\ conf = [n \in Names |-> NoConf]
    /\ creds \in Upstreams
    /\ unit = [n \in Names |-> Down]
    /\ rules = {}
    /\ mu = Free
    /\ th = [t \in Threads |-> Idle]
    /\ upd = NoScript
    /\ behind = FALSE /\ strays = {}

-----------------------------------------------------------------------------
(* The mutex, systemd and sudo.                                            *)

MutantAcquireUnlocked(t) == mu' = t

\* a.mu.Lock()
Acquire(t) == mu = Free /\ mu' = t

MutantReturnLocked(t) == UNCHANGED mu /\ th' = [th EXCEPT ![t] = Idle]

\* The handler returns: the deferred a.mu.Unlock() runs.
Return(t) == mu' = Free /\ th' = [th EXCEPT ![t] = Idle]

\* A unit whose process was just launched: it reads its config file, and exits
\* to be retried every RestartSec when the file is missing or cut short.
Launched(c, enabled) ==
    IF c \in Config THEN [state |-> "active", conf |-> c, enabled |-> enabled]
                    ELSE [state |-> "activating", conf |-> NoConf, enabled |-> enabled]

\* systemctl enable --now: starting a unit that is already running does nothing.
EnabledNow(n) ==
    IF unit[n].state = "active" THEN [unit[n] EXCEPT !.enabled = TRUE]
                                ELSE Launched(conf[n], TRUE)

MutantStopWithoutDisable(n) == [Down EXCEPT !.enabled = unit[n].enabled]

\* systemctl disable --now
DisabledNow(n) == Down

\* systemctl restart: starts a stopped unit too, and never enables one.
Restarted(n) == Launched(conf[n], unit[n].enabled)

\* sudo lets the panel control exactly the units of the generated rule.
Permitted(n) == n \in NamesOf(rules)

Succeeds(n, u) == Permitted(n) /\ unit' = [unit EXCEPT ![n] = u]

\* The command reports an error: sudo refused it, or it failed or ran into the
\* ten-second limit, having done nothing, part of it, or all of it.
Fails(n, partly) ==
    \/ ~Permitted(n) /\ UNCHANGED unit
    \/ /\ Permitted(n) /\ "systemctl" \in Faults
       /\ \E u \in partly \cup {unit[n]} : unit' = [unit EXCEPT ![n] = u]

\* A start or a stop cut short after the unit was enabled or disabled, or just later.
StartPartly(n) == {[unit[n] EXCEPT !.enabled = TRUE], EnabledNow(n)}
StopPartly(n) == {[unit[n] EXCEPT !.enabled = FALSE], DisabledNow(n)}

\* What a command leaves running astray: not registered, or soon not to be.
Strays(n, astray) ==
    strays' = IF unit'[n] = Down THEN strays \ {n} ELSE IF astray THEN strays \cup {n} ELSE strays

IsRunning(n) == unit[n].state \in {"active", "activating"}

-----------------------------------------------------------------------------
(* refresh-sudoers.sh reads the registry, builds a rule, has visudo look   *)
(* at it and only then installs it.  It takes no lock.  Handlers run it    *)
(* with a.mu held; an update runs it without, and so may install what it   *)
(* read before a handler's save after that handler's own refresh.          *)

\* The rule is now that of these rows.  It is behind when they are not the registry's.
Installs(rows) == rules' = rows /\ behind' = (rows # registry)

\* The script's run ends: it may fail without having installed anything.
InstallsOrFails(rows) ==
    \/ Installs(rows)
    \/ "refresh" \in Faults /\ Installs(rules)

\* Where a handler goes once the script it runs has read the registry.
Reading == [add_refresh |-> "add_install", rm_refresh |-> "rm_install", im_refresh |-> "im_install"]

RefreshReads(t) ==
    /\ th[t].pc \in DOMAIN Reading
    /\ th' = [th EXCEPT ![t].pc = Reading[@], ![t].list = registry]
    /\ UNCHANGED <<registry, conf, creds, unit, rules, mu, upd, ghosts>>

\* One update runs at a time.
UpdateReads ==
    /\ "update" \in Faults /\ upd.pc = "idle"
    /\ upd' = [pc |-> "install", rows |-> registry]
    /\ UNCHANGED <<registry, conf, creds, unit, rules, mu, th, ghosts>>

UpdateInstalls ==
    /\ upd.pc = "install"
    /\ InstallsOrFails(upd.rows)
    /\ upd' = NoScript
    /\ UNCHANGED <<registry, conf, creds, unit, mu, th, strays>>

-----------------------------------------------------------------------------
(* The config files.                                                       *)

\* What writeTunnelConfig puts in a location's file.
ConfigOf(e) == [port |-> e.port, up |-> creds]

WriteConfig(e) == conf' = [conf EXCEPT ![e.name] = ConfigOf(e)]

\* os.WriteFile truncates first: a failed write leaves the old file or a cut one.
WriteConfigFails(e) ==
    /\ "write" \in Faults
    /\ \E c \in {conf[e.name], Torn} : conf' = [conf EXCEPT ![e.name] = c]

-----------------------------------------------------------------------------
(* handleAdd                                                               *)

Listening(p) == p \in Foreign \/ \E n \in Names : unit[n].state = "active" /\ unit[n].conf.port = p

FreePorts(list) == {p \in Ports : ~Listening(p) /\ \A e \in list : e.port # p}

\* findFreePort returns p: the first free port of the range.
FindFreePort(list, p) == p \in FreePorts(list) /\ \A q \in FreePorts(list) : p <= q

AddBegin(t, n, p) ==
    /\ th[t].pc = "idle"
    /\ Acquire(t)
    /\ FindFreePort(registry, p)
    /\ th' = [th EXCEPT ![t] = [Idle EXCEPT !.op = "add", !.pc = "add_config", !.list = registry,
                                            !.new = {[name |-> n, port |-> p]}]]
    /\ UNCHANGED <<registry, conf, creds, unit, rules, upd, ghosts>>

MutantAddDuplicate(t, n) == \E p \in Ports : AddBegin(t, n, p)

\* Lock, load the registry, refuse a name that is taken, pick a port.
Add(t, n) == n \notin NamesOf(registry) /\ \E p \in Ports : AddBegin(t, n, p)

AddWriteConfig(t) ==
    /\ th[t].pc = "add_config"
    /\ \E e \in th[t].new :
        \/ /\ WriteConfig(e)
           /\ th' = [th EXCEPT ![t].pc = "add_save"] /\ UNCHANGED mu
        \/ WriteConfigFails(e) /\ Return(t)
    /\ UNCHANGED <<registry, creds, unit, rules, upd, ghosts>>

\* The registry is replaced by a rename: a failed save leaves the old one whole.
AddSaveRegistry(t) ==
    /\ th[t].pc = "add_save"
    /\ \/ /\ registry' = th[t].list \cup th[t].new
          /\ th' = [th EXCEPT ![t].pc = "add_refresh"] /\ UNCHANGED mu
       \/ "save" \in Faults /\ UNCHANGED registry /\ Return(t)
    /\ UNCHANGED <<conf, creds, unit, rules, upd, ghosts>>

MutantStartBeforeRefresh(t) ==
    /\ th[t].pc = "add_install"
    /\ th' = [th EXCEPT ![t].pc = "add_start"]
    /\ UNCHANGED <<registry, conf, creds, unit, rules, mu, upd, ghosts>>

\* The end of refreshSudoersRule; an error of it is only logged.
AddRefreshSudoers(t) ==
    /\ th[t].pc = "add_install"
    /\ InstallsOrFails(th[t].list)
    /\ th' = [th EXCEPT ![t].pc = "add_start"]
    /\ UNCHANGED <<registry, conf, creds, unit, mu, upd, strays>>

\* An error of the start is only logged.
AddStart(t) ==
    /\ th[t].pc = "add_start"
    /\ \E e \in th[t].new :
        \/ Succeeds(e.name, EnabledNow(e.name))
        \/ Fails(e.name, StartPartly(e.name))
    /\ Return(t)
    /\ UNCHANGED <<registry, conf, creds, rules, upd, ghosts>>

-----------------------------------------------------------------------------
(* The remove action of handleTunnelAction: every error on the way is      *)
(* ignored or logged, and the name need not be registered.                 *)

Remove(t, n) ==
    /\ th[t].pc = "idle"
    /\ Acquire(t)
    /\ th' = [th EXCEPT ![t] = [Idle EXCEPT !.op = "remove", !.pc = "rm_stop", !.name = n]]
    /\ UNCHANGED <<registry, conf, creds, unit, rules, upd, ghosts>>

MutantRemoveWithoutStop(t) ==
    /\ th[t].pc = "rm_stop"
    /\ th' = [th EXCEPT ![t].pc = "rm_config"]
    /\ UNCHANGED <<registry, conf, creds, unit, rules, mu, upd, ghosts>>

RemoveStop(t) ==
    /\ th[t].pc = "rm_stop"
    /\ LET n == th[t].name IN
        /\ Succeeds(n, DisabledNow(n)) \/ Fails(n, StopPartly(n))
        /\ Strays(n, TRUE)
    /\ th' = [th EXCEPT ![t].pc = "rm_config"]
    /\ UNCHANGED <<registry, conf, creds, rules, mu, upd, behind>>

RemoveFiles(t) ==
    /\ th[t].pc = "rm_config"
    /\ \/ conf' = [conf EXCEPT ![th[t].name] = NoConf]
       \/ "write" \in Faults /\ UNCHANGED conf
    /\ th' = [th EXCEPT ![t].pc = "rm_save"]
    /\ UNCHANGED <<registry, creds, unit, rules, mu, upd, ghosts>>

RemoveFromRegistry(t) ==
    /\ th[t].pc = "rm_save"
    /\ \/ registry' = {e \in registry : e.name # th[t].name}
       \/ Faults \cap {"read", "save"} # {} /\ UNCHANGED registry
    /\ th' = [th EXCEPT ![t].pc = "rm_refresh"]
    /\ UNCHANGED <<conf, creds, unit, rules, mu, upd, ghosts>>

MutantRemoveNoRefresh(t) ==
    /\ th[t].pc = "rm_install"
    /\ Return(t)
    /\ UNCHANGED <<registry, conf, creds, unit, rules, upd, ghosts>>

RemoveRefresh(t) ==
    /\ th[t].pc = "rm_install"
    /\ InstallsOrFails(th[t].list)
    /\ Return(t)
    /\ UNCHANGED <<registry, conf, creds, unit, upd, strays>>

-----------------------------------------------------------------------------
(* applyUpstream, called by handleUpstream and by handleBackupImport with  *)
(* a.mu held.  An error returns from both at once, with what was done left *)
(* done.                                                                   *)

Upstream(t, s) ==
    /\ th[t].pc = "idle"
    /\ Acquire(t)
    /\ th' = [th EXCEPT ![t] = [Idle EXCEPT !.op = "upstream", !.pc = "up_service", !.up = s]]
    /\ UNCHANGED <<registry, conf, creds, unit, rules, upd, ghosts>>

\* applyUpstreamService as a whole: the location state does not depend on it.
ApplyService(t) ==
    /\ th[t].pc = "up_service"
    /\ \/ th' = [th EXCEPT ![t].pc = "up_save"] /\ UNCHANGED mu
       \/ "service" \in Faults /\ Return(t)
    /\ UNCHANGED <<registry, conf, creds, unit, rules, upd, ghosts>>

\* saveUpstream, a.creds, loadRegistry.
ApplySave(t) ==
    /\ th[t].pc = "up_save"
    /\ \/ /\ creds' = th[t].up
          /\ th' = [th EXCEPT ![t].pc = "up_config", ![t].todo = registry] /\ UNCHANGED mu
       \/ "save" \in Faults /\ UNCHANGED creds /\ Return(t)
       \/ "read" \in Faults /\ creds' = th[t].up /\ Return(t)
    /\ UNCHANGED <<registry, conf, unit, rules, upd, ghosts>>

ApplyConfig(t) ==
    /\ th[t].pc = "up_config"
    /\ \E e \in th[t].todo :
        \/ /\ WriteConfig(e)
           /\ th' = [th EXCEPT ![t].pc = "up_check", ![t].name = e.name, ![t].todo = @ \ {e}]
           /\ UNCHANGED mu
        \/ WriteConfigFails(e) /\ Return(t)
    /\ UNCHANGED <<registry, creds, unit, rules, upd, ghosts>>

MutantNeverRestart(t) ==
    /\ th[t].pc = "up_check"
    /\ th' = [th EXCEPT ![t].pc = "up_config"]
    /\ UNCHANGED <<registry, conf, creds, unit, rules, mu, upd, ghosts>>

\* systemctl is-active: only a running location is restarted, and one of which
\* systemctl brings no answer ("unknown") is left as it is.
ApplyCheck(t) ==
    /\ th[t].pc = "up_check"
    /\ \/ th' = [th EXCEPT ![t].pc = IF IsRunning(th[t].name) THEN "up_restart" ELSE "up_config"]
       \/ /\ "systemctl" \in Faults
          /\ th' = [th EXCEPT ![t].pc = "up_config", ![t].unasked = @ \cup {th[t].name}]
    /\ UNCHANGED <<registry, conf, creds, unit, rules, mu, upd, ghosts>>

ApplyRestart(t) ==
    /\ th[t].pc = "up_restart"
    /\ LET n == th[t].name IN
        \/ /\ Succeeds(n, Restarted(n))
           /\ th' = [th EXCEPT ![t].pc = "up_config"] /\ UNCHANGED mu
        \/ Fails(n, {Restarted(n)}) /\ Return(t)
    /\ UNCHANGED <<registry, conf, creds, rules, upd, ghosts>>

\* Every location has been rewritten: handleUpstream is done.
UpstreamEnd(t) ==
    /\ th[t].pc = "up_config" /\ th[t].todo = {} /\ th[t].op = "upstream"
    /\ Return(t)
    /\ UNCHANGED <<registry, conf, creds, unit, rules, upd, ghosts>>

-----------------------------------------------------------------------------
(* handleBackupImport.  The pasted Psiphon config and the auto restart     *)
(* schedule it restores too are left to the modules about those.           *)

Import(t, backup, s) ==
    /\ th[t].pc = "idle"
    /\ Acquire(t)
    /\ th' = [th EXCEPT ![t] = [Idle EXCEPT !.op = "import", !.backup = backup, !.up = s,
                                    !.pc = IF s = None THEN "up_config" ELSE "up_service"]]
    /\ UNCHANGED <<registry, conf, creds, unit, rules, upd, ghosts>>

\* The upstream (if any) is applied: restore the schedule, load the registry.  A
\* schedule that is not valid is refused here, with the upstream applied already.
ImportLoad(t) ==
    /\ th[t].pc = "up_config" /\ th[t].todo = {} /\ th[t].op = "import"
    /\ \/ th' = [th EXCEPT ![t].pc = "im_entry", ![t].list = registry] /\ UNCHANGED mu
       \/ Return(t)
    /\ UNCHANGED <<registry, conf, creds, unit, rules, upd, ghosts>>

MutantImportAnyPort(e, list) == \A x \in list : x.name # e.name /\ x.port # e.port

MutantImportSamePort(e, list) == e.port \in Ports /\ \A x \in list : x.name # e.name

MutantImportOverwrites(e, list) == e.port \in Ports /\ \A x \in list : x.port # e.port

\* A backed-up location is restored unless its name or its port is taken.
Importable(e, list) == e.port \in Ports /\ \A x \in list : x.name # e.name /\ x.port # e.port

ImportEntry(t) ==
    /\ th[t].pc = "im_entry"
    /\ \E e \in th[t].backup :
        \/ /\ Importable(e, th[t].list \cup th[t].new)
           /\ \/ WriteConfig(e) /\ th' = [th EXCEPT ![t].backup = @ \ {e}, ![t].new = @ \cup {e}]
              \/ WriteConfigFails(e) /\ th' = [th EXCEPT ![t].backup = @ \ {e}]
        \/ /\ ~Importable(e, th[t].list \cup th[t].new)
           /\ th' = [th EXCEPT ![t].backup = @ \ {e}]
           /\ UNCHANGED conf
    /\ UNCHANGED <<registry, creds, unit, rules, mu, upd, ghosts>>

ImportSaveRegistry(t) ==
    /\ th[t].pc = "im_entry" /\ th[t].backup = {}
    /\ \/ /\ registry' = th[t].list \cup th[t].new
          /\ IF th[t].new = {}
             THEN Return(t)
             ELSE th' = [th EXCEPT ![t].pc = "im_refresh"] /\ UNCHANGED mu
       \/ "save" \in Faults /\ UNCHANGED registry /\ Return(t)
    /\ UNCHANGED <<conf, creds, unit, rules, upd, ghosts>>

ImportRefreshSudoers(t) ==
    /\ th[t].pc = "im_install"
    /\ InstallsOrFails(th[t].list)
    /\ th' = [th EXCEPT ![t].pc = "im_start", ![t].todo = th[t].new]
    /\ UNCHANGED <<registry, conf, creds, unit, mu, upd, strays>>

ImportStart(t) ==
    /\ th[t].pc = "im_start"
    /\ \E e \in th[t].todo :
        /\ \/ Succeeds(e.name, EnabledNow(e.name))
           \/ Fails(e.name, StartPartly(e.name))
        /\ IF th[t].todo = {e}
           THEN Return(t)
           ELSE th' = [th EXCEPT ![t].todo = @ \ {e}] /\ UNCHANGED mu
    /\ UNCHANGED <<registry, conf, creds, rules, upd, ghosts>>

-----------------------------------------------------------------------------
(* restartIfRunning, the step of an auto restart wave, with a.mu held.     *)

\* Lock, look the name up in the registry, ask systemd whether it runs.
WaveCheck(t, n) ==
    /\ th[t].pc = "idle"
    /\ Acquire(t)
    /\ n \in NamesOf(registry) /\ IsRunning(n)
    /\ th' = [th EXCEPT ![t] = [Idle EXCEPT !.op = "wave", !.pc = "wave_restart", !.name = n]]
    /\ UNCHANGED <<registry, conf, creds, unit, rules, upd, ghosts>>

WaveRestart(t) ==
    /\ th[t].pc = "wave_restart"
    /\ LET n == th[t].name IN Succeeds(n, Restarted(n)) \/ Fails(n, {Restarted(n)})
    /\ Return(t)
    /\ UNCHANGED <<registry, conf, creds, rules, upd, ghosts>>

-----------------------------------------------------------------------------
(* What takes no lock: the dashboard's restart and stop buttons, psictl,   *)
(* systemd itself, a crash of the panel, a reboot.                         *)

BeingRemoved(n) == \E t \in Threads : th[t].op = "remove" /\ th[t].name = n

\* Started by hand in the middle of the removal, or after it through a rule that is behind.
Astray(n) == BeingRemoved(n) \/ (behind /\ n \notin NamesOf(registry))

\* A restart that reports an error has happened or has changed nothing.
RestartButton(n) ==
    /\ Succeeds(n, Restarted(n))
    /\ Strays(n, Astray(n))
    /\ UNCHANGED <<registry, conf, creds, rules, mu, th, upd, behind>>

StopButton(n) ==
    /\ \/ Succeeds(n, DisabledNow(n))
       \/ Fails(n, StopPartly(n))
    /\ Strays(n, FALSE)
    /\ UNCHANGED <<registry, conf, creds, rules, mu, th, upd, behind>>

\* psictl start|restart|stop <location>, as root: sudo's rule does not matter.
Psictl(n) ==
    /\ n \in NamesOf(registry)
    /\ \E u \in {EnabledNow(n), Restarted(n), DisabledNow(n)}
              \cup (IF "systemctl" \in Faults THEN StartPartly(n) \cup StopPartly(n) ELSE {}) :
          unit' = [unit EXCEPT ![n] = u]
    /\ Strays(n, Astray(n))
    /\ UNCHANGED <<registry, conf, creds, rules, mu, th, upd, behind>>

\* ConsoleClient exits; Restart=always puts the unit in auto-restart.
UnitExits(n) ==
    /\ unit[n].state = "active"
    /\ unit' = [unit EXCEPT ![n].state = "activating", ![n].conf = NoConf]
    /\ UNCHANGED <<registry, conf, creds, rules, mu, th, upd, ghosts>>

\* RestartSec later systemd launches it again.
UnitRelaunched(n) ==
    /\ unit[n].state = "activating"
    /\ unit' = [unit EXCEPT ![n] = Launched(conf[n], unit[n].enabled)]
    /\ UNCHANGED <<registry, conf, creds, rules, mu, th, upd, ghosts>>

\* The config file a thread is about to write, if any.
InWrite(t) ==
    CASE th[t].pc = "add_config" -> NamesOf(th[t].new)
      [] th[t].pc = "up_config"  -> NamesOf(th[t].todo)
      [] th[t].pc = "im_entry"   -> NamesOf({e \in th[t].backup : Importable(e, th[t].list \cup th[t].new)})
      [] OTHER                   -> {}

\* Every handler stops where it is, perhaps in the middle of writing a file.
PanelStops ==
    /\ mu' = Free
    /\ th' = [t \in Threads |-> Idle]
    /\ behind' = (rules # registry) /\ UNCHANGED strays
    /\ \/ UNCHANGED conf
       \/ \E t \in Threads : \E n \in InWrite(t) : conf' = [conf EXCEPT ![n] = Torn]

PanelCrash ==
    /\ "crash" \in Faults
    /\ PanelStops
    /\ UNCHANGED <<registry, creds, unit, rules, upd>>

\* systemd starts the enabled units, and only those.
Reboot ==
    /\ "reboot" \in Faults
    /\ PanelStops
    /\ unit' = [n \in Names |-> IF unit[n].enabled THEN Launched(conf'[n], TRUE) ELSE Down]
    /\ upd' = NoScript
    /\ UNCHANGED <<registry, creds, rules>>

-----------------------------------------------------------------------------
Backups == {b \in SUBSET BackupTunnel : Cardinality(b) <= MaxBackup}

\* A request that takes a.mu arrives.
Begin(t) ==
    \/ \E n \in Names : Add(t, n) \/ Remove(t, n) \/ WaveCheck(t, n)
    \/ \E s \in Upstreams : Upstream(t, s)
    \/ \E b \in Backups, s \in Upstreams \cup {None} : Import(t, b, s)

\* The next step of a handler that holds a.mu.
Proceed(t) ==
    \/ RefreshReads(t)
    \/ AddWriteConfig(t) \/ AddSaveRegistry(t) \/ AddRefreshSudoers(t) \/ AddStart(t)
    \/ RemoveStop(t) \/ RemoveFiles(t) \/ RemoveFromRegistry(t) \/ RemoveRefresh(t)
    \/ ApplyService(t) \/ ApplySave(t) \/ ApplyConfig(t) \/ ApplyCheck(t) \/ ApplyRestart(t)
    \/ UpstreamEnd(t)
    \/ ImportLoad(t) \/ ImportEntry(t) \/ ImportSaveRegistry(t)
    \/ ImportRefreshSudoers(t) \/ ImportStart(t)
    \/ WaveRestart(t)

Unlocked ==
    \/ \E n \in Names : RestartButton(n) \/ StopButton(n) \/ Psictl(n)
                        \/ UnitExits(n) \/ UnitRelaunched(n)
    \/ UpdateReads \/ UpdateInstalls
    \/ PanelCrash
    \/ Reboot

Next ==
    \/ \E t \in Threads : Begin(t) \/ Proceed(t)
    \/ Unlocked

Spec == Init /\ [][Next]_vars

\* Every file operation ends, and every command is killed after ten seconds.
FairSpec == Spec /\ \A t \in Threads : WF_vars(Proceed(t))

-----------------------------------------------------------------------------
(* Properties.                                                             *)

Job == [op : {"none", "add", "remove", "upstream", "import", "wave"}, pc : PCs,
        name : Names \cup {None}, up : Upstreams \cup {None},
        list : SUBSET Tunnel, new : SUBSET Tunnel, todo : SUBSET Tunnel,
        backup : SUBSET BackupTunnel, unasked : SUBSET Names]

Script == [pc : {"idle", "install"}, rows : SUBSET Tunnel]

UnitState == [state : {"inactive", "activating", "active"},
              conf : Config \cup {NoConf}, enabled : BOOLEAN]

\* The shape of every variable; that a registered port lies in the range is part of it.
TypeOK ==
    /\ registry \subseteq Tunnel
    /\ conf \in [Names -> Config \cup {NoConf, Torn}]
    /\ creds \in Upstreams
    /\ unit \in [Names -> UnitState]
    /\ rules \subseteq Tunnel
    /\ mu \in Threads \cup {Free}
    /\ th \in [Threads -> Job]
    /\ upd \in Script
    /\ behind \in BOOLEAN /\ strays \subseteq Names

\* No two registered locations share a name or a SOCKS port (part of KeepsRegistry).
UniqueEntries ==
    \A a, b \in registry : a.name = b.name \/ a.port = b.port => a = b

Reg == INSTANCE Registry

\* Whatever handlers run at once and wherever one of them fails or is killed, the
\* rest of the system sees tunnels.json change in two ways only: rows join it that
\* clash with none, or all rows of one name leave it (main.go handleAdd and
\* handleTunnelAction, backup.go handleBackupImport).
KeepsRegistry == Reg!Spec

\* A registered location only ever leaves the registry by its own removal: no
\* handler saves a list it read before another one's save (a.mu).
NoLostLocation ==
    [][\A e \in registry \ registry' :
          \E t \in Threads : th[t].pc = "rm_save" /\ th[t].name = e.name]_vars

\* Adding and importing locations never touches the config file of one that is
\* registered already, not even when the handler is killed in mid-write.
ExistingUntouched ==
    [][\A t \in Threads :
          th[t].pc \in {"add_config", "im_entry"} /\ th'[t] # th[t] =>
             \A e \in registry : conf'[e.name] = conf[e.name]]_vars

\* A registered location's config file, when it can be read at all, names the
\* port the registry (and 3x-ui, and the firewall) has for the location.
ConfPortAgrees ==
    \A e \in registry : conf[e.name] \in Config => conf[e.name].port = e.port

\* The locations that a handler's next step starts or restarts.
Starting(t) ==
    CASE th[t].pc = "add_start" -> NamesOf(th[t].new)
      [] th[t].pc = "im_start" -> NamesOf(th[t].todo)
      [] th[t].pc \in {"up_restart", "wave_restart"} -> {th[t].name}
      [] OTHER -> {}

\* What handleAdd or an import is about to start is ready: registered, its file
\* written with its port and the current upstream, and its unit in the rule (the
\* comment above refreshSudoersRule), unless a run of the refresh script failed or
\* an update's run installed an old reading after the handler's own.
StartsReady ==
    \A t \in Threads : th[t].pc \in {"add_start", "im_start"} =>
        \A e \in IF th[t].pc = "add_start" THEN th[t].new ELSE th[t].todo :
            /\ e \in registry /\ conf[e.name] = ConfigOf(e)
            /\ Permitted(e.name) \/ behind

\* Whatever runs, or would run after a reboot, is registered, save where the
\* removal's stop failed or somebody started the unit again by hand: while it was
\* being removed, or later through a rule that is behind.  No handler, wave, import
\* or restart of systemd's own leaves a unit that the dashboard does not show.
NoOrphan ==
    \A n \in Names : IsRunning(n) \/ unit[n].enabled => n \in NamesOf(registry) \cup strays

\* Once applyUpstream has gone through its list, every location's file holds its
\* port and the new upstream and what runs, runs that: nothing still goes through
\* the upstream that was replaced, whatever an earlier try left half done and
\* whoever restarted locations meanwhile.  (One of which systemctl brought no
\* answer is skipped.)
UpstreamApplied ==
    \A t \in Threads : th[t].pc = "up_config" /\ th[t].todo = {} /\ th[t].up # None =>
        \A e \in registry :
            /\ conf[e.name] = [port |-> e.port, up |-> th[t].up]
            /\ unit[e.name].state = "active" =>
                  unit[e.name].conf = conf[e.name] \/ e.name \in th[t].unasked

\* With no handler at work the sudoers rule lists exactly the registered locations,
\* unless a run of the script failed, a handler was killed before its own, or an
\* update's run was overtaken by a handler's (refresh-sudoers.sh).
RulesInStep == mu = Free => rules = registry \/ behind

\* A stop disables what it stops, in one go or not at all, and what is stopped and
\* disabled stays so until a command starts that very location: no exit, retry,
\* reboot, change of the upstream or restart of the panel undoes a stop.
StopSurvivesReboot ==
    [][\A n \in Names :
          /\ unit'[n].state = "inactive" /\ unit'[n].enabled => unit[n].state = "inactive"
          /\ unit[n] = Down /\ unit'[n] # Down =>
                RestartButton(n) \/ Psictl(n) \/ \E t \in Threads : n \in Starting(t) /\ th'[t] # th[t]]_vars

\* Every handler that takes a.mu lets go of it, through its loops and early
\* returns: the panel never hangs on the mutex.
HandlersFinish == \A t \in Threads : mu = t ~> mu = Free

-----------------------------------------------------------------------------
(* The inductive invariant behind the safety properties (Locations_proof). *)

\* What the fields of a job hold at each point of its handler, given the registry.
JobOK(j, rows) ==
    /\ j.pc \in {"rm_stop", "rm_config", "rm_save", "rm_refresh",
                 "up_check", "up_restart", "wave_restart"} => j.name \in Names
    /\ j.pc \in {"up_service", "up_save"} => j.up \in Upstreams
    /\ j.pc \in {"up_config", "up_check", "up_restart"} => j.todo \subseteq rows
    /\ j.pc \in {"up_service", "up_save", "up_config", "up_check", "up_restart"} => j.new = {}

\* The rows a handler is about to add clash with nothing, their files agree with
\* them, and the list it read is still the registry when it saves it.
PendingOK(j, rows, files) ==
    j.pc \in {"add_config", "add_save", "im_entry"} =>
        /\ j.list = rows
        /\ \A a \in j.new : \A b \in rows : a.name # b.name /\ a.port # b.port
        /\ \A a, b \in j.new : a.name = b.name \/ a.port = b.port => a = b
        /\ j.pc = "add_config" => \A a, b \in j.new : a = b
        /\ j.pc # "add_config" =>
              \A e \in j.new : files[e.name] \in Config => files[e.name].port = e.port

JobInv == \A t \in Threads : JobOK(th[t], registry)

\* Only the thread that holds a.mu is inside a handler.
LockInv == \A t \in Threads : th[t].pc # "idle" => mu = t

PendingInv == \A t \in Threads : PendingOK(th[t], registry, conf)

IInv == TypeOK /\ JobInv /\ LockInv /\ PendingInv /\ UniqueEntries /\ ConfPortAgrees

\* autorestart.go: "Stopped locations stay stopped: someone stopped them on purpose."
WaveLeavesStopped ==
    [][\A t \in Threads : WaveRestart(t) => unit[th[t].name].state # "inactive"]_vars

-----------------------------------------------------------------------------
(* The invariants behind the other properties.                            *)

\* A handler's new locations have their files, up to the starts.
WrittenOK(j, files, up) ==
    /\ j.pc \in {"add_save", "add_refresh", "add_install", "add_start",
                 "im_entry", "im_refresh", "im_install"} =>
          \A e \in j.new : files[e.name] = [port |-> e.port, up |-> up]
    /\ j.pc = "im_start" => \A e \in j.todo : files[e.name] = [port |-> e.port, up |-> up]

\* From the save on they are registered, and from the refresh on the rule lists them.
StartOK(j, rows) ==
    /\ j.pc \in {"add_refresh", "add_install", "add_start", "im_refresh", "im_install"} =>
          j.new \subseteq rows
    /\ j.pc = "im_start" => j.todo \subseteq rows
    /\ j.pc \in {"add_install", "rm_install", "im_install"} => j.list = rows

StartInv ==
    \A t \in Threads : WrittenOK(th[t], conf, creds) /\ StartOK(th[t], registry)

\* The rule lags the registry only between a save and the end of the refresh after
\* it, and lists a row that is gone only for the handler that just removed it.
RulesInv ==
    /\ (\A t \in Threads : th[t].pc \notin {"add_refresh", "add_install", "rm_refresh", "rm_install",
                                           "im_refresh", "im_install"}) => rules = registry \/ behind
    /\ \A e \in rules : \/ e \in registry \/ behind
                        \/ \E t \in Threads : th[t].pc \in {"rm_refresh", "rm_install"} /\ th[t].name = e.name

\* A removal has stopped its unit before anything else; what applyUpstream and a
\* wave restart is registered.
RunOK(j, rows, astray) ==
    /\ j.pc \in {"rm_stop", "rm_config", "rm_save", "rm_refresh", "rm_install"} => j.op = "remove"
    /\ j.pc \in {"rm_config", "rm_save"} => unit[j.name] = Down \/ j.name \in astray
    /\ j.pc \in {"up_check", "up_restart", "wave_restart"} => j.name \in NamesOf(rows)

RunInv == NoOrphan /\ \A t \in Threads : RunOK(th[t], registry, strays)

\* applyUpstream: a row that is not on the list any more has its file, and what runs
\* of it runs that file, was skipped, or is about to be restarted.
AppliedOK(j, e) ==
    /\ conf[e.name] = [port |-> e.port, up |-> j.up]
    /\ unit[e.name].state = "active" =>
          \/ unit[e.name].conf = conf[e.name] \/ e.name \in j.unasked
          \/ j.pc \in {"up_check", "up_restart"} /\ j.name = e.name

AppliedInv ==
    \A t \in Threads : th[t].pc \in {"up_config", "up_check", "up_restart"} /\ th[t].up # None =>
        /\ th[t].up = creds
        /\ \A e \in registry : e \in th[t].todo \/ AppliedOK(th[t], e)

=============================================================================
