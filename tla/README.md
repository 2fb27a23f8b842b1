# regionhop in TLA+

regionhop runs one Psiphon tunnel per exit region on a Linux server, each behind
a local SOCKS port, and a web panel that manages them. The panel is one Go
process (`src/panel`): HTTP handlers, a few background goroutines, JSON files for
state, and `systemctl`, `sudo` and `journalctl` for everything that touches the
tunnels. This directory models the parts of it that are hard to get right: what
happens when handlers, buttons, waves, ticks, root scripts, crashes and failing
files meet in an order nobody tried.

`PROJECT.json` is the index: components, runs, mutants, the source lines behind
every definition, hazards, findings and theorems.

## 1. The system

| Component | State | Operations | Meets |
|---|---|---|---|
| Location manager (`main.go`, `model.go`, `config.go`, `systemctl.go`) | `tunnels.json`, `configs/<name>.json`, systemd's units | add, remove, start/stop/restart, boot | everything: `a.mu` serialises the writers, the buttons take no lock |
| Sudoers rule and firewall (`install.sh`: refresh-sudoers.sh, sync-firewall.sh) | the rule and the chain, generated from the registry | refresh | called by add, remove, import, update |
| Upstream (`upstream.go`, regionhop-upstream.service) | `a.creds`, `upstream.json`, Xray's config and service | applyUpstream | rewrites every config file and restarts what runs; update restarts the service on its own |
| Upstream test (`upstream_check.go`) | `upstreamTestMu`, a throwaway Xray | test | beside everything else |
| Backup (`backup.go`) | none of its own | export, import | applies upstream, schedule and locations in one handler |
| Auto restart schedule (`autorestart.go`) | `auto-restart.json`, the ticker's channel | tick, settings form | starts waves; the import writes the same file |
| Auto restart wave and quality gates (`autorestart.go`, `autorestart_gates.go`) | a goroutine's locals | restart, probe, retry | takes `a.mu` around one restart at a time |
| Probes (`probe.go`) | none | latency, exit address, Google | go through a location's SOCKS port |
| 3x-ui (`xui.go`, `xui_handlers.go`) | `xui.json`, the outbounds in 3x-ui | sync, form, button | read after every registry change; 3x-ui's admin edits the same config |
| Dashboard status (`main.go` buildRows, `systemctl.go`) | three caches | poll, invalidate | computed from registry, `systemctl show`, journal |
| HTTPS (`ssl.go`, install-cert.sh) | `ssl.json`, the copied pair, `sslEnabled`, `sslCert` | form, 12-hourly refresh, startup | certificates are renewed by others |
| Sessions and login throttle (`auth.go`) | failures per address, signed cookies in browsers | login, logout, expiry | `set_panel_password` changes password and secret; which of http and https is served |
| Update checker, pages, installer, release workflow | little or none | | |

What makes each of them correct, and what is hard about it:

- **Location manager.** Names and ports are unique; a location leaves the registry
  by its own removal only; a config file says the registered port; what runs is
  registered and runs its file. Hard: five handlers load, change and save one
  list over several steps and external commands, any of which fails or dies; sudo
  refuses commands on names that the generated rule does not list yet; the buttons
  and psictl ask nobody.
- **Upstream.** After it, service, settings and locations say the same, and no location
  runs through the old upstream. Hard: it stops in the middle on the first error, a
  missing file stands for "no service", and update restarts the service without a lock.
- **Upstream test.** One throwaway process at a time, and none left behind. Hard: it ends
  in four places, with a process that may die by itself.
- **Login.** A changed password signs everybody out; a lockout lasts its time and ends.
  Hard: two lines of a file changed one after the other and read at a restart; a map
  that is trimmed by other addresses' failures; a browser with rules of its own.
- **Schedule.** One wave per interval, no wave outside the chosen locations, no lost
  edit. Hard: late ticks that carry their own time, a countdown that some edits
  restart and others keep, a file that cannot be read and counts as "no schedule".
- **Wave.** A bounded number of restarts, nothing started that was removed, no
  verdict from old evidence. Hard: it lasts hours and everything moves meanwhile.
- **3x-ui.** Exactly the locations' outbounds, nobody else's touched. Hard: a remote
  read-modify-write, syncs that overtake one another.
- **Status.** The poll after an action shows its effect. Hard: three caches with
  their own lifetimes, filled by steps that lock and unlock.
- **HTTPS.** On as saved, never without a certificate, renewals reach the listener.
  Hard: a slow refresh against a form, a key and a certificate moved one by one.

`PROJECT.json` lists the hazards at their lines, with the property that answers to
each, or why none does.

## 2. Modules

Every module is translated from the code; names are the code's where TLA+ lets them
be. A handler is split where another actor can see, or undo, what it did so far:
at each file it writes, each command it runs, each lock it takes. What happens
between two such points is one action.

**Locations** (`main.go`, `model.go`, `config.go`, `systemctl.go`, `upstream.go`,
`backup.go`, refresh-sudoers.sh). `registry`, `conf`, `creds`, `unit` (systemd's view:
state, the config the process runs, enabled), `rules` (the rows the sudoers rule was
generated from), `mu` (`a.mu`), `th` (a program counter and locals per handler).
`Add...` is handleAdd, `Remove...` the remove action, `Upstream`/`Apply...` are
applyUpstream for both its callers, `Import...` is handleBackupImport,
`WaveCheck`/`WaveRestart` are restartIfRunning, the step of a wave; `RestartButton`,
`StopButton`, `Psictl`, `UnitExits`, `UnitRelaunched`, `PanelStops`, `PanelCrash`, `Reboot`
take no lock. refresh-sudoers.sh is two steps, since it reads the registry
(`install.sh:166`) before it builds, checks and installs a rule (`install.sh:199`):
`RefreshReads` and then `AddRefreshSudoers`, `RemoveRefresh` or `ImportRefreshSudoers` for a
handler, with `a.mu` held, `UpdateReads` and `UpdateInstalls` for an update, without. (A
handler waits for its script even beyond the time limit, because the script keeps the
output pipe open: no run of a handler's is left behind.) Faults are a parameter: the set
`Faults` says which of write, save, read, refresh, systemctl, service, crash, reboot and
update may happen. A failed write may leave a cut file; a failed command may have done
nothing, all of it, or half: `enable --now` enabled without starting, `disable --now`
disabled without stopping; `is-active` may bring no answer. Three auxiliaries name what the
code leaves behind, so that the properties can except exactly that: `behind`, the rule that
was installed last is not the registry's, or a handler died before its refresh; `strays`,
units that a removal failed to stop, or that somebody started by hand during their removal
or, through a rule that is behind, after it; `unasked`, in a handler's locals, what
applyUpstream skipped because systemctl did not answer.

**Registry** is abstract: tunnels.json as everything beside its writers may see it. Rows
that clash with none join it (`Add` one, `Import` several), all rows of one name leave it
(`Remove`), and nothing else happens. Locations instantiates it as `Reg`, with the identity
as refinement mapping, and implements it; Xui takes its registry changes from it.

**RestartBudget** is abstract: a wave restarts only locations of the set it started
with, none more than `tries` times, none after it is done with it, and ends.

**Wave** (`autorestart.go` restartAllRunning, restartUntilGood, restartIfRunning;
`autorestart_gates.go`; `probe.go` as its oracle). `w` is the goroutine's program
counter and locals; `exit` is where each location's traffic leaves; the admin adds,
removes, stops, starts and tunnels reconnect in between. The restart button is pressed at
any time, even on a location that is just being removed (`StartAgain`); the stop of a
removal may fail, and so may its last save, which leaves the row (`RemoveStop`, `RemoveEnd`).
`CheckRunning` may always find the location stopped, since the registry may be unreadable and
systemctl without an answer. `spent` is auxiliary.
`Budget` instantiates RestartBudget with the refinement mapping `left <- NamesOf(w.left)`,
`tries <- w.s.tries`.

**Schedule** (`autorestart.go` autoRestartLoop, autoRestartTick, autoRestartStep,
validateAutoRestart, handleAutoRestart; the schedule of an import). The ticker's
channel of capacity one, the goroutine (`tk`), the handlers (`th`), the file, the
clock. `armed`, `waves` and `chosen` are auxiliary: since when the schedule means what
it means, how many waves it called for since, what the admin last chose; they are
reset while it is off.

**Xui** (`xui.go`, `xui_handlers.go`). `SyncBegin` reads settings and takes `xuiMu`,
`SyncList` the registry, `SyncGet` 3x-ui's config, `SyncPost` writes it, `SyncRecord`
saves the result. `Merged` is mergeOutbounds: ours are corrected in place or dropped,
missing ones appended in any order (the code ranges over a map). `owes` says a
sync that the code is about to start is still to be started; `untold` and `edited` are
auxiliary: an import told nobody; 3x-ui's admin, who saves at any time, has done so since a
sync read.
`RegistrySaved` and `Imported` are steps of Registry. What mergeOutbounds keeps is
`Picked`, the items at some positions in their order, by rank rather than by recursion,
so that it can be proved about.

**Status** (`main.go` buildRows and computeRows, `systemctl.go` loadUnitStates,
tunnelRunInfo and the invalidations). `rows`, `units` and `runCache` are the three
caches with ages; `comp` is the one computation that holds `rowsMu`; `journal` is the
newest notice of each kind in the 200 lines that are read, of this or an earlier run; each
of the three reads of `RunLogs` may fail on its own.

**Ssl** (`ssl.go`, install-cert.sh in `install.sh`). `Asked`/`FormBegins`/`FormRefused`
are the form, `RefreshBegins` the 12-hourly refresh, `ReadKey`, `ReadCert`, `MoveKey`,
`MoveCert` the root script, `Load` loadSSLCert, `Save` the end of either;
`PanelRestarts` is a crash with startSSL. `src` holds what the source files hold.
`unrestored` is auxiliary: it was on, and startup could not load the pair.

**Upstream** (`upstream.go`, `upstream_check.go`, the service's unit file, `install_units`
in `install.sh`). `h` is the handler inside a.mu: `Stat`, `Disable`, `Remove` on the way of a
mode without link, `Tried` or `Rejected`, `Rename`, `Enable`, `RestartXray` on the way of a
link, then `Save` and, location by location, `WriteLoc`, `CheckLoc`, `RestartLoc`, `Done`.
Each of them may fail, with or without having taken effect. `unit` is systemd's view of
the service; `XrayExits` and `XrayRelaunched` are its `Restart=on-failure` (a clean exit, `quit`,
is not followed by another start);
`UpdateAsks` and `UpdateRestarts` are the two commands of update. `test`, `testMu` and
`proc` are the Test button with its lock and its process. `whole` and `stray` are
auxiliary: no change was left half-done; update started a disabled service.

**Access** (`auth.go`, handleLogin and handleLogout, `set_panel_password`, the scheme switch of
`ssl.go`). `failures` is the throttle's map, with times kept as what is left or what
has passed; `login` are the requests whose password is being compared, between
the throttle's question and its record; `jar` is what each browser holds; `env` and
`panel` are `panel.env` and what the running panel read of it; `HashSet`, `SecretSet` and
`ScriptDies` are the script. `half` is auxiliary: the script died between its two lines.
`Stores` is not the repository's code but a browser's: RFC 6265bis lets no plain
connection replace a Secure cookie.

`MC<Module>` extend these for TLC; `Locations_proof`, `Wave_proof`, `Schedule_proof`,
`Xui_proof`, `Status_proof`, `Ssl_proof`, `Upstream_proof` and `Access_proof` hold the
theorems. Operators named `Mutant...` are faulty variants of the
definition that follows them; a property counts only if TLC refutes it with one of
them in place (`PROJECT.json`, "mutants").

### What composes with what

Locations and Wave overlap on purpose in restartIfRunning: Locations has it as a
step among all other writers of the registry, with systemd, sudo and the files in
detail; Wave has the whole loop around it, with units reduced to "runs or not" and
a registry whose add is one step. Schedule has "a wave is running" as one state, and
relies on `Wave!WaveEnds` for it to end. Xui reacts to registry changes without their
handlers: its changes are the steps of Registry, and Locations is proved to make no
others (`KeepsRegistryCorrect`), so that what holds in Xui holds whatever the five handlers
do to each other. Status takes the units and the registry's names as given. Upstream is
the inside of Locations' step `ApplyService`, together with the settings and the
locations that follow it; Locations has the same steps from `Save` on, and adds what other
handlers do to the registry between two changes. Access takes from Ssl only whether
https is on.

## 3. Runs

Distinct states; the times are of one machine with two workers.

| Run | Instance | States | Shows |
|---|---|---|---|
| `locations_units` | 1 name, 2 threads, ports 1..2 with one taken by another program, backups of at most 2 rows with ports in and out of range, 2 upstreams, all nine faults | 105,964, 45 s | Whatever fails or races: what an add or import starts is ready, only registered locations run, applyUpstream leaves nothing on the old upstream, the rule is the registry's, a stop lasts, `a.mu` is always released, but for what each property names. |
| `locations_faults` | 2 names, 2 threads, ports 1..3 with one taken, backups of at most 2 rows, 1 upstream, the faults that reach files and registry (write, save, read, service, crash), names and threads symmetric | 895,702, 100 s | The registry changes as Registry says, so with unique names and ports; files say the registered port; no location is lost, no registered location's file touched by an add or import. |
| `wave` | 2 names, 2 ports, 2 exits, no gates or all three, every location, up to 2 tries | 572,544, 150 s | A wave implements RestartBudget, ends, restarts nothing that was removed or is being removed, never passes a location by an address from before its restart. |
| `schedule` | 2 names, 1 handler and the ticker, intervals of 2 and 3 minutes, 5 minutes, unreadable file, failed save, panel restart | 135,788, 80 s | k waves take k intervals, a tick loses no edit, a schedule does not widen, every tick is received. |
| `xui` | 2 names, 2 ports, 1 outbound of others, 2 threads, unreachable 3x-ui, unreadable registry, failed save, panel restart | 543,108, 31 s | When all is quiet 3x-ui is in sync or an error is recorded; others' outbounds and the default route are written back as they were read. |
| `status` | 1 name, 1 region, lifetimes of one tick, 2 runs, every read may fail | 555,507, 107 s | Shared rows list what is registered, a run's region stays known, nothing that is down is shown as up for ever. |
| `ssl` | 2 pairs of paths, 1 admin and the refresh, 2 certificates, 2 failures | 100,778, 11 s | HTTPS is on as saved and never without a certificate, the refresh undoes no edit, a renewed certificate is served in the end. |
| `upstream` | no upstream, 1 proxy and 2 links, 1 location, 2 test requests, 2 failures, panel restarts, reboots, updates | 1,947,792, 55 s | A change that reported success leaves service, settings and locations in step, whatever was left half-done before; a missing Xray config means no service; no test leaves an Xray behind. |
| `access` | 2 addresses, one of which knows passwords, 2 requests at once, limit 2, lockout 2 ticks, stale after 2, trimmed beyond 1 address, 1 password change | 425,960, 69 s | A completed password change signs everybody out, no lockout is lifted early, every lockout ends. |

Three runs find a disagreement between the code and what it, or the documentation, says:

| Run | Property | What TLC finds |
|---|---|---|
| `wave_restarts_stopped` | `WaveLeavesStopped` | The stop button lands between the wave's `is-active` and its `restart`; the stopped location runs again, although "stopped locations stay stopped". applyUpstream has the same gap. |
| `status_stale_poll` | `FollowUpFresh` | The poll after a stop is computed from a `systemctl show` answer that is cached for three seconds and not invalidated. |
| `login_after_ssl_off` | `LoginSticks` | After https is switched off, a browser that logged in over https keeps its Secure cookie, drops the one that a login over http sets, and is asked to log in again, for up to twelve hours. |

Six more findings are in `PROJECT.json` without a run, because the lines show them
without a search: an update's run of refresh-sudoers.sh may install a rule that is older
than the registry (`install.sh:142`); a sync overwrites what 3x-ui's admin saved between
its read and its write (`xui.go:226`); an import accepts a port that another program listens on
(`backup.go:179`); a location removed and added again in mid-wave is judged through its
old port (`autorestart.go:184`); an import never syncs 3x-ui (`backup.go:203`); update may
start the upstream's service right after a change has disabled it, and nothing stops
it then (`install.sh:484`).

Four observations are not findings, because nothing in the repository
promises the opposite in so many words, or because the model takes them as an
assumption: a run's exit region can be read from the previous run's journal lines
(`systemctl.go:277`, `302`); after a startup that could not load the pair no refresh
turns HTTPS on again (`ssl.go:128`; `EnabledAsSaved` excepts exactly that state);
the 3x-ui settings form reads `xui.json` outside `xuiMu` (`xui_handlers.go:30` against
`xui.go:38`); the Xray port is said to lie outside the tunnels' range
(`upstream.go:26`), which is configurable.

### What the properties except, and why

- `NoOrphan` excepts `strays`: the restart button takes no lock and may start what a removal
  has just stopped, the removal ignores a stop that failed, and a rule that is behind lets
  the button start what is gone. Every other unit that runs is registered, at every
  moment and not only between handlers.
- `StartsReady` and `RulesInStep` except a rule that is `behind`, after a failed refresh, a crash
  before one, or an update's run that was overtaken. `UpstreamApplied` excepts `unasked`.
- `OthersUntouched` speaks of what the sync read where 3x-ui's admin has `edited` since: the code
  cannot notice, and that edit is lost.
- `InStep` holds after a change that reported success (`whole`). A change that failed, died
  with the panel, or found `systemctl` without an answer (`missed`) leaves a mixture, with an
  error shown in the first case only; the next complete change mends it from any of
  these states, which is what the run shows.
- `ShortcutSound` names `stray`, the restart of update that comes after a disable.
- `SignedOut` excepts a script that died between the hash and the secret (`half`), until a
  later change is complete.
- `SyncedOrSaid` excepts what an import has left `untold`; `EnabledAsSaved` what startup left
  `unrestored`.

### Bounds, and why they are enough

Two names and two threads: the hazards of the registry are between two handlers over
one name, or over two that compete for a port; three handlers cannot be inside `a.mu`
together, and all others take no lock. Three ports with one taken by somebody else make
the range run out. A backup of two rows has the clash inside the backup; in
`locations_units` its ports include one out of range. That run has one name, because what it
checks is said of one location at a time (its unit, file and line of the rule) and the
handlers and scripts of two locations meet in the registry only, which `locations_faults`
has; in return it has every fault, the update's script and two upstreams. The faults that
`locations_faults` leaves out touch units and the rule, which its properties do not mention;
the theorems have all faults and any number of names for both. In `wave` two tries are
the first with a retry; two exits the first that can differ; a wave without gates and one
with all of them take every branch of the checks, and which locations are selected is
Schedule's subject, so that the wave's set is the whole registry. Five minutes
with intervals of two and three see a second wave, a late tick and a changed
interval. Two certificates are the first renewal; two failures cover a failure and
the crash after it. Two links and a proxy make every kind of change: on, off, link to
link, past Xray; one location is enough for upstream's loop, which treats them one by
one and alike (the theorems have any number); two test requests compete for one lock; with
two failures a second change fails on top of a half-done one. Limit and
lockout of two have a first failure that does not lock and a tick in mid-lockout; `Large` of
one makes the second address trim the map; `LockFor <= StaleAfter` is the code's five
minutes against an hour. One password change has all of its script's points.
`login_after_ssl_off` needs one request only. The theorems of section 5 lift every
invariant and action property of the runs above these bounds.

CHECK_DEADLOCK stays on everywhere.

### Assumptions about the environment

- psictl is used on registered names only: root may start anything.
- The clock does not go back: `LastRun` is wall-clock time, and one set back delays the next wave.
- No other process takes the spare port that a test has just chosen for its Xray.
- One update runs at a time, and so one run of refresh-sudoers.sh beside the handlers'.
- 3x-ui's admin edits outbounds that are not regionhop's.

### Fairness

Weak fairness of every step of a handler that has begun: file operations end and
`run` kills a command after ten seconds (a script that a killed `sudo` leaves is a short sequence
of file operations and ends by itself), so every Go function the models split does
go on. Weak fairness of a wave's step: each probe has a time limit. Strong
fairness only where a goroutine waits for a `sync.Mutex` that others take and
release again and again (`CheckRunning`, `TickLoad`, `RefreshBegins`): the mutex's
starvation mode hands it over after a millisecond. `Status` further assumes that
dashboards keep polling and that a registry that cannot be read now can be read
again (`SF_vars(List)`). `Access` assumes `WF_vars(Tick)`: time passes. `Upstream` has
safety properties only, and no fairness. Nothing is assumed of the admin, of tunnels, of 3x-ui, of
renewals or of faults, except that bounded ones are bounded.

## 4. Abstractions

- Regions, pasted Psiphon JSON, data directories, logs and messages are not in
  Locations; a config file is its port and its upstream, or cut short, or absent.
- In Locations the Xray service behind a share link is one step that succeeds or fails
  (`ApplyService`); Upstream has it in detail. Parsing a link is a choice of upstream.
- In Upstream the temporary config beside the live one is not a variable: it is written, tried
  and renamed by the holder of `a.mu` alone, and overwritten by the next one. Every link has
  the same local address (`Xray`); Xray runs, or lacks its config and is retried.
- In Access a cookie is the secret it was signed with, the password it was obtained by
  (auxiliary) and what is left of it; a signature fits when the secret is the panel's. A
  failure count stops at the limit, which is all it is compared with. Each address has one
  browser.
- In Wave a location is picked in any order (the code sorts by name), and an add is
  atomic (it is under `a.mu`, and the wave sees the saved registry only).
- In Schedule the pair of a number and a unit is one interval in minutes (an hour or
  more in the code, two or three here); gates and tries are Wave's. The form's input
  is chosen when it is saved: the handler reads it from the request, under the lock,
  and nothing can change it.
- In Xui an address or token that is wrong is a refusal; a protocol, an address and
  the other fields of an outbound of ours are its port, right or wrong.
- In Status `rowsGen` is replaced by whether a value is of the current generation, since it
  is only ever compared for equality; a poll that is served from shared rows changes
  nothing and has no action; time is in ticks and ages stop at the lifetime.
- In Ssl a pair of files is the number of the certificate it is of, and two files
  match when the numbers do; a subject is the number the source holds at the end.

## 5. Proofs

TLAPS proves the following for every value of the constants that satisfies the
named assumptions of the modules, so for any number of locations, ports, threads, tries,
intervals, certificates and failures.

**Locations_proof.** `IInv` = `TypeOK`, `JobInv` (what the fields of a job hold at each
point of its handler), `LockInv` (who is inside a handler holds `a.mu`), `PendingInv`,
`UniqueEntries` (no two rows share a name or a port), `ConfPortAgrees`. Uniqueness alone is not inductive: a handler saves
a list it read several steps ago, so `PendingInv` says that this list still is the registry,
that the rows about to be added clash with none of it and not with each other,
and that their files say their ports. Theorems, with every fault on: `TypeCorrect`,
`UniqueCorrect`, `ConfPortCorrect`, `NoLostCorrect` (`[][...]`), `UntouchedCorrect` (`[][...]`),
and `KeepsRegistryCorrect`: Locations implements Registry. `RegistryMoves`
says that the two steps that save a list save one that contains the whole registry, and the
third one takes out a name; `UniqueEntries'` makes each a step of Registry.

The properties of `locations_units` are proved likewise with every fault on, for any `Faults`
and without hypotheses; each has an invariant of its own on top of `IInv`:

| Theorem | Its invariant, on top of the ones above it |
|---|---|
| `StopSurvivesCorrect` (`[][...]`) | `IInv`; what a command, done, half done or failed, makes of a unit |
| `StartsReadyCorrect` | `StartInv`: what a handler is about to start has its file and is registered; what its script has read is the registry until it is installed, because the handler has `a.mu` |
| `RulesInStepCorrect` | `RulesInv`: the rule lags the registry only between a save and the end of its refresh, and lists a row that is gone only for the handler that removed it, or is `behind` |
| `NoOrphanCorrect` | `RunInv`: what runs or is enabled is registered or a stray, a removal has stopped its unit or made it a stray, what applyUpstream and a wave restart is registered |
| `UpstreamAppliedCorrect` | `AppliedInv`: a row that applyUpstream is done with has its file, and its process runs that file, was skipped, or is about to be restarted |

`NoOrphan` is not inductive without `RulesInv`: the restart button asks sudo and not the
registry, so a rule with a row too many would let it start what is not registered.
`AppliedInv` holds through the loop while everybody else restarts the locations already done,
because whatever is launched reads the file, and the file is the new one.

**Wave_proof.** `CountInv` ties `spent` to the try counter at each point of
restartUntilGood; `LockInv` says what holds between the check and the restart;
`EvidenceInv` says at each point of the checks which try the cached exit address is of, and
what the gates already passed have compared. From them `NoResurrectionCorrect`,
`JudgedByNewExitCorrect`, and `BudgetCorrect`: initial states map to initial states of
RestartBudget and every step to a step of it or a stutter, so
`Spec => Budget!Spec`.

**Schedule_proof.** `NoExtraWave` follows from `CountInv` (`LastRun` is at least where the
waves so far have brought the countdown) and `DatesInv` (nothing, ticks on their way
included, is dated in the future); `LockInv` and `LoadedInv` say that what was loaded
under the lock is still in the file, which gives `NoLostEditCorrect` and
`ScopeCorrect`.

**Xui_proof.** `IInv` = `TypeOK`, `MutexInv`, `BoundInv`, `SyncInv`, `ReadInv`. `SyncInv` is the
heart. `Behind` is the excuse: a sync is still to come, or has not read the registry yet, or
an import told nobody. Without it, the registry that the sync at work has read still is
the registry until it posts; once it has posted 3x-ui is in sync; and with `xuiMu` free and
no error recorded it is in sync. This needs the registry to be read after `xuiMu` is taken,
since otherwise a sync with an old list could post last. `ReadInv` says that what is about to be
merged into is what 3x-ui has, unless its admin has `edited` in between. The lemmas on
mergeOutbounds are about all sequences: `MergedSynced` (whatever was there, the result has
exactly the wanted outbounds), `UnchangedSynced` (where nothing is written nothing had to be),
`MergedOthers` (others' outbounds are the same, in the same order). Order is proved without
induction: distinct numbers have distinct ranks, ranks of a finite set are an injection
into `1 .. Cardinality`, hence onto (`RankOnto`), and two sets whose members correspond in
order have corresponding k-th members (`SameOrder`). Theorems: `XuiTypeCorrect`,
`SyncedOrSaidCorrect`, `OthersUntouchedCorrect` (`[][...]`), both with an admin who edits at any
time.

**Status_proof.** `IInv` = `TypeOK`, `WorkInv`, `ListedInv`, `RegionInv`. `SharedRowsListed` is about
the stored rows only; `ListedInv` adds the list of the computation in flight: as long as
it is of the current generation it lists what is registered, but for the locations an
action is still at, because an action bumps the generation after its last save.
`RegionInv` says that a row in the making knows the region its cache entry has.
Theorems: `StatusTypeCorrect`, `SharedRowsCorrect`, `RegionRememberedCorrect` (`[][...]`).

**Ssl_proof.** `IInv` is stated per thread: the refresh holds the switch and the paths
of `ssl.json`, the form the switch it was sent, and a certificate whenever it is about
to save "on". `Framed` reduces a step of one thread to what concerns that thread, because
`ssl.json` and the certificate change under `sslMu` only. Theorems: `SslTypeCorrect`,
`EnabledCorrect`, `RefreshKeepsCorrect`.

**Upstream_proof.** `IInv` = `TypeOK`, `PathInv` (the mode decides the way), `ShortcutSound`,
`ServiceInv` (what the service is once each point is reached), `LocationInv` (the locations
already done agree), `StillInStep`, `ProcInv`. `InStep` speaks of an idle handler only and is
not inductive: a change that is refused must find that nothing was touched, which is
`StillInStep`, and one that succeeds must have collected the agreement on its way.
`ShortcutSound` is inductive only with `Remove` reached through a successful `Disable`.
Theorems: `UpstreamTypeCorrect`, `InStepCorrect`, `ShortcutCorrect`, `ThrowawayCorrect`.

**Access_proof.** `SecretInv` says that nobody holds a secret that `panel.env` has not had yet,
`PairInv` that outside the script the present secret goes with the present password, in
the panel and in every jar; secrets only grow, so an old cookie can never fit
again. From them `SignedOutCorrect`. `LockoutKeptCorrect` (`[][...]`) needs the entries' shape: a
locked address's last failure is younger than the lockout, hence never stale.

Every `IInv`, and each of the invariants of the table, was first checked by TLC on an
instance like the run's.

So each invariant and each action property that a run checks is also a theorem. Only
model-checked are the liveness properties (`HandlersFinish`, `WaveEnds`, `TicksServed`,
`Settles`, `RenewalServed`, `LockoutEnds`), because the prover knows no fairness, the freedom from
deadlock, which is about `ENABLED`, and, by their nature, the three properties that are violated.
No theorem rests on induction over data, which the prover cannot do: sequences are
functions and what is chosen from them is chosen by rank.

The constants' assumptions that the proofs use are the modules' named `ASSUME`s: ports are
numbers, the markers for "free", "none" and a cut file are no values of their fields, names
are no tags of others, the limits are positive. `XuiBoundAssumption` also says that `Names` is
finite, as every registry is, so that its outbounds can be put in an order.

## 6. Not modelled

The update checker, which caches one version string behind a mutex, and the update
script, which downloads, builds and copies in sequence; of an update the modules have
what the others can see: its run of the refresh script, the restarted panel and the restarted upstream.
The listener that tells TLS from HTTP: no state beyond a connection. The parsing of
share links and the text of Xray's config. The rest of the installer, the firewall's
chain (sync-firewall.sh reads the registry once more, at the end of the refresh script), pages, translations, the release workflow: sequential scripts,
static files or presentation. `ensureNoEstablishTimeout`, which rewrites files of old
versions once at startup, before the server listens.

## 7. Plan

Order of work, most important behaviour first; done items are marked.

1. Locations, its runs, and the theorems on uniqueness and no lost location. Done.
2. RestartBudget and Wave, with the refinement proved. Done.
3. Schedule, with its theorems. Done.
4. Xui, Status, Ssl; the theorems of Ssl. Done.
5. Upstream in detail with the connectivity test, and its theorems. Done.
6. Access: sessions, throttle, password change, and its theorems. Done.
7. `Xui_proof`: `SyncedOrSaid` and `OthersUntouched`. Done.
8. `Status_proof`: `SharedRowsListed`, `RegionRemembered`. Done.
9. The properties of the units, the rule and the upstream proved without hypotheses, the refresh
   script split into its read and its install; `JudgedByNewExit`. Done.
10. Registry, implemented by Locations, as Xui's source of registry changes. Done.
11. Upstream as a refinement of the steps that Locations has of it; the names that Status and Wave
    see, taken from Registry too.
