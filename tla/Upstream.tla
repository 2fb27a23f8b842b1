------------------------------ MODULE Upstream ------------------------------
(***************************************************************************)
(* The upstream that the tunnels leave through: none, a proxy, or a V2Ray  *)
(* link that regionhop-upstream.service runs in Xray.  A change under a.mu *)
(* brings the service, upstream.json, a.creds and every location in line,  *)
(* one command or file at a time; psictl update restarts the service on    *)
(* its own; the Test button runs a throwaway Xray beside all of it.        *)
(* Locations has the change as one step of the service (ApplyService).     *)
(***************************************************************************)
EXTENDS Naturals, FiniteSets

CONSTANTS
    Proxies,    \* proxy addresses
    Links,      \* V2Ray links
    Direct,     \* no upstream
    Xray,       \* the address of Xray's SOCKS port, the same for every link
    Locs,       \* the registered locations
    Requests,   \* requests of the Test button
    None,       \* no file, nothing running
    Free,       \* upstreamTestMu is not held
    MaxFaults   \* bound: failed commands, writes and reads

Settings == {Direct} \cup Proxies \cup Links
Urls == {Direct, Xray} \cup Proxies

ASSUME UpstreamNamesAssumption ==
    /\ Links \cap ({Direct} \cup Proxies) = {}
    /\ None \notin Links \cup Urls \cup Locs
    /\ Free \notin Requests
ASSUME UpstreamBoundAssumption == MaxFaults \in Nat

VARIABLES
    saved,      \* upstream.json
    creds,      \* a.creds.UpstreamProxyURL
    xcfg,       \* upstream-xray.json: the link it was built from, or None
    unit,       \* systemd's view of regionhop-upstream.service
    file,       \* the upstream in each location's config file
    run,        \* the upstream that each location runs with, or None if it is stopped
    h,          \* the handler that holds a.mu: program counter and local variables
    upd,        \* psictl update has found the service enabled and will restart it
    test,       \* program counters of the test requests
    testMu,     \* who holds upstreamTestMu, or Free
    proc,       \* each test's throwaway Xray
    faults,     \* bound: what has failed so far
    whole,      \* auxiliary: no change since the last complete one was left half-done
    stray       \* auxiliary: update has started the service although it is disabled

config == <<saved, creds, xcfg>>
locations == <<file, run>>
tests == <<test, testMu, proc>>
vars == <<config, unit, locations, h, upd, tests, faults, whole, stray>>

\* effectiveProxyURL
Url(s) == IF s \in Links THEN Xray ELSE s

Idle == [pc |-> "idle", s |-> Direct, todo |-> {}, cur |-> None, missed |-> FALSE]

Down(u) == [u EXCEPT !.state = "down", !.runs = None]

\* systemd starts Xray, which exits at once without its config and is retried.
Started(u) ==
    [u EXCEPT !.state = IF xcfg = None THEN "retry" ELSE "up", !.runs = xcfg]

Init ==
    /\ saved = Direct /\ creds = Direct /\ xcfg = None
    /\ unit = [state |-> "down", runs |-> None, enabled |-> FALSE]
    /\ file = [l \in Locs |-> Direct] /\ run \in [Locs -> {Direct, None}]
    /\ h = Idle /\ upd = FALSE
    /\ test = [t \in Requests |-> "idle"] /\ testMu = Free /\ proc = [t \in Requests |-> "none"]
    /\ faults = 0 /\ whole = TRUE /\ stray = FALSE

Fault == faults < MaxFaults /\ faults' = faults + 1

-----------------------------------------------------------------------------
(* handleUpstream and the upstream of an import: applyUpstream             *)

\* Nothing has been changed yet at these points.
Before == {"idle", "stat", "test"}

GoTo(pc) == h' = [h EXCEPT !.pc = pc]

\* An error is shown, and what was done so far stays.
GiveUp == h' = Idle /\ whole' = (whole /\ h.pc \in Before)

\* The input has been normalised; a mode without link needs no Xray.
Begin(s) ==
    /\ h.pc = "idle"
    /\ h' = [Idle EXCEPT !.pc = IF s \in Links THEN "test" ELSE "stat", !.s = s]
    /\ UNCHANGED <<config, unit, locations, upd, tests, faults, whole, stray>>

MutantRemoveFirst == IF xcfg = None THEN "save" ELSE "remove"

\* "The config file only exists if v2ray mode was ever applied here."
AfterStat == IF xcfg = None THEN "save" ELSE "disable"

Stat ==
    /\ h.pc = "stat"
    /\ GoTo(AfterStat)
    /\ UNCHANGED <<config, unit, locations, upd, tests, faults, whole, stray>>

\* systemctl disable --now: it drops the enablement, then it stops the unit.
Disable ==
    /\ h.pc = "disable"
    /\ \/ unit' = [Down(unit) EXCEPT !.enabled = FALSE] /\ stray' = FALSE
          /\ GoTo("remove") /\ UNCHANGED <<faults, whole>>
       \/ unit' \in {unit, [unit EXCEPT !.enabled = FALSE], [Down(unit) EXCEPT !.enabled = FALSE]}
          /\ Fault /\ GiveUp /\ UNCHANGED stray
    /\ UNCHANGED <<config, locations, upd, tests>>

Remove ==
    /\ h.pc = "remove"
    /\ \/ xcfg' = None /\ GoTo("save") /\ UNCHANGED <<faults, whole>>
       \/ Fault /\ GiveUp /\ UNCHANGED xcfg
    /\ UNCHANGED <<saved, creds, unit, locations, upd, tests, stray>>

\* The binary is looked for, the config written beside the live one and tried with
\* xray -test; the form's link may be refused at each of these.
Tried ==
    /\ h.pc = "test"
    /\ GoTo("rename") /\ UNCHANGED whole
    /\ UNCHANGED <<config, unit, locations, upd, tests, faults, stray>>

Rejected ==
    /\ h.pc = "test"
    /\ GiveUp
    /\ UNCHANGED <<config, unit, locations, upd, tests, faults, stray>>

Rename ==
    /\ h.pc = "rename"
    /\ \/ xcfg' = h.s /\ GoTo("enable") /\ UNCHANGED <<faults, whole>>
       \/ Fault /\ GiveUp /\ UNCHANGED xcfg
    /\ UNCHANGED <<saved, creds, unit, locations, upd, tests, stray>>

\* systemctl enable --now leaves a unit alone that is up already.
Enabled(u) ==
    [(IF u.state = "up" THEN u ELSE Started(u)) EXCEPT !.enabled = TRUE]

MutantNoRestart == "save"

AfterEnable == "restart"

Enable ==
    /\ h.pc = "enable"
    /\ \/ unit' = Enabled(unit) /\ GoTo(AfterEnable) /\ stray' = FALSE /\ UNCHANGED <<faults, whole>>
       \/ unit' \in {unit, [unit EXCEPT !.enabled = TRUE], Enabled(unit)}
          /\ Fault /\ GiveUp /\ UNCHANGED stray
    /\ UNCHANGED <<config, locations, upd, tests>>

RestartXray ==
    /\ h.pc = "restart"
    /\ \/ unit' = Started(unit) /\ GoTo("save") /\ UNCHANGED <<faults, whole>>
       \/ unit' \in {unit, Down(unit), Started(unit)} /\ Fault /\ GiveUp
    /\ UNCHANGED <<config, locations, upd, tests, stray>>

\* saveUpstream, then a.creds.
Save ==
    /\ h.pc = "save"
    /\ \/ saved' = h.s /\ creds' = Url(h.s) /\ UNCHANGED <<faults, whole>>
          /\ h' = [h EXCEPT !.pc = "write", !.todo = Locs]
       \/ Fault /\ GiveUp /\ UNCHANGED <<saved, creds>>
    /\ UNCHANGED <<xcfg, unit, locations, upd, tests, stray>>

\* One location after the other: its file, then a restart if it is running.
WriteLoc(l) ==
    /\ h.pc = "write" /\ l \in h.todo
    /\ \/ file' = [file EXCEPT ![l] = creds]
          /\ h' = [h EXCEPT !.pc = "check", !.todo = h.todo \ {l}, !.cur = l]
          /\ UNCHANGED <<faults, whole>>
       \/ Fault /\ GiveUp /\ UNCHANGED file
    /\ UNCHANGED <<config, unit, run, upd, tests, stray>>

\* tunnelStatus: a systemctl that does not answer counts as "not running".
CheckLoc ==
    /\ h.pc = "check"
    /\ \/ GoTo(IF run[h.cur] = None THEN "write" ELSE "restartloc") /\ UNCHANGED faults
       \/ Fault /\ h' = [h EXCEPT !.pc = "write", !.missed = TRUE]
    /\ UNCHANGED <<config, unit, locations, upd, tests, whole, stray>>

RestartLoc ==
    /\ h.pc = "restartloc"
    /\ \/ run' = [run EXCEPT ![h.cur] = file[h.cur]] /\ GoTo("write") /\ UNCHANGED <<faults, whole>>
       \/ run' \in {run, [run EXCEPT ![h.cur] = file[h.cur]]} /\ Fault /\ GiveUp
    /\ UNCHANGED <<config, unit, file, upd, tests, stray>>

Done ==
    /\ h.pc = "write" /\ h.todo = {}
    /\ h' = Idle /\ whole' = ~h.missed
    /\ UNCHANGED <<config, unit, locations, upd, tests, faults, stray>>

Handler ==
    \/ Stat \/ Disable \/ Remove
    \/ Tried \/ Rejected \/ Rename \/ Enable \/ RestartXray
    \/ Save \/ CheckLoc \/ RestartLoc \/ Done
    \/ \E l \in Locs : WriteLoc(l)

-----------------------------------------------------------------------------
(* The Test button: runUpstreamTest, one throwaway Xray at a time          *)

\* upstreamTestMu.TryLock; otherwise "another test is still running".
TryLock(t) == testMu = Free

MutantKeepsLock(t) == test' = [test EXCEPT ![t] = "idle"] /\ UNCHANGED testMu

\* The deferred Unlock.
Unlocks(t) == testMu' = Free /\ test' = [test EXCEPT ![t] = "idle"]

\* A proxy is asked directly; a link needs a process of its own.
TestBegins(t, kind) ==
    /\ test[t] = "idle" /\ TryLock(t)
    /\ testMu' = t
    /\ test' = [test EXCEPT ![t] = kind]
    /\ UNCHANGED proc

\* No binary, no free port, no directory, no process: the test is over.
XrayNotStarted(t) == test[t] = "link" /\ Unlocks(t) /\ UNCHANGED proc

XrayStarted(t) ==
    /\ test[t] = "link"
    /\ proc' = [proc EXCEPT ![t] = "up"]
    /\ test' = [test EXCEPT ![t] = "listen"]
    /\ UNCHANGED testMu

\* waitListening, for eight seconds or until the process is gone.
Listened(t) ==
    /\ test[t] = "listen"
    /\ \E next \in {"fetch", "kill"} :
          /\ next = "fetch" => proc[t] = "up"
          /\ test' = [test EXCEPT ![t] = next]
    /\ UNCHANGED <<testMu, proc>>

\* The exit address is fetched, or is not.
Fetched(t) ==
    /\ test[t] \in {"proxy", "fetch"}
    /\ IF test[t] = "proxy" THEN Unlocks(t)
       ELSE test' = [test EXCEPT ![t] = "kill"] /\ UNCHANGED testMu
    /\ UNCHANGED proc

\* By itself, by the 75 seconds of its context, or by the kill.
XrayGone(t) ==
    /\ proc[t] = "up"
    /\ proc' = [proc EXCEPT ![t] = "none"]
    /\ UNCHANGED <<test, testMu>>

MutantKillOnly(t) == TRUE

\* cmd.Process.Kill and <-exited, which runs before the deferred Unlock.
Reaped(t) == proc[t] = "none"

Ended(t) == test[t] = "kill" /\ Reaped(t) /\ Unlocks(t) /\ UNCHANGED proc

TestStep(t) ==
    \/ XrayNotStarted(t) \/ XrayStarted(t) \/ Listened(t) \/ Fetched(t) \/ Ended(t)

Tests ==
    /\ \E t \in Requests :
          \/ \E kind \in {"proxy", "link"} : TestBegins(t, kind)
          \/ TestStep(t) \/ XrayGone(t)
    /\ UNCHANGED <<config, unit, locations, h, upd, faults, whole, stray>>

-----------------------------------------------------------------------------
(* What happens meanwhile                                                  *)

XrayExits ==
    /\ unit.state = "up"
    /\ unit' = [unit EXCEPT !.state = "retry", !.runs = None]
    /\ UNCHANGED <<config, locations, h, upd, tests, faults, whole, stray>>

\* Restart=on-failure, every five seconds.
XrayRelaunched ==
    /\ unit.state = "retry"
    /\ unit' = Started(unit)
    /\ UNCHANGED <<config, locations, h, upd, tests, faults, whole, stray>>

\* The start, restart and stop buttons of a location.
LocationButton(l) ==
    /\ run' \in {[run EXCEPT ![l] = file[l]], [run EXCEPT ![l] = None]}
    /\ UNCHANGED <<config, unit, file, h, upd, tests, faults, whole, stray>>

\* install_units: "Pick up a newly installed xray binary if V2Ray upstream is in use."
UpdateAsks ==
    /\ ~upd /\ unit.enabled
    /\ upd' = TRUE
    /\ UNCHANGED <<config, unit, locations, h, tests, faults, whole, stray>>

UpdateRestarts ==
    /\ upd
    /\ upd' = FALSE
    /\ unit' = Started(unit)
    /\ stray' = ~unit.enabled
    /\ UNCHANGED <<config, locations, h, tests, faults, whole>>

\* Every process of the panel's unit dies with it, and the handler's work is cut off.
Cut ==
    /\ h' = Idle
    /\ test' = [t \in Requests |-> "idle"] /\ testMu' = Free
    /\ proc' = [t \in Requests |-> "none"]

\* loadUpstream at startup; a file that cannot be read counts as no upstream.
PanelRestarts ==
    /\ Cut
    /\ \/ creds' = Url(saved) /\ whole' = (whole /\ h.pc \in Before) /\ UNCHANGED faults
       \/ creds' = Direct /\ whole' = FALSE /\ Fault
    /\ UNCHANGED <<saved, xcfg, unit, locations, upd, stray>>

Reboot ==
    /\ Cut
    /\ creds' = Url(saved)
    /\ whole' = (whole /\ h.pc \in Before)
    /\ unit' = IF unit.enabled THEN Started(unit) ELSE Down(unit)
    /\ run' \in {[l \in Locs |-> IF run[l] = None THEN None ELSE file[l]]}
    /\ upd' = FALSE /\ stray' = FALSE
    /\ UNCHANGED <<saved, xcfg, file, faults>>

-----------------------------------------------------------------------------
Next ==
    \/ \E s \in Settings : Begin(s)
    \/ Handler
    \/ Tests
    \/ XrayExits \/ XrayRelaunched
    \/ \E l \in Locs : LocationButton(l)
    \/ UpdateAsks \/ UpdateRestarts
    \/ PanelRestarts \/ Reboot

Spec == Init /\ [][Next]_vars

-----------------------------------------------------------------------------
(* Properties.                                                             *)

TestPoints == {"idle", "proxy", "link", "listen", "fetch", "kill"}

UnitState == [state : {"down", "up", "retry"}, runs : Links \cup {None}, enabled : BOOLEAN]

HandlerState ==
    [pc : {"idle", "stat", "disable", "remove", "test", "rename", "enable", "restart",
           "save", "write", "check", "restartloc"},
     s : Settings, todo : SUBSET Locs, cur : Locs \cup {None}, missed : BOOLEAN]

\* The shape of every variable; upstreamTestMu is held exactly while a test is at work.
TypeOK ==
    /\ saved \in Settings /\ creds \in Urls /\ xcfg \in Links \cup {None}
    /\ unit \in UnitState
    /\ file \in [Locs -> Urls] /\ run \in [Locs -> Urls \cup {None}]
    /\ h \in HandlerState
    /\ upd \in BOOLEAN /\ whole \in BOOLEAN /\ stray \in BOOLEAN
    /\ test \in [Requests -> TestPoints] /\ testMu \in Requests \cup {Free}
    /\ proc \in [Requests -> {"none", "up"}]
    /\ faults \in 0 .. MaxFaults
    /\ \A t \in Requests : test[t] # "idle" <=> testMu = t

\* The service is as the settings s say.
ServiceIs(s) ==
    /\ xcfg = IF s \in Links THEN s ELSE None
    /\ s \in Links =>
          unit.enabled /\ unit.state # "down" /\ (unit.state = "up" => unit.runs = s)

\* Every location is configured as a.creds says, and runs with it if it runs.
LocationsAgree ==
    /\ creds = Url(saved)
    /\ \A l \in Locs : file[l] = creds /\ run[l] \in {creds, None}

\* "service first (so a rejected Xray config leaves everything as it was), then settings,
\* then every location" (applyUpstream): after a change that reported no error, whatever an
\* earlier one had left half-done, and still after one that was rejected or cut off before
\* its first effect, the service, upstream.json, a.creds and all locations say the same.
InStep == whole /\ h.pc = "idle" => ServiceIs(saved) /\ LocationsAgree

\* The service is neither enabled nor running, but for a start by update.
Off == ~unit.enabled /\ (unit.state = "down" \/ stray)

\* applyUpstreamService skips the service when there is no Xray config.  It may: whatever
\* failed or died before, without the file the service is neither enabled nor running, unless
\* update's own restart has started it in mid-change.
ShortcutSound == xcfg = None => Off

\* "A double click must not start two Xray processes", and a test does "never leave it running"
\* (upstream_check.go): at most one throwaway process, and none once the lock is free.
OneThrowaway ==
    \A t \in Requests : proc[t] = "up" => testMu = t

-----------------------------------------------------------------------------
(* The inductive invariant behind the safety properties (Upstream_proof).  *)

\* The mode decides which way the change goes.
PathInv ==
    /\ h.pc \in {"stat", "disable", "remove"} => h.s \notin Links
    /\ h.pc \in {"test", "rename", "enable", "restart"} => h.s \in Links
    /\ h.pc \in {"check", "restartloc"} => h.cur \in Locs

\* The points at which the service, and at which the settings have been brought in line.
ServiceDone == {"save", "write", "check", "restartloc"}
SettingsDone == {"write", "check", "restartloc"}

\* What the change has done to the service so far.
ServiceInv ==
    /\ h.pc = "remove" => Off
    /\ h.pc \in {"enable", "restart"} => xcfg = h.s
    /\ h.pc = "restart" => unit.enabled
    /\ h.pc \in ServiceDone => ServiceIs(h.s)

\* What it has done to the settings and to the locations it has been at.
LocationInv ==
    /\ h.pc \in SettingsDone => saved = h.s /\ creds = Url(h.s)
    /\ h.pc \in SettingsDone /\ ~h.missed =>
          \A l \in Locs \ h.todo :
             /\ file[l] = creds
             /\ run[l] \in {creds, None} \/ (h.pc # "write" /\ l = h.cur)

\* Nothing has been changed yet, and nothing was left half-done.
StillInStep == whole /\ h.pc \in Before => ServiceIs(saved) /\ LocationsAgree

ProcInv == \A t \in Requests : proc[t] = "up" => test[t] \in {"listen", "fetch", "kill"}

IInv ==
    TypeOK /\ PathInv /\ ShortcutSound /\ ServiceInv /\ LocationInv /\ StillInStep /\ ProcInv
=============================================================================
