------------------------------ MODULE Schedule ------------------------------
(***************************************************************************)
(* When auto restart waves run: the schedule file (auto-restart.json), the *)
(* goroutine that looks at it once a minute, the settings form and the     *)
(* import of a backup that rewrite it, and the registry that the form      *)
(* checks location names against.  What a wave does is in module Wave.     *)
(***************************************************************************)
EXTENDS Naturals, FiniteSets

CONSTANTS
    Names,          \* the location names in play
    Intervals,      \* the intervals a schedule may have, in minutes
    DefaultEvery,   \* the interval of a server that never had a schedule
    Bad,            \* a number of hours, days or weeks that is refused
    Handlers,       \* goroutines of requests that write the schedule
    Ticker,         \* the goroutine of startAutoRestart
    Free,           \* a.mu is not held
    Faults,         \* what may go wrong: a subset of FaultKinds
    MaxTime         \* bound: minutes

FaultKinds == {"read", "save", "crash"}

\* The shortest interval is an hour: longer than the minute between two ticks.
ASSUME IntervalsAssumption == Intervals \subseteq Nat \ {0, 1} /\ DefaultEvery \in Intervals
ASSUME BadAssumption == Bad \notin Intervals
ASSUME HoldersAssumption == Free \notin Handlers /\ Ticker \notin Handlers /\ Free # Ticker
ASSUME BoundsAssumption == Faults \subseteq FaultKinds /\ MaxTime \in Nat \ {0}

VARIABLES
    now,        \* the clock, in minutes
    file,       \* auto-restart.json
    reg,        \* the names in the registry
    chan,       \* the ticker's channel: the time of the tick in it, 0 while it is empty
    mu,         \* who holds a.mu, or Free
    tk,         \* the ticker's goroutine
    th,         \* the handlers: program counter and local variables
    armed,      \* auxiliary: since when the schedule has meant what it means
    waves,      \* auxiliary: the waves it called for since then
    chosen      \* auxiliary: the locations the admin last chose for it

vars == <<now, file, reg, chan, mu, tk, th, armed, waves, chosen>>

\* LastRun is 0 while there is none.
Settings == [enabled : BOOLEAN, every : Intervals, only : SUBSET Names, last : 0 .. MaxTime]

\* What the settings form sends: ticked is what was ticked in the picker, which
\* is only looked at when the scope is "selected".
Form == {f \in [enabled : BOOLEAN, every : Intervals \cup {Bad},
                scope : {"all", "selected"}, ticked : SUBSET Names] :
            f.scope = "all" => f.ticked = {}}

Default == [enabled |-> FALSE, every |-> DefaultEvery, only |-> {}, last |-> 0]

Covered(s) == IF s.only = {} THEN Names ELSE s.only

Resting == [pc |-> "idle", stamp |-> 0, old |-> Default]
Idle == [pc |-> "idle", old |-> Default]

\* A new server, or one with an enabled schedule that has no LastRun yet.
Init ==
    /\ now = 1 /\ reg = {} /\ chan = 0 /\ mu = Free
    /\ \E on \in BOOLEAN : file = [Default EXCEPT !.enabled = on]
    /\ tk = Resting
    /\ th = [h \in Handlers |-> Idle]
    /\ armed = 1 /\ waves = 0 /\ chosen = Names

MutantAcquireUnlocked(t) == mu' = t

Acquire(t) == mu = Free /\ mu' = t

Release == mu' = Free

\* loadAutoRestart: a file that cannot be read counts as none.
Load(s) == s = file \/ ("read" \in Faults /\ s = Default)

-----------------------------------------------------------------------------
(* autoRestartTick                                                         *)

\* A tick waits for the goroutine to receive it; more than one do not.
Minute ==
    /\ now < MaxTime
    /\ now' = now + 1
    /\ chan' = IF chan = 0 THEN now + 1 ELSE chan
    /\ UNCHANGED <<file, reg, mu, tk, th, armed, waves, chosen>>

TickReceive ==
    /\ tk.pc = "idle" /\ chan # 0
    /\ tk' = [Resting EXCEPT !.pc = "lock", !.stamp = chan]
    /\ chan' = 0
    /\ UNCHANGED <<now, file, reg, mu, th, armed, waves, chosen>>

Due(s, stamp) == s.enabled /\ s.last # 0 /\ stamp >= s.last + s.every

\* autoRestartStep: the settings to save.
Step(s, stamp) ==
    IF Due(s, stamp) \/ (s.enabled /\ s.last = 0) THEN [s EXCEPT !.last = stamp] ELSE s

TickLoad ==
    /\ tk.pc = "lock"
    /\ Acquire(Ticker)
    /\ \E s \in {Default, file} : Load(s) /\ tk' = [tk EXCEPT !.pc = "save", !.old = s]
    /\ UNCHANGED <<now, file, reg, chan, th, armed, waves, chosen>>

\* There is a new LastRun to save.
Counts == Step(tk.old, tk.stamp).last # tk.old.last

\* Save what changed, unlock, and start the wave if one is due.
TickSave ==
    /\ tk.pc = "save"
    /\ file' = IF Counts THEN Step(tk.old, tk.stamp) ELSE file
    /\ Release
    /\ IF Due(tk.old, tk.stamp)
       THEN tk' = [Resting EXCEPT !.pc = "wave"] /\ waves' = waves + 1
       ELSE tk' = Resting /\ UNCHANGED waves
    /\ UNCHANGED <<now, reg, chan, th, armed, chosen>>

MutantTickSkipLocked ==
    /\ tk.pc = "save" /\ Counts
    /\ "save" \in Faults
    /\ tk' = Resting
    /\ UNCHANGED <<now, file, reg, chan, mu, th, armed, waves, chosen>>

\* A schedule that cannot be saved: this round is skipped, a.mu released.
TickSkip ==
    /\ tk.pc = "save" /\ Counts
    /\ "save" \in Faults
    /\ Release
    /\ tk' = Resting
    /\ UNCHANGED <<now, file, reg, chan, th, armed, waves, chosen>>

\* restartAllRunning returns, however long it took.
WaveReturns ==
    /\ tk.pc = "wave"
    /\ tk' = Resting
    /\ UNCHANGED <<now, file, reg, chan, mu, th, armed, waves, chosen>>

-----------------------------------------------------------------------------
(* handleAutoRestart                                                       *)

\* What the form asks for: of the ticked names, those that are registered.
Asked(f, old) ==
    [enabled |-> f.enabled, every |-> f.every, last |-> old.last,
     only |-> IF f.scope = "selected" THEN f.ticked \cap reg ELSE {}]

MutantValidAnyInterval(f, s) == f.scope = "selected" => s.only # {}

MutantValidUnchosen(f, s) == s.every \in Intervals

Valid(f, s) == s.every \in Intervals /\ (f.scope = "selected" => s.only # {})

\* The settings to save, if any: turning it off works whatever else was typed.
Accepted(f, old) ==
    IF Valid(f, Asked(f, old)) THEN {Asked(f, old)}
    ELSE IF ~f.enabled THEN {[old EXCEPT !.enabled = FALSE]}
    ELSE {}

MutantKeepCountdown(s, old) == s

\* Changing what the schedule means restarts the countdown.
Counted(s, old) ==
    IF s.enabled /\ (~old.enabled \/ old.every # s.every \/ old.last = 0)
    THEN [s EXCEPT !.last = now] ELSE s

FormLoad(h) ==
    /\ th[h].pc = "idle"
    /\ Acquire(h)
    /\ \E s \in {Default, file} : Load(s) /\ th' = [th EXCEPT ![h] = [pc |-> "form", old |-> s]]
    /\ UNCHANGED <<now, file, reg, chan, tk, armed, waves, chosen>>

\* The auxiliary variables when s replaces the schedule and covers these names; a schedule
\* that is off means nothing.
Rearms(s, names) ==
    /\ IF ~s.enabled THEN armed' = 1 /\ waves' = 0
       ELSE IF ~file.enabled \/ file.every # s.every THEN armed' = now /\ waves' = 0
       ELSE UNCHANGED <<armed, waves>>
    /\ chosen' = IF s.enabled THEN names ELSE Names

\* The form f is saved, or refused.
FormSave(h, f) ==
    /\ th[h].pc = "form"
    /\ \/ /\ Accepted(f, th[h].old) = {}
          /\ UNCHANGED <<file, armed, waves, chosen>>
       \/ \E s \in Accepted(f, th[h].old) :
            /\ file' = Counted(s, th[h].old)
            /\ Rearms(s, IF f.scope = "all" THEN Names ELSE f.ticked)
    /\ Release /\ th' = [th EXCEPT ![h] = Idle]
    /\ UNCHANGED <<now, reg, chan, tk>>

\* The answer is an error, the old schedule is still there.
SaveFails(h) ==
    /\ th[h].pc # "idle" /\ "save" \in Faults
    /\ Release /\ th' = [th EXCEPT ![h] = Idle]
    /\ UNCHANGED <<now, file, reg, chan, tk, armed, waves, chosen>>

-----------------------------------------------------------------------------
(* handleBackupImport: the schedule of the backup, if it has a valid one,  *)
(* counts down from now.                                                   *)

ImportLock(h) ==
    /\ th[h].pc = "idle"
    /\ Acquire(h)
    /\ th' = [th EXCEPT ![h] = [Idle EXCEPT !.pc = "import"]]
    /\ UNCHANGED <<now, file, reg, chan, tk, armed, waves, chosen>>

ImportSchedule(h) ==
    /\ th[h].pc = "import"
    /\ \E on \in BOOLEAN, k \in Intervals, only \in SUBSET Names :
        LET s == [enabled |-> on, every |-> k, only |-> only, last |-> IF on THEN now ELSE 0] IN
        /\ file' = s
        /\ armed' = (IF on THEN now ELSE 1) /\ waves' = 0
        /\ chosen' = IF on THEN Covered(s) ELSE Names
    /\ Release /\ th' = [th EXCEPT ![h] = Idle]
    /\ UNCHANGED <<now, reg, chan, tk>>

\* The file has no schedule, or one that is refused.
ImportNone(h) ==
    /\ th[h].pc = "import"
    /\ Release /\ th' = [th EXCEPT ![h] = Idle]
    /\ UNCHANGED <<now, file, reg, chan, tk, armed, waves, chosen>>

-----------------------------------------------------------------------------
\* handleAdd, an import or the remove action, with a.mu held.
RegistryChanges(n) ==
    /\ mu = Free
    /\ reg' = IF n \in reg THEN reg \ {n} ELSE reg \cup {n}
    /\ UNCHANGED <<now, file, chan, mu, tk, th, armed, waves, chosen>>

\* The panel stops wherever it is and is back some time later, with a new ticker.
PanelRestarts ==
    /\ "crash" \in Faults
    /\ now' \in now .. MaxTime
    /\ chan' = 0 /\ mu' = Free /\ tk' = Resting /\ th' = [h \in Handlers |-> Idle]
    /\ UNCHANGED <<file, reg, armed, waves, chosen>>

Tick == TickReceive \/ TickSave \/ TickSkip \/ WaveReturns

Finish(h) == \/ \E f \in Form : FormSave(h, f)
             \/ SaveFails(h) \/ ImportSchedule(h) \/ ImportNone(h)

Next ==
    \/ Minute \/ Tick \/ TickLoad
    \/ \E h \in Handlers : FormLoad(h) \/ ImportLock(h) \/ Finish(h)
    \/ \E n \in Names : RegistryChanges(n)
    \/ PanelRestarts

Spec == Init /\ [][Next]_vars

\* Handlers finish, a wave ends (Wave!WaveEnds), and a goroutine that waits for
\* a sync.Mutex gets it.
FairSpec == Spec /\ WF_vars(Tick) /\ SF_vars(TickLoad) /\ \A h \in Handlers : WF_vars(Finish(h))

-----------------------------------------------------------------------------
(* Properties.                                                             *)

\* The shape of every variable.  The file always holds a schedule that
\* validateAutoRestart accepts.
TypeOK ==
    /\ now \in 1 .. MaxTime
    /\ file \in Settings
    /\ reg \subseteq Names
    /\ chan \in 0 .. MaxTime
    /\ mu \in Handlers \cup {Free, Ticker}
    /\ tk \in [pc : {"idle", "lock", "save", "wave"}, stamp : 0 .. MaxTime,
               old : Settings]
    /\ th \in [Handlers -> [pc : {"idle", "form", "import"}, old : Settings]]
    /\ armed \in 1 .. MaxTime
    /\ waves \in 0 .. MaxTime
    /\ chosen \subseteq Names

\* Every wave takes a whole interval: whatever ticks come late, saves fail or
\* panels restart, k waves since the schedule got its meaning are k intervals
\* after that (autoRestartStep, handleAutoRestart).
NoExtraWave == file.enabled => armed + waves * file.every <= now

\* "Under a.mu so this can't overwrite a schedule the admin is saving at the
\* same moment" (autoRestartTick): a tick saves a new LastRun and nothing else.
NoLostEdit ==
    [][tk.pc = "save" /\ tk'.pc # "save" =>
          [file' EXCEPT !.last = 0] = [file EXCEPT !.last = 0]]_vars

\* A schedule limited to some locations never widens to others, not even when
\* every one of them has been removed meanwhile (an empty Only means all).
ScopeAsChosen == file.enabled => Covered(file) \subseteq chosen

\* Every tick is received: no early return keeps a.mu, no wave blocks the next.
TicksServed == chan # 0 ~> chan = 0

-----------------------------------------------------------------------------
(* The inductive invariant behind the safety properties.                   *)

\* Who is between loading and saving holds a.mu.
LockInv ==
    /\ tk.pc = "save" => mu = Ticker
    /\ \A h \in Handlers : th[h].pc # "idle" => mu = h

\* What was loaded is what there still is, unless the file could not be read.
LoadedInv ==
    /\ tk.pc = "save" => tk.old \in {file, Default}
    /\ \A h \in Handlers : th[h].pc = "form" => th[h].old \in {file, Default}

\* Nothing is dated in the future; a tick on its way has a time.
DatesInv ==
    /\ file.last <= now /\ armed <= now /\ chan <= now /\ tk.stamp <= now
    /\ tk.pc \in {"lock", "save"} => tk.stamp # 0

\* LastRun is where the waves so far have brought the countdown, or later.
CountInv ==
    file.enabled => IF file.last = 0 THEN armed = 1 /\ waves = 0
                    ELSE armed + waves * file.every <= file.last

IInv == TypeOK /\ LockInv /\ LoadedInv /\ DatesInv /\ CountInv /\ ScopeAsChosen
=============================================================================
