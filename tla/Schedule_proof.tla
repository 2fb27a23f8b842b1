--------------------------- MODULE Schedule_proof ---------------------------
(* Proofs for Schedule: whatever the interval, the locations, the number of *)
(* handlers and the faults, waves keep their distance and their scope.     *)
EXTENDS Schedule, TLAPS

USE IntervalsAssumption, BadAssumption, HoldersAssumption, BoundsAssumption

\* One wave more is one interval more.
LEMMA OneMore ==
    ASSUME NEW k \in Nat, NEW e \in Nat
    PROVE  (k + 1) * e = k * e + e /\ k * e \in Nat /\ 0 * e = 0
    OBVIOUS

\* As many waves as fit into the time do not exceed it.
LEMMA WavesFit ==
    ASSUME NEW k \in Nat, NEW e \in Nat \ {0}
    PROVE  k <= k * e
  <1>1. e >= 1
    OBVIOUS
  <1> QED BY <1>1, SMT

\* The numbers of a schedule.
LEMMA SettingsNat ==
    ASSUME NEW s \in Settings
    PROVE  s.last \in Nat /\ s.every \in Nat \ {0} /\ s.every \in Nat /\ s.last \in 0 .. MaxTime
  <1>1. s.last \in 0 .. MaxTime /\ s.every \in Intervals
    BY DEF Settings
  <1>2. s.every \in Nat \ {0, 1}
    BY <1>1
  <1> QED BY <1>1, <1>2

\* No schedule and an empty handler are well formed.
LEMMA DefaultType ==
    /\ Default \in Settings
    /\ Resting \in [pc : {"idle", "lock", "save", "wave"}, stamp : 0 .. MaxTime, old : Settings]
    /\ Idle \in [pc : {"idle", "form", "import"}, old : Settings]
    /\ Resting.pc = "idle" /\ Resting.stamp = 0 /\ Idle.pc = "idle"
    /\ ~Default.enabled /\ Default.last = 0
    BY DEF Default, Resting, Idle, Settings

\* What a tick saves differs in LastRun only, and that is the old one or the tick's.
LEMMA StepType ==
    ASSUME NEW s \in Settings, NEW stamp \in 0 .. MaxTime
    PROVE  /\ Step(s, stamp) \in Settings
           /\ Step(s, stamp).enabled = s.enabled /\ Step(s, stamp).every = s.every
           /\ Step(s, stamp).only = s.only
           /\ \/ Step(s, stamp) = s /\ ~Due(s, stamp)
              \/ Step(s, stamp).last = stamp /\ s.enabled /\ (s.last = 0 \/ Due(s, stamp))
    BY DEF Step, Due, Settings

\* What a form is accepted as: its own schedule, or the old one turned off.
LEMMA AcceptedType ==
    ASSUME NEW f \in Form, NEW old \in Settings, NEW s \in Accepted(f, old), reg \subseteq Names
    PROVE  /\ s \in Settings /\ s.last = old.last
           /\ s.enabled => /\ f.scope = "all" => s.only = {}
                           /\ f.scope = "selected" => s.only # {} /\ s.only \subseteq f.ticked
           /\ f.scope \in {"all", "selected"} /\ f.ticked \subseteq Names
  <1>1. f.enabled \in BOOLEAN /\ f.scope \in {"all", "selected"} /\ f.ticked \subseteq Names
    BY DEF Form
  <1>2. CASE Valid(f, Asked(f, old))
    <2>1. s = Asked(f, old)
      BY <1>2 DEF Accepted
    <2>2. s.every \in Intervals
      BY <1>2, <2>1 DEF Valid
    <2>3. s \in Settings /\ s.last = old.last
      BY <1>1, <2>1, <2>2 DEF Asked, Settings
    <2>4. f.scope = "all" => s.only = {}
      BY <2>1 DEF Asked
    <2>5. f.scope = "selected" => s.only # {} /\ s.only \subseteq f.ticked
      BY <1>2, <2>1 DEF Asked, Valid
    <2> QED BY <1>1, <2>3, <2>4, <2>5
  <1>3. CASE ~Valid(f, Asked(f, old))
    <2>1. s = [old EXCEPT !.enabled = FALSE]
      BY <1>3 DEF Accepted
    <2> QED BY <1>1, <2>1 DEF Settings
  <1> QED BY <1>2, <1>3

\* The countdown of what is saved starts now, or goes on as it was.
LEMMA CountedType ==
    ASSUME NEW s \in Settings, NEW old \in Settings, s.last = old.last, now \in 1 .. MaxTime
    PROVE  /\ Counted(s, old) \in Settings
           /\ Counted(s, old).enabled = s.enabled /\ Counted(s, old).every = s.every
           /\ Counted(s, old).only = s.only
           /\ \/ Counted(s, old).last = now
              \/ /\ Counted(s, old) = s
                 /\ s.enabled => old.enabled /\ old.every = s.every /\ old.last # 0
    BY DEF Counted, Settings

\* The registry, the clock and the channel are all a step changes of these: what
\* relates file, countdown and scope stays.
LEMMA Kept ==
    ASSUME IInv, UNCHANGED <<file, armed, waves, chosen>>, now' \in now .. MaxTime
    PROVE  CountInv' /\ ScopeAsChosen' /\ file'.last <= now' /\ armed' <= now' /\ now' \in 1 .. MaxTime
  <1>1. now \in Nat /\ now' \in Nat /\ file.last \in Nat /\ armed \in Nat /\ MaxTime \in Nat
    BY DEF IInv, TypeOK, Settings
  <1>2. now <= now' /\ file.last <= now /\ armed <= now /\ 1 <= now
    BY DEF IInv, DatesInv, TypeOK
  <1> QED BY <1>1, <1>2 DEF IInv, CountInv, ScopeAsChosen, Covered

\* A thread without a job holds no claim.
LEMMA Ends ==
    ASSUME IInv, NEW h \in Handlers, th[h].pc # "idle", Release, th' = [th EXCEPT ![h] = Idle], tk' = tk
    PROVE  LockInv' /\ (\A g \in Handlers : th'[g].pc = "idle") /\ tk'.pc # "save"
           /\ th' \in [Handlers -> [pc : {"idle", "form", "import"}, old : Settings]]
  <1>1. mu = h /\ \A g \in Handlers : g # h => th[g].pc = "idle"
    BY DEF IInv, LockInv
  <1>2. tk.pc # "save"
    BY <1>1 DEF IInv, LockInv
  <1> QED BY <1>1, <1>2, DefaultType DEF IInv, TypeOK, LockInv

-----------------------------------------------------------------------------
\* A tick may come late, but what it saves is its own time, and only if that is
\* an interval after the last time: the one step that counts a wave.
LEMMA TickSaveStep == ASSUME IInv, TickSave PROVE IInv'
  <1> DEFINE s == tk.old
  <1>1. /\ tk.pc = "save" /\ mu' = Free /\ UNCHANGED <<now, reg, chan, th, armed, chosen>>
        /\ file' = IF Counts THEN Step(s, tk.stamp) ELSE file
        /\ tk' = IF Due(s, tk.stamp) THEN [Resting EXCEPT !.pc = "wave"] ELSE Resting
        /\ waves' = IF Due(s, tk.stamp) THEN waves + 1 ELSE waves
    BY DEF TickSave, Release
  <1>2. /\ file \in Settings /\ s \in Settings /\ s \in {file, Default}
        /\ tk.stamp \in 0 .. MaxTime /\ tk.stamp # 0 /\ tk.stamp <= now
        /\ mu = Ticker /\ now \in 1 .. MaxTime /\ armed \in 1 .. MaxTime /\ waves \in 0 .. MaxTime
        /\ armed <= now
    BY <1>1 DEF IInv, TypeOK, LockInv, LoadedInv, DatesInv
  <1>3. /\ tk'.pc \in {"idle", "wave"} /\ tk'.stamp = 0
        /\ tk' \in [pc : {"idle", "lock", "save", "wave"}, stamp : 0 .. MaxTime, old : Settings]
    BY <1>1, DefaultType
  <1>4. \A h \in Handlers : th[h].pc = "idle"
    BY <1>2 DEF IInv, LockInv
  <1>5. LockInv' /\ LoadedInv'
    BY <1>1, <1>3, <1>4 DEF LockInv, LoadedInv
  <1>6. CASE ~Due(s, tk.stamp) /\ Step(s, tk.stamp) = s
    <2>1. file' = file /\ waves' = waves
      BY <1>1, <1>6 DEF Counts
    <2> QED BY <1>1, <1>3, <1>5, <2>1 DEF IInv, TypeOK, DatesInv, CountInv, ScopeAsChosen, Covered
  <1>7. CASE Step(s, tk.stamp).last = tk.stamp /\ s.enabled /\ (s.last = 0 \/ Due(s, tk.stamp))
    <2>1. s = file /\ file.enabled
      BY <1>2, <1>7, DefaultType
    <2>2. /\ Step(s, tk.stamp) \in Settings /\ Step(s, tk.stamp).enabled
          /\ Step(s, tk.stamp).every = file.every /\ Step(s, tk.stamp).only = file.only
      BY <1>2, <2>1, StepType
    <2>3. tk.stamp # s.last
      <3>1. s.last \in Nat /\ s.every \in Nat \ {0} /\ tk.stamp \in Nat
        BY <1>2, SettingsNat
      <3> QED BY <1>2, <1>7, <3>1 DEF Due
    <2>4. /\ file' \in Settings /\ file'.last = tk.stamp /\ file'.every = file.every
          /\ file'.only = file.only /\ file'.enabled
      BY <1>1, <1>7, <2>2, <2>3 DEF Counts
    <2>5. armed + waves' * file'.every <= tk.stamp
      <3>1. file.every \in Nat \ {0} /\ file.last \in Nat /\ waves \in Nat /\ armed \in Nat
        BY <1>2, SettingsNat
      <3>2. CASE file.last = 0
        <4>1. armed = 1 /\ waves = 0 /\ ~Due(s, tk.stamp)
          BY <2>1, <3>2 DEF IInv, CountInv, Due
        <4>2. waves' = 0 /\ waves' * file'.every = 0
          BY <1>1, <2>4, <3>1, <4>1, OneMore
        <4> QED BY <1>2, <4>1, <4>2
      <3>3. CASE file.last # 0
        <4>1. armed + waves * file.every <= file.last
          BY <2>1, <3>3 DEF IInv, CountInv
        <4>2. Due(s, tk.stamp) /\ tk.stamp >= file.last + file.every
          BY <1>7, <2>1, <3>3 DEF Due
        <4>3. waves' * file'.every = waves * file.every + file.every /\ waves * file.every \in Nat
          BY <1>1, <2>4, <3>1, <4>2, OneMore
        <4> QED BY <1>2, <3>1, <4>1, <4>2, <4>3
      <3> QED BY <3>2, <3>3
    <2>6. waves' \in 0 .. MaxTime
      <3>1. waves' \in Nat /\ file'.every \in Nat \ {0} /\ armed \in Nat /\ tk.stamp \in Nat
        BY <1>1, <1>2, <2>4 DEF Settings
      <3>2. waves' <= waves' * file'.every /\ waves' * file'.every \in Nat
        BY <3>1, WavesFit, OneMore
      <3> QED BY <1>2, <2>5, <3>1, <3>2
    <2>7. TypeOK'
      BY <1>1, <1>3, <2>4, <2>6 DEF IInv, TypeOK
    <2>8. DatesInv'
      BY <1>1, <1>2, <1>3, <2>4 DEF IInv, DatesInv
    <2>9. CountInv' /\ ScopeAsChosen'
      BY <1>1, <1>2, <2>1, <2>4, <2>5 DEF IInv, CountInv, ScopeAsChosen, Covered
    <2> QED BY <1>5, <2>7, <2>8, <2>9 DEF IInv
  <1> QED BY <1>2, <1>6, <1>7, StepType

\* The ticker's other steps leave the schedule alone.
LEMMA TickerStep ==
    ASSUME IInv, Minute \/ TickReceive \/ TickLoad \/ TickSkip \/ WaveReturns
    PROVE  IInv'
  <1>1. UNCHANGED <<file, reg, th, armed, waves, chosen>> /\ now' \in now .. MaxTime
    BY DEF Minute, TickReceive, TickLoad, TickSkip, WaveReturns, IInv, TypeOK
  <1>2. CountInv' /\ ScopeAsChosen' /\ file'.last <= now' /\ armed' <= now' /\ now' \in 1 .. MaxTime
    BY <1>1, Kept
  <1>3. CASE Minute
    <2>1. now' = now + 1 /\ chan' \in {chan, now + 1} /\ mu' = mu /\ tk' = tk
      BY <1>3 DEF Minute
    <2> QED BY <1>1, <1>2, <2>1 DEF IInv, TypeOK, LockInv, LoadedInv, DatesInv
  <1>4. CASE TickReceive
    <2>1. /\ now' = now /\ mu' = mu /\ chan' = 0 /\ chan # 0
          /\ tk' \in [pc : {"idle", "lock", "save", "wave"}, stamp : 0 .. MaxTime, old : Settings]
          /\ tk'.pc = "lock" /\ tk'.stamp = chan
      BY <1>4, DefaultType DEF TickReceive, IInv, TypeOK
    <2> QED BY <1>1, <1>2, <2>1 DEF IInv, TypeOK, LockInv, LoadedInv, DatesInv
  <1>5. CASE TickLoad
    <2>1. PICK s \in {Default, file} : tk' = [tk EXCEPT !.pc = "save", !.old = s]
      BY <1>5 DEF TickLoad
    <2>2. /\ now' = now /\ mu = Free /\ mu' = Ticker /\ chan' = chan /\ tk.pc = "lock"
          /\ tk' \in [pc : {"idle", "lock", "save", "wave"}, stamp : 0 .. MaxTime, old : Settings]
          /\ tk'.pc = "save" /\ tk'.stamp = tk.stamp /\ tk'.old \in {file, Default}
      BY <1>5, <2>1, DefaultType DEF TickLoad, Acquire, IInv, TypeOK
    <2>3. \A h \in Handlers : th[h].pc = "idle"
      BY <2>2 DEF IInv, LockInv
    <2> QED BY <1>1, <1>2, <2>2, <2>3 DEF IInv, TypeOK, LockInv, LoadedInv, DatesInv
  <1>6. CASE TickSkip
    <2>1. now' = now /\ mu = Ticker /\ mu' = Free /\ chan' = chan /\ tk' = Resting
      BY <1>6 DEF TickSkip, Release, IInv, LockInv
    <2>2. \A h \in Handlers : th[h].pc = "idle"
      BY <2>1 DEF IInv, LockInv
    <2> QED BY <1>1, <1>2, <2>1, <2>2, DefaultType DEF IInv, TypeOK, LockInv, LoadedInv, DatesInv
  <1>7. CASE WaveReturns
    <2>1. now' = now /\ mu' = mu /\ chan' = chan /\ tk' = Resting
      BY <1>7 DEF WaveReturns
    <2> QED BY <1>1, <1>2, <2>1, DefaultType DEF IInv, TypeOK, LockInv, LoadedInv, DatesInv
  <1> QED BY <1>3, <1>4, <1>5, <1>6, <1>7

\* A handler that replaces the schedule arms it from now, or leaves the count to
\* a schedule that means what it meant.
LEMMA HandlerSaves ==
    ASSUME IInv, NEW h \in Handlers, NEW s \in Settings, NEW names \in SUBSET Names,
           th[h].pc # "idle", Release, th' = [th EXCEPT ![h] = Idle],
           UNCHANGED <<now, reg, chan, tk>>, file' = s, s.last <= now,
           (armed' \in {1, now} /\ waves' = 0) \/ UNCHANGED <<armed, waves>>,
           s.enabled => \/ s.last = now /\ armed' = now /\ waves' = 0
                        \/ /\ UNCHANGED <<armed, waves>> /\ file.enabled
                           /\ file.every = s.every /\ s.last \in {now, file.last},
           chosen' = IF s.enabled THEN names ELSE Names,
           s.enabled => Covered(s) \subseteq names
    PROVE  IInv'
  <1>1. /\ LockInv' /\ (\A g \in Handlers : th'[g].pc = "idle") /\ tk'.pc # "save"
        /\ th' \in [Handlers -> [pc : {"idle", "form", "import"}, old : Settings]]
    BY Ends
  <1>2. /\ now \in 1 .. MaxTime /\ armed \in 1 .. MaxTime /\ waves \in 0 .. MaxTime /\ armed <= now
        /\ file \in Settings /\ file.last <= now
    BY DEF IInv, TypeOK, DatesInv
  <1>3. TypeOK'
    BY <1>1, <1>2 DEF Release, IInv, TypeOK
  <1>4. LoadedInv' /\ DatesInv'
    BY <1>1, <1>2 DEF IInv, LoadedInv, DatesInv
  <1>5. ScopeAsChosen'
    BY DEF ScopeAsChosen, Covered
  <1>6. CountInv'
    <2> SUFFICES ASSUME s.enabled PROVE IF s.last = 0 THEN armed' = 1 /\ waves' = 0
                                        ELSE armed' + waves' * s.every <= s.last
      BY DEF CountInv
    <2>0. /\ s.every \in Nat /\ s.last \in Nat /\ now \in Nat /\ now # 0 /\ file.last \in Nat
          /\ waves \in Nat /\ armed \in Nat
      BY <1>2, SettingsNat
    <2>1. CASE s.last = now /\ armed' = now /\ waves' = 0
      <3>1. waves' * s.every = 0
        BY <2>0, <2>1, OneMore
      <3> QED BY <2>0, <2>1, <3>1
    <2>2. CASE UNCHANGED <<armed, waves>> /\ file.enabled /\ file.every = s.every /\ s.last \in {now, file.last}
      <3>1. file.last # 0 => armed + waves * s.every <= file.last
        BY <2>2 DEF IInv, CountInv
      <3>2. file.last = 0 => armed = 1 /\ waves = 0 /\ waves * s.every = 0
        BY <2>0, <2>2, OneMore DEF IInv, CountInv
      <3>3. waves * s.every \in Nat
        BY <2>0, OneMore
      <3>4. armed + waves * s.every <= now
        BY <1>2, <2>0, <3>1, <3>2, <3>3
      <3> QED BY <2>0, <2>2, <3>1, <3>2, <3>4
    <2> QED BY <2>1, <2>2
  <1> QED BY <1>1, <1>3, <1>4, <1>5, <1>6 DEF IInv

\* A handler that is done without saving leaves everything as it is.
LEMMA HandlerQuits ==
    ASSUME IInv, NEW h \in Handlers, th[h].pc # "idle", Release, th' = [th EXCEPT ![h] = Idle],
           UNCHANGED <<now, file, reg, chan, tk, armed, waves, chosen>>
    PROVE  IInv'
  <1>1. /\ LockInv' /\ (\A g \in Handlers : th'[g].pc = "idle") /\ tk'.pc # "save"
        /\ th' \in [Handlers -> [pc : {"idle", "form", "import"}, old : Settings]]
    BY Ends
  <1> QED BY <1>1 DEF IInv, TypeOK, LoadedInv, DatesInv, CountInv, ScopeAsChosen, Covered, Release

\* A handler takes a.mu, and has loaded the schedule or not yet.
LEMMA HandlerBegins ==
    ASSUME IInv, NEW h \in Handlers, FormLoad(h) \/ ImportLock(h)
    PROVE  IInv'
  <1>1. /\ mu = Free /\ mu' = h /\ UNCHANGED <<now, file, reg, chan, tk, armed, waves, chosen>>
    BY DEF FormLoad, ImportLock, Acquire
  <1>2. PICK j \in [pc : {"idle", "form", "import"}, old : Settings] :
           /\ th' = [th EXCEPT ![h] = j]
           /\ j.pc = "form" => j.old \in {file, Default}
    <2>1. CASE FormLoad(h)
      <3>1. PICK s \in {Default, file} : th' = [th EXCEPT ![h] = [pc |-> "form", old |-> s]]
        BY <2>1 DEF FormLoad
      <3>2. s \in Settings
        BY DefaultType DEF IInv, TypeOK
      <3>3. /\ [pc |-> "form", old |-> s] \in [pc : {"idle", "form", "import"}, old : Settings]
            /\ [pc |-> "form", old |-> s].old \in {file, Default}
        BY <3>2
      <3> QED BY <3>1, <3>3
    <2>2. CASE ImportLock(h)
      <3>1. th' = [th EXCEPT ![h] = [Idle EXCEPT !.pc = "import"]]
        BY <2>2 DEF ImportLock
      <3>2. /\ [Idle EXCEPT !.pc = "import"] \in [pc : {"idle", "form", "import"}, old : Settings]
            /\ [Idle EXCEPT !.pc = "import"].pc = "import"
        BY DefaultType
      <3> QED BY <3>1, <3>2
    <2> QED BY <2>1, <2>2
  <1>3. th' \in [Handlers -> [pc : {"idle", "form", "import"}, old : Settings]]
    BY <1>2 DEF IInv, TypeOK
  <1>4. tk.pc # "save" /\ \A g \in Handlers : th[g].pc = "idle"
    BY <1>1 DEF IInv, LockInv
  <1>5. LockInv' /\ LoadedInv'
    BY <1>1, <1>2, <1>4 DEF IInv, TypeOK, LockInv, LoadedInv
  <1> QED BY <1>1, <1>3, <1>5 DEF IInv, TypeOK, DatesInv, CountInv, ScopeAsChosen, Covered

\* The form: refused, or saved as HandlerSaves says.
LEMMA FormStep ==
    ASSUME IInv, NEW h \in Handlers, NEW f \in Form, FormSave(h, f)
    PROVE  IInv'
  <1>1. th[h].pc = "form" /\ Release /\ th' = [th EXCEPT ![h] = Idle] /\ UNCHANGED <<now, reg, chan, tk>>
    BY DEF FormSave
  <1>2. CASE UNCHANGED <<file, armed, waves, chosen>>
    BY <1>1, <1>2, HandlerQuits
  <1>3. ASSUME NEW s \in Accepted(f, th[h].old), file' = Counted(s, th[h].old),
               Rearms(s, IF f.scope = "all" THEN Names ELSE f.ticked)
        PROVE  IInv'
    <2> DEFINE old == th[h].old
               names == IF f.scope = "all" THEN Names ELSE f.ticked
               new == Counted(s, old)
    <2>1. /\ old \in Settings /\ old \in {file, Default} /\ reg \subseteq Names /\ now \in 1 .. MaxTime
          /\ file \in Settings /\ file.last <= now
      BY <1>1 DEF IInv, TypeOK, LoadedInv, DatesInv
    <2>2. /\ s \in Settings /\ s.last = old.last
          /\ s.enabled => /\ f.scope = "all" => s.only = {}
                          /\ f.scope = "selected" => s.only # {} /\ s.only \subseteq f.ticked
          /\ f.scope \in {"all", "selected"} /\ f.ticked \subseteq Names
      BY <2>1, AcceptedType
    <2>3. /\ new \in Settings /\ new.enabled = s.enabled /\ new.every = s.every /\ new.only = s.only
          /\ \/ new.last = now
             \/ /\ new = s
                /\ s.enabled => old.enabled /\ old.every = s.every /\ old.last # 0
      BY <2>1, <2>2, CountedType
    <2>4. names \in SUBSET Names /\ (s.enabled => Covered(new) \subseteq names)
      BY <2>2, <2>3 DEF Covered
    <2>5. new.last <= now
      BY <2>1, <2>2, <2>3, DefaultType
    <2>6. /\ (armed' \in {1, now} /\ waves' = 0) \/ UNCHANGED <<armed, waves>>
          /\ chosen' = IF new.enabled THEN names ELSE Names
      BY <1>3, <2>3 DEF Rearms
    <2>7. new.enabled => \/ new.last = now /\ armed' = now /\ waves' = 0
                         \/ /\ UNCHANGED <<armed, waves>> /\ file.enabled
                            /\ file.every = new.every /\ new.last \in {now, file.last}
      <3> SUFFICES ASSUME s.enabled
                   PROVE  \/ new.last = now /\ armed' = now /\ waves' = 0
                          \/ /\ UNCHANGED <<armed, waves>> /\ file.enabled
                             /\ file.every = new.every /\ new.last \in {now, file.last}
        BY <2>3
      <3>1. CASE ~file.enabled \/ file.every # s.every
        <4>1. armed' = now /\ waves' = 0
          BY <1>3, <3>1 DEF Rearms
        <4>2. new.last = now
          BY <2>1, <2>3, <3>1, DefaultType
        <4> QED BY <4>1, <4>2
      <3>2. CASE ~(~file.enabled \/ file.every # s.every)
        <4>1. UNCHANGED <<armed, waves>> /\ file.enabled /\ file.every = new.every
          BY <1>3, <2>1, <2>3, <3>2 DEF Rearms, Settings
        <4>2. new.last \in {now, file.last}
          BY <2>1, <2>2, <2>3, DefaultType
        <4> QED BY <4>1, <4>2
      <3> QED BY <3>1, <3>2
    <2>8. file' = new /\ th[h].pc # "idle" /\ (new.enabled => Covered(new) \subseteq names)
      BY <1>1, <1>3, <2>3, <2>4
    <2> HIDE DEF old, names, new
    <2> QED BY <1>1, <2>3, <2>4, <2>5, <2>6, <2>7, <2>8, HandlerSaves
  <1> QED BY <1>2, <1>3 DEF FormSave

\* The import: a schedule that counts down from now.
LEMMA ImportStep ==
    ASSUME IInv, NEW h \in Handlers, ImportSchedule(h)
    PROVE  IInv'
  <1>1. /\ th[h].pc # "idle" /\ Release /\ th' = [th EXCEPT ![h] = Idle]
        /\ UNCHANGED <<now, reg, chan, tk>> /\ waves' = 0
    BY DEF ImportSchedule
  <1>2. PICK on \in BOOLEAN, k \in Intervals, only \in SUBSET Names :
           LET s == [enabled |-> on, every |-> k, only |-> only, last |-> IF on THEN now ELSE 0]
           IN  /\ file' = s /\ armed' = (IF on THEN now ELSE 1)
               /\ chosen' = IF on THEN Covered(s) ELSE Names
    BY DEF ImportSchedule
  <1> DEFINE s == [enabled |-> on, every |-> k, only |-> only, last |-> IF on THEN now ELSE 0]
  <1>3. now \in 1 .. MaxTime
    BY DEF IInv, TypeOK
  <1>4. /\ s \in Settings /\ s.last <= now /\ (s.enabled => s.last = now)
        /\ file' = s /\ chosen' = IF s.enabled THEN Covered(s) ELSE Names
        /\ armed' \in {1, now} /\ (s.enabled => armed' = now)
    BY <1>2, <1>3 DEF Settings
  <1>5. Covered(s) \in SUBSET Names
    BY DEF Covered
  <1> HIDE DEF s
  <1> QED BY <1>1, <1>4, <1>5, HandlerSaves

\* The panel stops and comes back: only the file and the registry are left.
LEMMA RestartStep == ASSUME IInv, PanelRestarts PROVE IInv'
  <1>1. /\ UNCHANGED <<file, reg, armed, waves, chosen>> /\ now' \in now .. MaxTime
        /\ chan' = 0 /\ mu' = Free /\ tk' = Resting /\ th' = [h \in Handlers |-> Idle]
    BY DEF PanelRestarts
  <1>2. CountInv' /\ ScopeAsChosen' /\ file'.last <= now' /\ armed' <= now' /\ now' \in 1 .. MaxTime
    BY <1>1, Kept
  <1> QED BY <1>1, <1>2, DefaultType DEF IInv, TypeOK, LockInv, LoadedInv, DatesInv

\* The registry changes: the schedule's names may be of removed locations.
LEMMA RegistryStep == ASSUME IInv, NEW n \in Names, RegistryChanges(n) PROVE IInv'
    BY DEF RegistryChanges, IInv, TypeOK, LockInv, LoadedInv, DatesInv, CountInv, ScopeAsChosen, Covered

\* The invariant is inductive, ...
LEMMA InvStep == IInv /\ [Next]_vars => IInv'
  <1> SUFFICES ASSUME IInv, [Next]_vars PROVE IInv'
    OBVIOUS
  <1>1. CASE Minute \/ Tick \/ TickLoad
    BY <1>1, TickerStep, TickSaveStep DEF Tick
  <1>2. ASSUME NEW h \in Handlers, FormLoad(h) \/ ImportLock(h) PROVE IInv'
    BY <1>2, HandlerBegins
  <1>3. ASSUME NEW h \in Handlers, Finish(h) PROVE IInv'
    <2>1. CASE SaveFails(h) \/ ImportNone(h)
      BY <2>1, HandlerQuits DEF SaveFails, ImportNone
    <2> QED BY <1>3, <2>1, FormStep, ImportStep DEF Finish
  <1>4. ASSUME NEW n \in Names, RegistryChanges(n) PROVE IInv'
    BY <1>4, RegistryStep
  <1>5. CASE PanelRestarts
    BY <1>5, RestartStep
  <1>6. CASE UNCHANGED vars
    BY <1>6 DEF vars, IInv, TypeOK, LockInv, LoadedInv, DatesInv, CountInv, ScopeAsChosen, Covered
  <1> QED BY <1>1, <1>2, <1>3, <1>4, <1>5, <1>6 DEF Next

\* ... and holds on a new server.
LEMMA InvInit == Init => IInv
  <1> SUFFICES ASSUME Init PROVE IInv
    OBVIOUS
  <1>1. PICK on \in BOOLEAN : file = [Default EXCEPT !.enabled = on]
    BY DEF Init
  <1>2. file \in Settings /\ file.last = 0 /\ file.only = {}
    BY <1>1 DEF Default, Settings
  <1> QED BY <1>2, DefaultType DEF Init, IInv, TypeOK, LockInv, LoadedInv, DatesInv, CountInv,
                                   ScopeAsChosen, Covered

\* The schedule file, its readers and its writers keep the invariant in every state.
THEOREM ScheduleInvariance == Spec => []IInv
    BY InvInit, InvStep, PTL DEF Spec

\* Every variable keeps its shape, and the file a schedule that would be accepted.
THEOREM ScheduleTypeCorrect == Spec => []TypeOK
  <1>1. IInv => TypeOK
    BY DEF IInv
  <1> QED BY <1>1, ScheduleInvariance, PTL

\* Waves keep their distance: no late tick, failed save or restart of the panel
\* makes k waves in less than k intervals (autoRestartStep, handleAutoRestart).
THEOREM NoExtraWaveCorrect == Spec => []NoExtraWave
  <1>1. IInv => NoExtraWave
    <2> SUFFICES ASSUME IInv, file.enabled PROVE armed + waves * file.every <= now
      BY DEF NoExtraWave
    <2>1. /\ file.every \in Nat /\ file.last \in Nat /\ file.last <= now /\ armed <= now
          /\ now \in Nat /\ waves \in Nat /\ armed \in Nat
      BY SettingsNat DEF IInv, TypeOK, DatesInv
    <2>2. waves * file.every \in Nat /\ 0 * file.every = 0
      BY <2>1, OneMore
    <2> QED BY <2>1, <2>2 DEF IInv, CountInv
  <1> QED BY <1>1, ScheduleInvariance, PTL

\* A schedule never covers a location that was not chosen for it: an empty Only,
\* which means all of them, is only saved when all were chosen (handleAutoRestart).
THEOREM ScopeCorrect == Spec => []ScopeAsChosen
  <1>1. IInv => ScopeAsChosen
    BY DEF IInv
  <1> QED BY <1>1, ScheduleInvariance, PTL

\* Of the steps by which a tick leaves its critical section, only TickSave writes
\* the file, and of what it loaded it changes LastRun only.
LEMMA EditStep ==
    ASSUME IInv, [Next]_vars, tk.pc = "save", tk'.pc # "save"
    PROVE  [file' EXCEPT !.last = 0] = [file EXCEPT !.last = 0]
  <1>1. TickSave \/ file' = file
    BY DEF Next, Tick, Finish, Minute, TickReceive, TickLoad, TickSkip, WaveReturns, FormLoad, FormSave,
           SaveFails, ImportLock, ImportSchedule, ImportNone, RegistryChanges, PanelRestarts, vars
  <1>2. CASE TickSave /\ file' # file
    <2>1. file' = Step(tk.old, tk.stamp) /\ Step(tk.old, tk.stamp).last # tk.old.last
      BY <1>2 DEF TickSave, Counts
    <2>2. tk.old \in Settings /\ tk.stamp \in 0 .. MaxTime /\ tk.old \in {file, Default}
      BY DEF IInv, TypeOK, LoadedInv
    <2>3. tk.old.enabled
      BY <2>1, <2>2, StepType
    <2>4. tk.old = file
      BY <2>2, <2>3, DefaultType
    <2>5. file' = [file EXCEPT !.last = tk.stamp] \/ file' = file
      BY <2>1, <2>4 DEF Step
    <2> QED BY <2>2, <2>4, <2>5 DEF Settings
  <1> QED BY <1>1, <1>2

\* A tick never overwrites a schedule that was saved while it was at work: it
\* saves what the file holds, with a new LastRun (autoRestartTick, a.mu).
THEOREM NoLostEditCorrect == Spec => NoLostEdit
  <1>1. IInv /\ [Next]_vars => [tk.pc = "save" /\ tk'.pc # "save" =>
              [file' EXCEPT !.last = 0] = [file EXCEPT !.last = 0]]_vars
    BY EditStep DEF vars
  <1> QED BY <1>1, ScheduleInvariance, PTL DEF Spec, NoLostEdit
=============================================================================
