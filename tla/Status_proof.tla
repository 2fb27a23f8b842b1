---------------------------- MODULE Status_proof ----------------------------
(* Proofs for Status: whatever locations, regions, lifetimes and runs, the *)
(* rows that polls share list what is registered, and the region of a run  *)
(* is not forgotten.                                                       *)
EXTENDS Status, TLAPS

USE StatusTimesAssumption, StatusNowhereAssumption

UnitRecord == [active : BOOLEAN, run : 0 .. MaxRun, said : Note]

\* What it means to be a function on some of the names.
LEMMA PartialType ==
    ASSUME NEW S
    PROVE  /\ \A f \in Partial(S) : DOMAIN f \in SUBSET Names /\ f \in [DOMAIN f -> S]
           /\ \A D \in SUBSET Names : \A f \in [D -> S] : f \in Partial(S)
           /\ \A f \in Partial(S) : \A n \in DOMAIN f, x \in S : [f EXCEPT ![n] = x] \in Partial(S)
  <1>1. \A f \in Partial(S) : \E D \in SUBSET Names : f \in [D -> S]
    BY DEF Partial
  <1>2. \A D \in SUBSET Names : \A f \in [D -> S] : f \in Partial(S)
    BY DEF Partial
  <1>3. ASSUME NEW f \in Partial(S), NEW n \in DOMAIN f, NEW x \in S
        PROVE  [f EXCEPT ![n] = x] \in Partial(S)
    <2>1. PICK D \in SUBSET Names : f \in [D -> S]
      BY <1>1
    <2>2. [f EXCEPT ![n] = x] \in [D -> S]
      BY <2>1
    <2> QED BY <1>2, <2>2
  <1> QED BY <1>1, <1>2, <1>3

\* A note that a newer one is laid over is a note.
LEMMA NewerType ==
    ASSUME NEW note \in Note, NEW state \in {"none", "up", "down"}, NEW region \in Regions \cup {Nowhere}
    PROVE  Newer(note, state, region) \in Note
    BY DEF Note, Newer

LEMMA Blanks ==
    /\ Blank \in Note /\ NoRunInfo \in RunInfo /\ NoRunInfo.run = 0 /\ NoRunInfo.region = Nowhere
    /\ 0 \in 0 .. RowsTTL /\ RowsTTL \in 0 .. RowsTTL /\ 0 \in 0 .. UnitsTTL /\ UnitsTTL \in 0 .. UnitsTTL
    /\ 0 \in 0 .. ActiveTTL /\ 0 \in 0 .. MaxRun
    BY DEF Blank, Note, NoRunInfo, RunInfo, States

-----------------------------------------------------------------------------
(* Units, journals and actions, which leave the caches alone.              *)

\* A new run, or the end of one.
LEMMA UnitSteps ==
    ASSUME TypeOK, WorkInv, NEW n \in Names, NewRun(n) \/ Stops(n) \/ Starts(n)
    PROVE  unit' \in [Names -> UnitRecord] /\ \A m \in Names : unit'[m].active => unit'[m].run # 0
  <1>1. unit \in [Names -> UnitRecord] /\ \A m \in Names : unit[m].active => unit[m].run # 0
    BY DEF TypeOK, UnitRecord, WorkInv
  <1>2. CASE NewRun(n)
    <2>1. unit[n].run + 1 \in 1 .. MaxRun
      BY <1>1, <1>2 DEF NewRun, UnitRecord
    <2>2. unit' = [unit EXCEPT ![n] = [active |-> TRUE, run |-> unit[n].run + 1, said |-> Blank]]
      BY <1>2 DEF NewRun
    <2>3. [active |-> TRUE, run |-> unit[n].run + 1, said |-> Blank] \in UnitRecord
      BY <2>1, Blanks DEF UnitRecord
    <2> QED BY <1>1, <2>1, <2>2, <2>3
  <1>3. CASE Stops(n)
    <2>1. unit' = [unit EXCEPT ![n] = [unit[n] EXCEPT !.active = FALSE, !.said = Blank]]
      BY <1>1, <1>3 DEF Stops
    <2>2. [unit[n] EXCEPT !.active = FALSE, !.said = Blank] \in UnitRecord
      BY <1>1, Blanks DEF UnitRecord
    <2>3. ~[unit[n] EXCEPT !.active = FALSE, !.said = Blank].active
      BY <1>1 DEF UnitRecord
    <2> QED BY <1>1, <2>1, <2>2, <2>3
  <1> QED BY <1>1, <1>2, <1>3 DEF Starts

\* What a tunnel says.
LEMMA SaysStep ==
    ASSUME TypeOK, WorkInv, NEW n \in Names, NEW state \in {"none", "up", "down"},
           NEW region \in Regions \cup {Nowhere}, Says(n, state, region)
    PROVE  /\ unit' \in [Names -> UnitRecord] /\ \A m \in Names : unit'[m].active => unit'[m].run # 0
           /\ journal' \in [Names -> Note]
  <1>1. unit \in [Names -> UnitRecord] /\ \A m \in Names : unit[m].active => unit[m].run # 0
    BY DEF TypeOK, UnitRecord, WorkInv
  <1>2. Newer(unit[n].said, state, region) \in Note /\ Newer(journal[n], state, region) \in Note
    BY <1>1, NewerType DEF TypeOK, UnitRecord
  <1>3. /\ unit' = [unit EXCEPT ![n] = [unit[n] EXCEPT !.said = Newer(unit[n].said, state, region)]]
        /\ journal' = [journal EXCEPT ![n] = Newer(journal[n], state, region)]
    BY <1>1 DEF Says, Logged
  <1>4. /\ [unit[n] EXCEPT !.said = Newer(unit[n].said, state, region)] \in UnitRecord
        /\ [unit[n] EXCEPT !.said = Newer(unit[n].said, state, region)].active = unit[n].active
        /\ [unit[n] EXCEPT !.said = Newer(unit[n].said, state, region)].run = unit[n].run
    BY <1>1, <1>2 DEF UnitRecord
  <1> QED BY <1>1, <1>2, <1>3, <1>4 DEF TypeOK

\* A unit's last word, if it has one.
LEMMA LastWordType ==
    ASSUME TypeOK, NEW n \in Names, LastWord(n) \/ UNCHANGED journal
    PROVE  journal' \in [Names -> Note]
  <1>1. Newer(journal[n], "down", Nowhere) \in Note
    BY NewerType DEF TypeOK
  <1> QED BY <1>1 DEF LastWord, Logged, TypeOK

\* A step that leaves the caches and the computation alone keeps the invariant, if it changes
\* the registry only together with an action that is still to end.
LEMMA EnvKeeps ==
    ASSUME IInv, UNCHANGED <<caches, comp>>,
           unit' \in [Names -> UnitRecord], \A m \in Names : unit'[m].active => unit'[m].run # 0,
           journal' \in [Names -> Note], reg' \in SUBSET Names,
           acts' \in [Names -> {"none", "start", "done", "remove", "unregister", "removed"}],
           \A n \in Names : acts'[n] = "none" => acts[n] = "none" /\ (n \in reg' <=> n \in reg)
    PROVE  IInv'
  <1>1. UNCHANGED <<rows, units, runCache, comp>>
    BY DEF caches
  <1>2. TypeOK'
    BY <1>1 DEF IInv, TypeOK, UnitRecord
  <1>3. WorkInv'
    BY <1>1 DEF IInv, WorkInv
  <1>4. ListedInv'
    BY <1>1 DEF IInv, ListedInv, Listed
  <1>5. RegionInv'
    BY <1>1 DEF IInv, RegionInv
  <1> QED BY <1>2, <1>3, <1>4, <1>5 DEF IInv

\* Tunnels, systemd, psictl, and the admin's actions but for their last steps.
LEMMA EnvStep ==
    ASSUME IInv, NEW n \in Names,
           \/ Tunnel(n) \/ Scrolls(n) \/ Dies(n) \/ Psictl(n)
           \/ Add(n) \/ Restart(n) \/ Stop(n) \/ Start(n) \/ Unregister(n)
    PROVE  IInv'
  <1>0. /\ TypeOK /\ WorkInv
        /\ unit \in [Names -> UnitRecord] /\ \A m \in Names : unit[m].active => unit[m].run # 0
        /\ journal \in [Names -> Note] /\ reg \in SUBSET Names
        /\ acts \in [Names -> {"none", "start", "done", "remove", "unregister", "removed"}]
    BY DEF IInv, TypeOK, WorkInv, UnitRecord
  <1>1. CASE Tunnel(n)
    <2>1. \E state \in {"none", "up", "down"}, region \in Regions \cup {Nowhere} : Says(n, state, region)
      BY <1>1 DEF Tunnel, Connects, Disconnects, Transfers
    <2>2. UNCHANGED <<reg, acts, caches, comp>>
      BY <2>1 DEF Says, Outside
    <2> QED BY <1>0, <2>1, <2>2, SaysStep, EnvKeeps
  <1>2. CASE Scrolls(n)
    <2>1. UNCHANGED <<reg, acts, caches, comp, unit>>
      BY <1>2 DEF Scrolls, Outside
    <2>2. /\ [journal[n] EXCEPT !.state = "none"] \in Note
          /\ [journal[n] EXCEPT !.region = Nowhere] \in Note
      BY <1>0 DEF Note
    <2>3. \/ journal' = [journal EXCEPT ![n] = [journal[n] EXCEPT !.state = "none"]]
          \/ journal' = [journal EXCEPT ![n] = [journal[n] EXCEPT !.region = Nowhere]]
      BY <1>0, <1>2 DEF Scrolls
    <2>4. PICK note \in Note : journal' = [journal EXCEPT ![n] = note]
      BY <2>2, <2>3 DEF Note
    <2>5. journal' \in [Names -> Note]
      BY <1>0, <2>4
    <2> QED BY <1>0, <2>1, <2>5, EnvKeeps
  <1>3. CASE Dies(n)
    <2>1. UNCHANGED <<reg, acts, caches, comp>> /\ NewRun(n) /\ LastWord(n)
      BY <1>3 DEF Dies, Outside
    <2> QED BY <1>0, <2>1, UnitSteps, LastWordType, EnvKeeps
  <1>4. CASE Psictl(n)
    <2>1. UNCHANGED <<reg, acts, caches, comp>> /\ (Stops(n) \/ Starts(n)) /\ (LastWord(n) \/ UNCHANGED journal)
      BY <1>4 DEF Psictl, Outside
    <2> QED BY <1>0, <2>1, UnitSteps, LastWordType, EnvKeeps
  <1>5. CASE Add(n)
    <2>1. /\ UNCHANGED <<unit, journal, caches, comp>> /\ reg' = reg \cup {n}
          /\ acts' = [acts EXCEPT ![n] = "start"]
      BY <1>5 DEF Add
    <2> QED BY <1>0, <2>1, EnvKeeps
  <1>6. ASSUME NEW ACTION effect, Command(n, effect), effect => NewRun(n) \/ Stops(n) \/ Starts(n),
               NEW a \in {"start", "done", "remove", "unregister", "removed"}, acts' = [acts EXCEPT ![n] = a]
        PROVE  IInv'
    <2>1. UNCHANGED <<reg, caches, comp>>
      BY <1>6 DEF Command
    <2>2. CASE effect
      <3>1. LastWord(n) \/ UNCHANGED journal
        BY <1>6 DEF Command
      <3> QED BY <1>0, <1>6, <2>1, <2>2, <3>1, UnitSteps, LastWordType, EnvKeeps
    <2>3. CASE ~effect
      <3>1. UNCHANGED <<unit, journal>>
        BY <1>6, <2>3 DEF Command
      <3> QED BY <1>0, <1>6, <2>1, <3>1, EnvKeeps
    <2> QED BY <2>2, <2>3
  <1>7. CASE Restart(n)
    BY <1>6, <1>7 DEF Restart
  <1>8. CASE Stop(n)
    BY <1>6, <1>8 DEF Stop
  <1>9. CASE Start(n)
    BY <1>6, <1>9 DEF Start
  <1>10. CASE Unregister(n)
    <2>1. /\ UNCHANGED <<unit, journal, caches, comp>> /\ reg' \in {reg \ {n}, reg}
          /\ acts' = [acts EXCEPT ![n] = "removed"]
      BY <1>10 DEF Unregister
    <2> QED BY <1>0, <2>1, EnvKeeps
  <1> QED BY <1>1, <1>2, <1>3, <1>4, <1>5, <1>7, <1>8, <1>9, <1>10

-----------------------------------------------------------------------------
(* The ends of the actions, and the passing of time.                       *)

RowsRecord == [val : Partial(Row), current : BOOLEAN, age : 0 .. RowsTTL]
UnitsRecord == [key : SUBSET Names, val : Partial(UnitState), age : 0 .. UnitsTTL]
CompRecord == [pc : {"none", "list", "units", "rows"}, current : BOOLEAN,
               list : SUBSET Names, work : Partial(Work)]
ActsType == [Names -> {"none", "start", "done", "remove", "unregister", "removed"}]

\* An action ends, and what was computed or is being computed is of an older generation.
LEMMA InvalidateStep ==
    ASSUME IInv, NEW n \in Names, Invalidate(n) \/ Removed(n)
    PROVE  IInv'
  <1>1. /\ UNCHANGED <<reg, unit, journal, units>>
        /\ rows' = [rows EXCEPT !.current = FALSE, !.age = RowsTTL]
        /\ comp' = [comp EXCEPT !.current = FALSE]
        /\ runCache' = [runCache EXCEPT ![n] = NoRunInfo] \/ UNCHANGED runCache
    BY DEF Invalidate, Removed, InvalidateRows
  <1>2. acts' \in ActsType
    <2>1. acts \in ActsType
      BY DEF IInv, TypeOK, ActsType
    <2>2. CASE Invalidate(n)
      BY <2>1, <2>2 DEF Invalidate, ActsType
    <2>3. CASE Removed(n)
      BY <2>1, <2>3 DEF Removed, ActsType
    <2> QED BY <2>2, <2>3
  <1>3. rows \in RowsRecord /\ comp \in CompRecord /\ runCache \in [Names -> RunInfo]
    BY DEF IInv, TypeOK, RowsRecord, CompRecord
  <1>4. rows' \in RowsRecord /\ rows'.current = FALSE
    BY <1>1, <1>3, Blanks DEF RowsRecord
  <1>5. /\ comp' \in CompRecord /\ comp'.current = FALSE
        /\ comp'.pc = comp.pc /\ comp'.list = comp.list /\ comp'.work = comp.work
    BY <1>1, <1>3 DEF CompRecord
  <1>6. /\ runCache' \in [Names -> RunInfo]
        /\ \A m \in Names : runCache'[m] = runCache[m] \/ runCache'[m] = NoRunInfo
    BY <1>1, <1>3, Blanks
  <1>7. TypeOK'
    BY <1>1, <1>2, <1>4, <1>5, <1>6 DEF IInv, TypeOK, RowsRecord, CompRecord, ActsType
  <1>8. WorkInv'
    BY <1>1, <1>5 DEF IInv, WorkInv
  <1>9. ListedInv'
    BY <1>4, <1>5 DEF ListedInv
  <1>10. RegionInv'
    <2>1. ASSUME NEW m \in Names, runCache'[m].run = 0
          PROVE  runCache'[m].region = Nowhere
      BY <1>6, <2>1, Blanks DEF IInv, RegionInv
    <2>2. ASSUME comp.pc = "rows", NEW m \in comp.list, comp.work[m].pc \in {"logs", "store"},
                 runCache'[m].run = comp.work[m].run, runCache'[m].region # Nowhere
          PROVE  comp.work[m].region # Nowhere
      <3>1. m \in Names
        BY <1>3 DEF CompRecord
      <3>2. runCache'[m] = runCache[m]
        BY <1>6, <2>2, <3>1, Blanks
      <3> QED BY <2>2, <3>2 DEF IInv, RegionInv
    <2> QED BY <1>5, <2>1, <2>2 DEF RegionInv
  <1> QED BY <1>7, <1>8, <1>9, <1>10 DEF IInv

\* An age that has grown to the end of its range stays there.
LEMMA AgeType ==
    ASSUME NEW ttl \in Nat, NEW age \in 0 .. ttl
    PROVE  Lesser(age + 1, ttl) \in 0 .. ttl
    BY DEF Lesser

LEMMA TickStep ==
    ASSUME IInv, Tick
    PROVE  IInv'
  <1>1. rows \in RowsRecord /\ units \in UnitsRecord /\ runCache \in [Names -> RunInfo]
    BY DEF IInv, TypeOK, RowsRecord, UnitsRecord
  <1>2. UNCHANGED <<reg, unit, journal, acts, comp>>
    BY DEF Tick, env
  <1>3. /\ rows' \in RowsRecord
        /\ rows'.val = rows.val /\ rows'.current = rows.current
    <2>1. Lesser(rows.age + 1, RowsTTL) \in 0 .. RowsTTL
      BY <1>1, AgeType DEF RowsRecord
    <2> QED BY <1>1, <2>1 DEF RowsRecord, Tick
  <1>4. /\ units' \in UnitsRecord
        /\ units'.key = units.key /\ units'.val = units.val
    <2>1. Lesser(units.age + 1, UnitsTTL) \in 0 .. UnitsTTL
      BY <1>1, AgeType DEF UnitsRecord
    <2> QED BY <1>1, <2>1 DEF UnitsRecord, Tick
  <1>5. /\ runCache' \in [Names -> RunInfo]
        /\ \A n \in Names : runCache'[n].run = runCache[n].run /\ runCache'[n].region = runCache[n].region
    <2> DEFINE Aged(e) == [e EXCEPT !.age = IF e.run = 0 THEN 0 ELSE Lesser(e.age + 1, ActiveTTL)]
    <2>1. ASSUME NEW e \in RunInfo
          PROVE  Aged(e) \in RunInfo /\ Aged(e).run = e.run /\ Aged(e).region = e.region
      <3>1. Lesser(e.age + 1, ActiveTTL) \in 0 .. ActiveTTL
        BY AgeType DEF RunInfo
      <3> QED BY <3>1, Blanks DEF RunInfo
    <2>2. runCache' = [n \in Names |-> Aged(runCache[n])]
      BY <1>1 DEF Tick, RunInfo
    <2> QED BY <1>1, <2>1, <2>2
  <1>6. TypeOK'
    BY <1>2, <1>3, <1>4, <1>5 DEF IInv, TypeOK, RowsRecord, UnitsRecord
  <1>7. WorkInv'
    BY <1>2, <1>4 DEF IInv, WorkInv
  <1>8. ListedInv'
    BY <1>2, <1>3 DEF IInv, ListedInv, Listed
  <1>9. RegionInv'
    <2>1. comp.list \subseteq Names
      BY DEF IInv, TypeOK
    <2> QED BY <1>2, <1>5, <2>1 DEF IInv, RegionInv
  <1> QED BY <1>6, <1>7, <1>8, <1>9 DEF IInv

-----------------------------------------------------------------------------
(* The poll that computes the rows.                                        *)

\* Steps of a computation that leave the caches and the environment alone.
LEMMA CompKeeps ==
    ASSUME IInv, UNCHANGED <<env, caches>>, comp' \in CompRecord,
           comp'.pc = "rows" => DOMAIN comp'.work = comp'.list,
           \A n \in DOMAIN comp'.work : comp'.work[n].pc # "done" => comp'.work[n].run # 0,
           comp'.current /\ comp'.pc \in {"units", "rows"} => Listed(comp'.list),
           comp'.pc = "rows" => \A n \in comp'.list :
              /\ comp'.work[n].pc \in {"logs", "store"} /\ runCache[n].run = comp'.work[n].run
              /\ runCache[n].region # Nowhere
              => comp'.work[n].region # Nowhere
    PROVE  IInv'
  <1>1. UNCHANGED <<reg, unit, journal, acts, rows, units, runCache>>
    BY DEF env, caches
  <1>2. TypeOK'
    BY <1>1 DEF IInv, TypeOK, CompRecord
  <1>3. WorkInv'
    BY <1>1 DEF IInv, WorkInv
  <1>4. ListedInv'
    BY <1>1 DEF IInv, ListedInv, Listed
  <1>5. RegionInv'
    BY <1>1 DEF IInv, RegionInv
  <1> QED BY <1>2, <1>3, <1>4, <1>5 DEF IInv

\* Nothing being computed.
LEMMA Empty ==
    /\ NoComp \in CompRecord /\ NoComp.pc = "none" /\ DOMAIN NoComp.work = {} /\ NoComp.list = {}
    /\ NoRows \in RowsRecord /\ NoRows.current = FALSE
  <1>1. [n \in {} |-> Blank] \in [{} -> Work] /\ [n \in {} |-> Blank] \in [{} -> Row]
    OBVIOUS
  <1>2. [n \in {} |-> Blank] \in Partial(Work) /\ [n \in {} |-> Blank] \in Partial(Row)
    BY <1>1, PartialType
  <1> QED BY <1>2, Blanks DEF NoComp, NoRows, CompRecord, RowsRecord

\* A poll starts to compute, reads the registry, or cannot.
LEMMA ListSteps ==
    ASSUME IInv, Compute \/ List \/ ListFails
    PROVE  IInv'
  <1>1. comp \in CompRecord /\ UNCHANGED <<env, caches>>
    BY DEF IInv, TypeOK, CompRecord, Compute, List, ListFails
  <1>2. CASE Compute
    <2>1. comp' = [NoComp EXCEPT !.pc = "list", !.current = TRUE]
      BY <1>2 DEF Compute
    <2>2. /\ comp' \in CompRecord /\ comp'.pc = "list" /\ DOMAIN comp'.work = {}
      BY <2>1, Empty DEF CompRecord
    <2> QED BY <1>1, <2>2, CompKeeps
  <1>3. CASE List
    <2>1. comp' = [comp EXCEPT !.pc = "units", !.list = reg] /\ reg \in SUBSET Names
      BY <1>3 DEF List, IInv, TypeOK
    <2>2. /\ comp' \in CompRecord /\ comp'.pc = "units" /\ comp'.work = comp.work /\ comp'.list = reg
      BY <1>1, <2>1 DEF CompRecord
    <2>3. \A n \in DOMAIN comp'.work : comp'.work[n].pc # "done" => comp'.work[n].run # 0
      BY <2>2 DEF IInv, WorkInv
    <2>4. Listed(comp'.list)
      BY <2>2 DEF Listed
    <2> QED BY <1>1, <2>2, <2>3, <2>4, CompKeeps
  <1>4. CASE ListFails
    <2>1. comp' = NoComp
      BY <1>4 DEF ListFails
    <2> QED BY <1>1, <2>1, Empty, CompKeeps
  <1> QED BY <1>2, <1>3, <1>4

\* A row in the making, from what systemctl show says of its unit.
LEMMA WorkingType ==
    ASSUME NEW st \in UnitState, st.state = "active" => st.run # 0
    PROVE  /\ Working(st) \in Work /\ Working(st).pc \notin {"logs", "store"}
           /\ Working(st).pc # "done" => Working(st).run # 0
    BY DEF Working, Work, UnitState, States

\* Every answer of systemctl show is of the asked units, and a running unit has a run.
LEMMA AnswersType ==
    ASSUME IInv, NEW val \in Answers
    PROVE  val \in [comp.list -> UnitState] /\ \A n \in comp.list : val[n].state = "active" => val[n].run # 0
  <1>1. /\ comp.list \subseteq Names /\ unit \in [Names -> UnitRecord]
        /\ \A n \in Names : unit[n].active => unit[n].run # 0
    BY DEF IInv, TypeOK, WorkInv, UnitRecord
  <1>2. CASE val = [n \in comp.list |-> [state |-> IF unit[n].active THEN "active" ELSE "inactive",
                                         run |-> unit[n].run]]
    <2>1. ASSUME NEW n \in comp.list
          PROVE  /\ val[n] \in UnitState
                 /\ val[n].state = "active" => val[n].run # 0
      BY <1>1, <1>2 DEF UnitState, UnitRecord
    <2> QED BY <1>2, <2>1
  <1>3. CASE val = [n \in comp.list |-> Unasked]
    <2>1. Unasked \in UnitState /\ Unasked.state # "active"
      BY Blanks DEF Unasked, UnitState
    <2> QED BY <1>3, <2>1
  <1> QED BY <1>2, <1>3 DEF Answers

\* The states of the units: what a poll goes on with, and what polls share.
LEMMA UnitsStep ==
    ASSUME IInv, Units
    PROVE  IInv'
  <1>1. /\ comp \in CompRecord /\ comp.pc = "units" /\ units \in UnitsRecord /\ DOMAIN units.val = units.key
        /\ UNCHANGED <<reg, unit, journal, acts, rows, runCache>>
    BY DEF IInv, TypeOK, CompRecord, UnitsRecord, Units, env
  <1>2. PICK val \in [comp.list -> UnitState] :
           /\ ToWork(val) /\ \A n \in comp.list : val[n].state = "active" => val[n].run # 0
           /\ \/ UNCHANGED units
              \/ units' = [key |-> comp.list, val |-> val, age |-> 0]
    <2>1. CASE units.key = comp.list /\ units.age < UnitsTTL
      <3>1. units.val \in [comp.list -> UnitState]
        BY <1>1, <2>1, PartialType DEF UnitsRecord
      <3>2. \A n \in comp.list : units.val[n].state = "active" => units.val[n].run # 0
        BY <2>1 DEF IInv, WorkInv
      <3>3. ToWork(units.val) /\ UNCHANGED units
        BY <2>1 DEF Units
      <3> QED BY <3>1, <3>2, <3>3
    <2>2. CASE ~(units.key = comp.list /\ units.age < UnitsTTL)
      <3>1. PICK val \in Answers : ToWork(val) /\ units' = [key |-> comp.list, val |-> val, age |-> 0]
        BY <2>2 DEF Units
      <3> QED BY <3>1, AnswersType
    <2> QED BY <2>1, <2>2
  <1>3. comp.list \in SUBSET Names
    BY <1>1 DEF CompRecord
  <1>4. /\ units' \in UnitsRecord /\ DOMAIN units'.val = units'.key
        /\ \A n \in units'.key : units'.val[n].state = "active" => units'.val[n].run # 0
    <2>1. CASE UNCHANGED units
      BY <1>1, <2>1 DEF IInv, WorkInv
    <2>2. CASE units' = [key |-> comp.list, val |-> val, age |-> 0]
      <3>1. val \in Partial(UnitState)
        BY <1>3, PartialType
      <3> QED BY <1>2, <1>3, <2>2, <3>1, Blanks DEF UnitsRecord
    <2> QED BY <1>2, <2>1, <2>2
  <1>5. DEFINE work == [n \in comp.list |-> Working(val[n])]
  <1>6. /\ work \in [comp.list -> Work]
        /\ \A n \in comp.list : /\ work[n].pc \notin {"logs", "store"}
                                /\ work[n].pc # "done" => work[n].run # 0
    BY <1>2, WorkingType
  <1>7. work \in Partial(Work)
    BY <1>3, <1>6, PartialType
  <1>8. comp' = [comp EXCEPT !.pc = "rows", !.work = work]
    BY <1>2 DEF ToWork
  <1> HIDE DEF work
  <1>9. /\ comp' \in CompRecord /\ comp'.pc = "rows" /\ comp'.work = work /\ comp'.list = comp.list
        /\ comp'.current = comp.current
    BY <1>1, <1>7, <1>8 DEF CompRecord
  <1>10. TypeOK'
    BY <1>1, <1>4, <1>9 DEF IInv, TypeOK, UnitsRecord, CompRecord
  <1>11. WorkInv'
    <2>1. DOMAIN work = comp.list
      BY <1>6
    <2> QED BY <1>1, <1>4, <1>6, <1>9, <2>1 DEF IInv, WorkInv
  <1>12. ListedInv'
    BY <1>1, <1>9 DEF IInv, ListedInv, Listed
  <1>13. RegionInv'
    BY <1>1, <1>6, <1>9 DEF IInv, RegionInv
  <1> QED BY <1>10, <1>11, <1>12, <1>13 DEF IInv

\* A computation that is at its rows has one in the making of every listed location.
LEMMA WorkShape ==
    ASSUME IInv, comp.pc = "rows"
    PROVE  comp \in CompRecord /\ comp.list \in SUBSET Names /\ comp.work \in [comp.list -> Work]
  <1>1. comp \in CompRecord /\ DOMAIN comp.work = comp.list
    BY DEF IInv, TypeOK, WorkInv, CompRecord
  <1>2. comp.list \in SUBSET Names /\ comp.work \in Partial(Work)
    BY <1>1 DEF CompRecord
  <1> QED BY <1>1, <1>2, PartialType

\* One row in the making goes on.
LEMMA WorkStep ==
    ASSUME IInv, comp.pc = "rows", NEW n \in comp.list, comp.work[n].pc # "done", NEW w \in Work,
           w.run = comp.work[n].run, UNCHANGED <<env, caches>>, comp' = [comp EXCEPT !.work[n] = w],
           /\ w.pc \in {"logs", "store"} /\ runCache[n].run = w.run /\ runCache[n].region # Nowhere
           => w.region # Nowhere
    PROVE  IInv'
  <1>1. comp \in CompRecord /\ comp.list \in SUBSET Names /\ comp.work \in [comp.list -> Work]
    BY WorkShape
  <1>2. [comp.work EXCEPT ![n] = w] \in [comp.list -> Work]
    BY <1>1
  <1>3. [comp.work EXCEPT ![n] = w] \in Partial(Work)
    BY <1>1, <1>2, PartialType
  <1>4. /\ comp' \in CompRecord /\ comp'.work = [comp.work EXCEPT ![n] = w]
        /\ comp'.pc = comp.pc /\ comp'.list = comp.list /\ comp'.current = comp.current
    BY <1>1, <1>3 DEF CompRecord
  <1>5. DOMAIN comp'.work = comp'.list /\ comp'.work[n] = w /\ \A m \in comp.list \ {n} : comp'.work[m] = comp.work[m]
    BY <1>1, <1>4
  <1>6. w.run # 0 /\ \A m \in comp.list : comp.work[m].pc # "done" => comp.work[m].run # 0
    BY <1>1 DEF IInv, WorkInv
  <1>7. comp'.current /\ comp'.pc \in {"units", "rows"} => Listed(comp'.list)
    BY <1>4 DEF IInv, ListedInv
  <1>8. ASSUME NEW m \in comp'.list, comp'.work[m].pc \in {"logs", "store"},
               runCache[m].run = comp'.work[m].run, runCache[m].region # Nowhere
        PROVE  comp'.work[m].region # Nowhere
    <2>1. CASE m = n
      BY <1>5, <1>8, <2>1
    <2>2. CASE m # n
      BY <1>4, <1>5, <1>8, <2>2 DEF IInv, RegionInv
    <2> QED BY <2>1, <2>2
  <1> QED BY <1>4, <1>5, <1>6, <1>7, <1>8, CompKeeps

\* The entry of a run answers, or at least gives the region it has.
LEMMA RunCheckStep ==
    ASSUME IInv, NEW n \in Names, RunCheck(n)
    PROVE  IInv'
  <1> DEFINE w == comp.work[n]
             e == runCache[n]
             known == e.run = w.run /\ e.age < TTL(e.state)
             next == IF known THEN [w EXCEPT !.pc = "done", !.state = e.state, !.region = e.region]
                              ELSE [w EXCEPT !.pc = "logs", !.region = Remembered(e, w)]
  <1>1. /\ comp.pc = "rows" /\ n \in comp.list /\ w.pc = "check" /\ UNCHANGED <<env, caches>>
        /\ comp' = [comp EXCEPT !.work[n] = next]
    BY DEF RunCheck
  <1>2. w \in Work /\ e \in RunInfo
    BY <1>1, WorkShape DEF IInv, TypeOK
  <1>3. next \in Work /\ next.run = w.run
    BY <1>2 DEF Work, RunInfo, Remembered
  <1>4. next.pc \in {"logs", "store"} /\ e.run = next.run /\ e.region # Nowhere => next.region # Nowhere
    BY <1>2 DEF Work, Remembered
  <1> QED BY <1>1, <1>3, <1>4, WorkStep

\* What the journal tells of a run; a region that was known of it stays known.
LEMMA RunLogsStep ==
    ASSUME IInv, NEW n \in Names, RunLogs(n)
    PROVE  IInv'
  <1> DEFINE w == comp.work[n]
  <1>1. comp.pc = "rows" /\ n \in comp.list /\ w.pc = "logs" /\ UNCHANGED <<env, caches>>
    BY DEF RunLogs
  <1>2. PICK last \in {journal[n]} \cup Missed, seen \in OfRun(n, w.run) \cup Missed,
             where \in OfRun(n, w.run) \cup Missed :
           LET state == Meaning(IF last.state = "none" THEN seen.state ELSE last.state)
               region == IF last.region # Nowhere THEN last.region
                         ELSE IF w.region = Nowhere /\ state = "active" THEN where.region
                         ELSE w.region
           IN  comp' = [comp EXCEPT !.work[n] =
                           [w EXCEPT !.pc = "store", !.state = state, !.region = region]]
    BY DEF RunLogs
  <1>3. w \in Work
    BY <1>1, WorkShape
  <1>4. last \in Note /\ seen \in Note /\ where \in Note
    <2>1. journal[n] \in Note /\ unit[n].said \in Note /\ Missed \subseteq Note
      BY Blanks DEF IInv, TypeOK, Missed
    <2> QED BY <2>1 DEF OfRun
  <1> DEFINE state == Meaning(IF last.state = "none" THEN seen.state ELSE last.state)
             region == IF last.region # Nowhere THEN last.region
                       ELSE IF w.region = Nowhere /\ state = "active" THEN where.region
                       ELSE w.region
             next == [w EXCEPT !.pc = "store", !.state = state, !.region = region]
  <1>5. state \in States /\ region \in Regions \cup {Nowhere}
    BY <1>3, <1>4 DEF Note, Work, Meaning, States
  <1>6. w.region # Nowhere => region # Nowhere
    OBVIOUS
  <1>7. comp' = [comp EXCEPT !.work[n] = next]
    BY <1>2
  <1> HIDE DEF state, region
  <1>8. next \in Work /\ next.run = w.run /\ next.region = region
    BY <1>3, <1>5 DEF Work
  <1>9. runCache[n].run = next.run /\ runCache[n].region # Nowhere => next.region # Nowhere
    BY <1>1, <1>6, <1>8 DEF IInv, RegionInv
  <1> QED BY <1>1, <1>7, <1>8, <1>9, WorkStep

\* The entry of a run is stored, with a region if the one before it of that run had one.
LEMMA RunStoreEntry ==
    ASSUME IInv, NEW n \in Names, RunStore(n)
    PROVE  /\ runCache' \in [Names -> RunInfo] /\ \A m \in Names \ {n} : runCache'[m] = runCache[m]
           /\ runCache'[n].run # 0
           /\ runCache'[n].run = runCache[n].run /\ runCache[n].region # Nowhere
              => runCache'[n].region # Nowhere
  <1> DEFINE w == comp.work[n]
             entry == [run |-> w.run, state |-> w.state, region |-> w.region, age |-> 0]
  <1>1. /\ comp.pc = "rows" /\ n \in comp.list /\ w.pc = "store"
        /\ runCache' = [runCache EXCEPT ![n] = entry]
    BY DEF RunStore
  <1>2. w \in Work /\ runCache \in [Names -> RunInfo]
    BY <1>1, WorkShape DEF IInv, TypeOK
  <1>3. entry \in RunInfo
    BY <1>2, Blanks DEF Work, RunInfo
  <1>4. w.run # 0
    BY <1>1, WorkShape DEF IInv, WorkInv
  <1>5. w.run = runCache[n].run /\ runCache[n].region # Nowhere => w.region # Nowhere
    BY <1>1 DEF IInv, RegionInv
  <1> QED BY <1>1, <1>2, <1>3, <1>4, <1>5

LEMMA RunStoreStep ==
    ASSUME IInv, NEW n \in Names, RunStore(n)
    PROVE  IInv'
  <1>1. /\ comp.pc = "rows" /\ n \in comp.list /\ comp' = [comp EXCEPT !.work[n].pc = "done"]
        /\ UNCHANGED <<reg, unit, journal, acts, rows, units>>
    BY DEF RunStore, env
  <1>2. comp \in CompRecord /\ comp.list \in SUBSET Names /\ comp.work \in [comp.list -> Work]
    BY <1>1, WorkShape
  <1>3. PICK w \in Work : w = [comp.work[n] EXCEPT !.pc = "done"]
    BY <1>1, <1>2 DEF Work
  <1>4. [comp.work EXCEPT ![n] = w] \in [comp.list -> Work]
    BY <1>2
  <1>5. [comp.work EXCEPT ![n] = w] \in Partial(Work)
    BY <1>2, <1>4, PartialType
  <1>6. comp' = [comp EXCEPT !.work = [comp.work EXCEPT ![n] = w]]
    BY <1>1, <1>2, <1>3 DEF CompRecord
  <1>7. /\ comp' \in CompRecord /\ comp'.work = [comp.work EXCEPT ![n] = w]
        /\ comp'.pc = comp.pc /\ comp'.list = comp.list /\ comp'.current = comp.current
    BY <1>2, <1>5, <1>6 DEF CompRecord
  <1>8. w.pc = "done"
    BY <1>1, <1>2, <1>3 DEF Work
  <1>9. DOMAIN comp'.work = comp'.list /\ comp'.work[n] = w /\ \A m \in comp.list \ {n} : comp'.work[m] = comp.work[m]
    BY <1>1, <1>2, <1>7
  <1>10. TypeOK'
    BY <1>1, <1>7, RunStoreEntry DEF IInv, TypeOK, CompRecord
  <1>11. WorkInv'
    <2>1. \A m \in comp.list : comp.work[m].pc # "done" => comp.work[m].run # 0
      BY <1>2 DEF IInv, WorkInv
    <2> QED BY <1>1, <1>7, <1>8, <1>9, <2>1 DEF IInv, WorkInv
  <1>12. ListedInv'
    BY <1>1, <1>7 DEF IInv, ListedInv, Listed
  <1>13. RegionInv'
    <2>1. \A m \in Names : runCache'[m].run = 0 => runCache'[m].region = Nowhere
      BY RunStoreEntry DEF IInv, RegionInv
    <2>2. ASSUME NEW m \in comp.list, comp'.work[m].pc \in {"logs", "store"},
                 runCache'[m].run = comp'.work[m].run, runCache'[m].region # Nowhere
          PROVE  comp'.work[m].region # Nowhere
      <3>1. m # n /\ m \in Names
        BY <1>2, <1>8, <1>9, <2>2
      <3>2. comp'.work[m] = comp.work[m] /\ runCache'[m] = runCache[m]
        BY <1>9, <3>1, RunStoreEntry
      <3> QED BY <1>1, <2>2, <3>2 DEF IInv, RegionInv
    <2> QED BY <1>7, <2>1, <2>2 DEF RegionInv
  <1> QED BY <1>10, <1>11, <1>12, <1>13 DEF IInv

\* The rows are shared: they list what the computation listed, if it is still of this generation.
LEMMA RowsStoreStep ==
    ASSUME IInv, RowsStore
    PROVE  IInv'
  <1>1. /\ comp.pc = "rows" /\ comp' = NoComp
        /\ UNCHANGED <<reg, unit, journal, acts, units, runCache>>
        /\ rows' = [val |-> [n \in comp.list |-> [state |-> comp.work[n].state,
                                                  region |-> comp.work[n].region]],
                    current |-> comp.current, age |-> IF comp.current THEN 0 ELSE RowsTTL]
    BY DEF RowsStore, GenSeen, env
  <1>2. comp \in CompRecord /\ comp.list \in SUBSET Names /\ comp.work \in [comp.list -> Work]
    BY <1>1, WorkShape
  <1>3. DEFINE val == [n \in comp.list |-> [state |-> comp.work[n].state, region |-> comp.work[n].region]]
  <1>4. val \in [comp.list -> Row]
    <2>1. ASSUME NEW n \in comp.list
          PROVE  [state |-> comp.work[n].state, region |-> comp.work[n].region] \in Row
      BY <1>2 DEF Work, Row
    <2> QED BY <2>1
  <1>5. val \in Partial(Row) /\ DOMAIN val = comp.list
    BY <1>2, <1>4, PartialType
  <1>6. rows' = [val |-> val, current |-> comp.current, age |-> IF comp.current THEN 0 ELSE RowsTTL]
    BY <1>1
  <1> HIDE DEF val
  <1>7. rows' \in RowsRecord /\ DOMAIN rows'.val = comp.list /\ rows'.current = comp.current
    BY <1>2, <1>5, <1>6, Blanks DEF RowsRecord, CompRecord
  <1>8. TypeOK'
    BY <1>1, <1>7, Empty DEF IInv, TypeOK, RowsRecord, CompRecord
  <1>9. WorkInv'
    BY <1>1, Empty DEF IInv, WorkInv
  <1>10. ListedInv'
    BY <1>1, <1>7, Empty DEF IInv, ListedInv, Listed
  <1>11. RegionInv'
    BY <1>1, Empty DEF IInv, RegionInv
  <1> QED BY <1>8, <1>9, <1>10, <1>11 DEF IInv

-----------------------------------------------------------------------------
(* The theorems.                                                           *)

LEMMA InvInit == Init => IInv
  <1> SUFFICES ASSUME Init PROVE IInv
    OBVIOUS
  <1>1. [n \in {} |-> Unasked] \in Partial(UnitState)
    <2>1. [n \in {} |-> Unasked] \in [{} -> UnitState]
      OBVIOUS
    <2> QED BY <2>1, PartialType
  <1>2. rows \in RowsRecord /\ comp \in CompRecord
    BY Empty DEF Init
  <1>3. /\ units \in UnitsRecord /\ units.key = {} /\ DOMAIN units.val = {}
    BY <1>1, Blanks DEF Init, UnitsRecord
  <1>4. TypeOK
    BY <1>2, <1>3, Blanks DEF Init, TypeOK, RowsRecord, CompRecord, UnitsRecord
  <1>5. WorkInv
    BY <1>3, Empty DEF Init, WorkInv
  <1>6. ListedInv
    BY Empty DEF Init, ListedInv
  <1>7. RegionInv
    BY Empty, Blanks DEF Init, RegionInv
  <1> QED BY <1>4, <1>5, <1>6, <1>7 DEF IInv

LEMMA InvStep == IInv /\ [Next]_vars => IInv'
  <1> SUFFICES ASSUME IInv, [Next]_vars PROVE IInv'
    OBVIOUS
  <1>1. ASSUME NEW n \in Names, RunStep(n) PROVE IInv'
    BY <1>1, RunCheckStep, RunLogsStep, RunStoreStep DEF RunStep
  <1>2. CASE PollStep
    BY <1>1, <1>2, ListSteps, UnitsStep, RowsStoreStep DEF PollStep
  <1>3. CASE Tick
    BY <1>3, TickStep
  <1>4. ASSUME NEW n \in Names,
               \/ Tunnel(n) \/ Scrolls(n) \/ Dies(n) \/ Psictl(n)
               \/ Add(n) \/ Restart(n) \/ Stop(n) \/ Finish(n)
        PROVE  IInv'
    BY <1>4, EnvStep, InvalidateStep DEF Finish
  <1>5. CASE UNCHANGED vars
    <2>1. UNCHANGED <<reg, unit, journal, acts, rows, units, runCache, comp>>
      BY <1>5 DEF vars, env, caches
    <2>2. TypeOK'
      BY <2>1 DEF IInv, TypeOK
    <2>3. WorkInv'
      BY <2>1 DEF IInv, WorkInv
    <2>4. ListedInv'
      BY <2>1 DEF IInv, ListedInv, Listed
    <2>5. RegionInv'
      BY <2>1 DEF IInv, RegionInv
    <2> QED BY <2>2, <2>3, <2>4, <2>5 DEF IInv
  <1> QED BY <1>2, <1>3, <1>4, <1>5 DEF Next

\* The invariant behind what follows holds of every behaviour.
THEOREM StatusInvariance == Spec => []IInv
  BY InvInit, InvStep, PTL DEF Spec

\* Every variable keeps its shape; in particular no row ever has an empty state.
THEOREM StatusTypeCorrect == Spec => []TypeOK
  <1>1. IInv => TypeOK
    BY DEF IInv
  <1> QED BY <1>1, StatusInvariance, PTL

\* Rows that polls may share list exactly the registered locations, but for those an action is
\* still at, whatever polls were computing when it ended.
THEOREM SharedRowsCorrect == Spec => []SharedRowsListed
  <1>1. IInv => SharedRowsListed
    BY DEF IInv, ListedInv, SharedRowsListed, Shareable
  <1> QED BY <1>1, StatusInvariance, PTL

\* The steps that leave what is known of the runs alone.
LEMMA RunCacheKept ==
    ASSUME NEW n \in Names,
           \/ Tunnel(n) \/ Scrolls(n) \/ Dies(n) \/ Psictl(n) \/ Add(n) \/ Restart(n) \/ Stop(n)
           \/ Start(n) \/ Unregister(n) \/ Removed(n) \/ RunCheck(n) \/ RunLogs(n)
           \/ Compute \/ List \/ ListFails \/ Units \/ RowsStore
    PROVE  UNCHANGED runCache
    BY DEF Tunnel, Connects, Disconnects, Transfers, Says, Scrolls, Dies, Psictl, Add, Restart, Stop, Start,
           Unregister, Removed, Command, RunCheck, RunLogs, Compute, List, ListFails, Units, RowsStore,
           Outside, caches

\* A region that was found is kept for the rest of the run, unless an action has cleared the
\* entry: a computation that began before another stored the region does not lose it.
THEOREM RegionRememberedCorrect == Spec => RegionRemembered
  <1>1. ASSUME IInv, [Next]_vars, NEW n \in Names, runCache[n].region # Nowhere, runCache'[n].run = runCache[n].run
        PROVE  runCache'[n].region # Nowhere
    <2>1. CASE UNCHANGED runCache
      BY <1>1, <2>1
    <2>2. CASE Tick
      <3>1. runCache' = [m \in Names |-> [runCache[m] EXCEPT
                            !.age = IF runCache[m].run = 0 THEN 0 ELSE Lesser(runCache[m].age + 1, ActiveTTL)]]
        BY <2>2 DEF Tick, IInv, TypeOK, RunInfo
      <3>2. runCache[n] \in RunInfo
        BY <1>1 DEF IInv, TypeOK
      <3>3. runCache'[n].region = runCache[n].region
        BY <3>1, <3>2 DEF RunInfo
      <3> QED BY <1>1, <3>3
    <2>3. ASSUME NEW m \in Names, Invalidate(m) PROVE runCache'[n].region # Nowhere
      <3>1. runCache' = [runCache EXCEPT ![m] = NoRunInfo] /\ runCache \in [Names -> RunInfo]
        BY <1>1, <2>3 DEF Invalidate, IInv, TypeOK
      <3>2. runCache[n].run # 0
        BY <1>1 DEF IInv, RegionInv
      <3>3. runCache'[n] = runCache[n]
        BY <1>1, <3>1, <3>2, Blanks
      <3> QED BY <1>1, <3>3
    <2>4. ASSUME NEW m \in Names, RunStore(m) PROVE runCache'[n].region # Nowhere
      <3>1. CASE m = n
        BY <1>1, <2>4, <3>1, RunStoreEntry
      <3>2. CASE m # n
        BY <1>1, <2>4, <3>2, RunStoreEntry
      <3> QED BY <3>1, <3>2
    <2>5. ASSUME NEW m \in Names,
                 \/ Tunnel(m) \/ Scrolls(m) \/ Dies(m) \/ Psictl(m)
                 \/ Add(m) \/ Restart(m) \/ Stop(m) \/ Finish(m) \/ RunStep(m)
          PROVE  runCache'[n].region # Nowhere
      BY <2>1, <2>3, <2>4, <2>5, RunCacheKept DEF Finish, RunStep
    <2>6. CASE PollStep
      BY <1>1, <2>1, <2>5, <2>6, RunCacheKept DEF PollStep
    <2>7. CASE UNCHANGED vars
      BY <2>1, <2>7 DEF vars, caches
    <2> QED BY <1>1, <2>2, <2>5, <2>6, <2>7 DEF Next
  <1>2. IInv /\ [Next]_vars
        => [\A n \in Names : runCache[n].region # Nowhere /\ runCache'[n].run = runCache[n].run
                                => runCache'[n].region # Nowhere]_vars
    BY <1>1
  <1> QED BY <1>2, StatusInvariance, PTL DEF Spec, RegionRemembered
=============================================================================
