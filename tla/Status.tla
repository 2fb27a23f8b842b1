------------------------------- MODULE Status -------------------------------
(***************************************************************************)
(* What the dashboard shows of the locations, and the three caches it goes *)
(* through: the rows that polls share, the answer of systemctl show, and   *)
(* what the journal told of each unit's run.  Polls, the admin's actions,  *)
(* systemd and the tunnels move at their own pace.                         *)
(***************************************************************************)
EXTENDS Naturals, FiniteSets

CONSTANTS
    Names,              \* location names
    Regions,            \* regions that exits are in
    Nowhere,            \* no region
    Faults,             \* what may go wrong: a subset of FaultKinds
    RowsTTL, UnitsTTL, ConnectingTTL, ActiveTTL,    \* lifetimes, in ticks
    MaxRun              \* bound: runs of each unit

FaultKinds == {"read", "show", "logs", "command", "psictl"}

ASSUME StatusFaultsAssumption == Faults \subseteq FaultKinds
ASSUME StatusNowhereAssumption == Nowhere \notin Regions
ASSUME StatusTimesAssumption ==
    /\ {RowsTTL, UnitsTTL, ConnectingTTL, ActiveTTL} \subseteq Nat \ {0}
    /\ ConnectingTTL <= ActiveTTL
    /\ MaxRun \in Nat

VARIABLES
    reg,        \* the names in the registry
    unit,       \* the units: is it running, its invocation, that run's notices
    journal,    \* the notices in the last 200 lines of each unit, of whatever run
    acts,       \* how far the admin's action on each location has come
    rows,       \* the shared rows: value, are they of this generation, age
    units,      \* the shared answer of systemctl show: key, value, age
    runCache,   \* what is known of each unit's run
    comp        \* computeRows, of the one poll that holds rowsMu

env == <<reg, unit, journal, acts>>
caches == <<rows, units, runCache>>
vars == <<env, caches, comp>>

Lesser(a, b) == IF a <= b THEN a ELSE b

\* The newest Tunnels or TotalBytesTransferred notice and the newest region.
Note == [state : {"none", "up", "down"}, region : Regions \cup {Nowhere}]
Blank == [state |-> "none", region |-> Nowhere]

States == {"active", "connecting", "inactive", "unknown"}
Row == [state : States, region : Regions \cup {Nowhere}]

\* What systemctl show says of a unit; an unknown one has no invocation.
UnitState == [state : {"active", "inactive", "unknown"}, run : 0 .. MaxRun]
Unasked == [state |-> "unknown", run |-> 0]

\* A location's row in the making: how far, of which run, what it says so far.
Work == [pc : {"check", "logs", "store", "done"}, run : 0 .. MaxRun,
         state : States, region : Regions \cup {Nowhere}]

\* runCache's entry of a unit, or none of any run.
RunInfo == [run : 0 .. MaxRun, state : States, region : Regions \cup {Nowhere},
            age : 0 .. ActiveTTL]
NoRunInfo == [run |-> 0, state |-> "connecting", region |-> Nowhere, age |-> 0]

NoRows == [val |-> [n \in {} |-> Blank], current |-> FALSE, age |-> RowsTTL]
NoComp == [pc |-> "none", current |-> FALSE, list |-> {}, work |-> [n \in {} |-> Blank]]

Init ==
    /\ reg \in SUBSET Names
    /\ unit = [n \in Names |-> [active |-> FALSE, run |-> 0, said |-> Blank]]
    /\ journal = [n \in Names |-> Blank]
    /\ acts = [n \in Names |-> "none"]
    /\ rows = NoRows
    /\ units = [key |-> {}, val |-> [n \in {} |-> Unasked], age |-> UnitsTTL]
    /\ runCache = [n \in Names |-> NoRunInfo]
    /\ comp = NoComp

-----------------------------------------------------------------------------
(* Units, tunnels and journals.                                            *)

Up(n) == unit[n].said.state = "up"

\* systemd gives the unit's new process a new invocation.
NewRun(n) ==
    /\ unit[n].run < MaxRun
    /\ unit' = [unit EXCEPT ![n] = [active |-> TRUE, run |-> @.run + 1, said |-> Blank]]

Stops(n) == unit' = [unit EXCEPT ![n].active = FALSE, ![n].said = Blank]

Starts(n) == IF unit[n].active THEN UNCHANGED unit ELSE NewRun(n)

\* An older note with a newer one's state, and its region if it has one.
Newer(note, state, region) ==
    [state |-> state, region |-> IF region = Nowhere THEN note.region ELSE region]

Logged(n, state, region) == journal' = [journal EXCEPT ![n] = Newer(@, state, region)]

\* A process may log that its tunnels are gone when it ends, or just end.
LastWord(n) ==
    \/ UNCHANGED journal
    \/ Up(n) /\ Logged(n, "down", Nowhere)

Outside == UNCHANGED <<reg, acts, caches, comp>>

Says(n, state, region) ==
    /\ unit' = [unit EXCEPT ![n].said = Newer(@, state, region)]
    /\ Logged(n, state, region)
    /\ Outside

Connects(n, r) == unit[n].active /\ ~Up(n) /\ Says(n, "up", r)

Disconnects(n) == Up(n) /\ Says(n, "down", Nowhere)

\* TotalBytesTransferred, every few minutes.
Transfers(n) == Up(n) /\ Says(n, "up", Nowhere)

\* Other lines push a notice out of the last 200.
Scrolls(n) ==
    /\ \/ journal' = [journal EXCEPT ![n].state = "none"]
       \/ journal' = [journal EXCEPT ![n].region = Nowhere]
    /\ Outside /\ UNCHANGED unit

\* Restart=always
Dies(n) == unit[n].active /\ NewRun(n) /\ LastWord(n) /\ Outside

\* Somebody stops or starts a location with psictl.
Psictl(n) ==
    /\ "psictl" \in Faults /\ n \in reg
    /\ (Stops(n) /\ LastWord(n)) \/ (Starts(n) /\ UNCHANGED journal)
    /\ Outside

-----------------------------------------------------------------------------
(* The admin's actions, each of which invalidates the caches at its end.   *)

Add(n) ==
    /\ acts[n] = "none" /\ n \notin reg
    /\ reg' = reg \cup {n}
    /\ acts' = [acts EXCEPT ![n] = "start"]
    /\ UNCHANGED <<unit, journal, caches, comp>>

\* A command that fails changes nothing; the caches are invalidated all the same.
Command(n, effect) ==
    /\ \/ effect /\ IF unit'[n] = unit[n] THEN UNCHANGED journal ELSE LastWord(n)
       \/ "command" \in Faults /\ UNCHANGED <<unit, journal>>
    /\ UNCHANGED <<reg, caches, comp>>

Start(n) ==
    /\ acts[n] = "start"
    /\ acts' = [acts EXCEPT ![n] = "done"]
    /\ Command(n, Starts(n))

Restart(n) ==
    /\ acts[n] = "none" /\ n \in reg
    /\ acts' = [acts EXCEPT ![n] = "done"]
    /\ Command(n, NewRun(n))

\* The stop button, and the remove action's first step.
Stop(n) ==
    /\ acts[n] = "none" /\ n \in reg
    /\ \E next \in {"done", "remove"} : acts' = [acts EXCEPT ![n] = next]
    /\ Command(n, Stops(n))

\* The remove action saves the registry, if it can be read.
Unregister(n) ==
    /\ acts[n] = "unregister"
    /\ reg' \in {reg \ {n}} \cup {reg : f \in Faults \cap {"read"}}
    /\ acts' = [acts EXCEPT ![n] = "removed"]
    /\ UNCHANGED <<unit, journal, caches, comp>>

\* rowsGen.Add(1): rows stored before, and rows being computed, are of an older
\* generation from now on.  (rowsGen is only ever compared with an earlier value, and the
\* age of rows of an older generation is never asked for: it stays at its end.)
InvalidateRows ==
    /\ rows' = [rows EXCEPT !.current = FALSE, !.age = RowsTTL]
    /\ comp' = [comp EXCEPT !.current = FALSE]

\* invalidateNoticeCache
Invalidate(n) ==
    /\ acts[n] \in {"done", "remove"}
    /\ runCache' = [runCache EXCEPT ![n] = NoRunInfo]
    /\ InvalidateRows
    /\ acts' = [acts EXCEPT ![n] = IF @ = "done" THEN "none" ELSE "unregister"]
    /\ UNCHANGED <<reg, unit, journal, units>>

\* The end of the remove action.
Removed(n) ==
    /\ acts[n] = "removed"
    /\ InvalidateRows
    /\ acts' = [acts EXCEPT ![n] = "none"]
    /\ UNCHANGED <<reg, unit, journal, units, runCache>>

-----------------------------------------------------------------------------
(* buildRows: under rowsMu a poll takes the shared rows or computes them.  *)

MutantNeverExpires == rows.current

\* Rows that were computed since the last invalidation, and are young: a poll that
\* finds these is answered with them, and nothing changes.
Shareable == rows.current /\ rows.age < RowsTTL

Compute ==
    /\ comp.pc = "none" /\ ~Shareable
    /\ comp' = [NoComp EXCEPT !.pc = "list", !.current = TRUE]
    /\ UNCHANGED <<env, caches>>

List ==
    /\ comp.pc = "list"
    /\ comp' = [comp EXCEPT !.pc = "units", !.list = reg]
    /\ UNCHANGED <<env, caches>>

ListFails ==
    /\ comp.pc = "list" /\ "read" \in Faults
    /\ comp' = NoComp
    /\ UNCHANGED <<env, caches>>

\* tunnelStatusInfo, up to the journal of a unit that runs.
Working(st) ==
    [pc |-> IF st.state = "active" THEN "check" ELSE "done",
     run |-> st.run, state |-> st.state, region |-> Nowhere]

ToWork(val) == comp' = [comp EXCEPT !.pc = "rows", !.work = [n \in comp.list |-> Working(val[n])]]

\* What systemctl show can answer: the units as they are, or nothing if it fails.
Answers == {[n \in comp.list |-> [state |-> IF unit[n].active THEN "active" ELSE "inactive",
                                   run |-> unit[n].run]]}
           \cup {[n \in comp.list |-> Unasked] : f \in Faults \cap {"show"}}

\* loadUnitStates.  An answer that failed is shared like any other.
Units ==
    /\ comp.pc = "units"
    /\ IF units.key = comp.list /\ units.age < UnitsTTL
       THEN ToWork(units.val) /\ UNCHANGED units
       ELSE \E val \in Answers :
              ToWork(val) /\ units' = [key |-> comp.list, val |-> val, age |-> 0]
    /\ UNCHANGED <<env, rows, runCache>>

TTL(state) == IF state = "active" THEN ActiveTTL ELSE ConnectingTTL

MutantForgetRegion(e, w) == Nowhere

\* The region that an older entry of the same run has.
Remembered(e, w) == IF e.run = w.run THEN e.region ELSE Nowhere

\* tunnelRunInfo, first half: the entry answers if it is of this run and young.
RunCheck(n) ==
    /\ comp.pc = "rows" /\ n \in comp.list /\ comp.work[n].pc = "check"
    /\ LET w == comp.work[n]
           e == runCache[n]
       IN  comp' = [comp EXCEPT !.work[n] =
              IF e.run = w.run /\ e.age < TTL(e.state)
              THEN [w EXCEPT !.pc = "done", !.state = e.state, !.region = e.region]
              ELSE [w EXCEPT !.pc = "logs", !.region = Remembered(e, w)]]
    /\ UNCHANGED <<env, caches>>

MutantNoEvidence(state) ==
    IF state = "none" THEN "" ELSE IF state = "up" THEN "active" ELSE "connecting"

\* The state that a notice means; without any the unit is connecting.
Meaning(state) == IF state = "up" THEN "active" ELSE "connecting"

\* What a search of one run's notices finds: those of the present run, or
\* whatever a run that is over has left.
OfRun(n, run) == IF unit[n].active /\ run = unit[n].run THEN {unit[n].said} ELSE Note

Missed == {Blank : f \in Faults \cap {"logs"}}

\* tunnelRunInfo, second half: the last lines of the unit, and where they tell no
\* state, or no region, searches of the run.  Each of the three may fail, and without
\* the first there is no search for a state.
RunLogs(n) ==
    /\ comp.pc = "rows" /\ n \in comp.list /\ comp.work[n].pc = "logs"
    /\ LET w == comp.work[n]
       IN  \E last \in {journal[n]} \cup Missed, seen, where \in OfRun(n, w.run) \cup Missed :
              LET state == Meaning(IF last.state = "none" THEN seen.state ELSE last.state)
                  region == IF last.region # Nowhere THEN last.region
                            ELSE IF w.region = Nowhere /\ state = "active" THEN where.region
                            ELSE w.region
              IN  /\ last = journal[n] \/ seen \in Missed
                  /\ comp' = [comp EXCEPT !.work[n] =
                                 [w EXCEPT !.pc = "store", !.state = state, !.region = region]]
    /\ UNCHANGED <<env, caches>>

RunStore(n) ==
    /\ comp.pc = "rows" /\ n \in comp.list /\ comp.work[n].pc = "store"
    /\ LET w == comp.work[n]
       IN  runCache' = [runCache EXCEPT ![n] =
              [run |-> w.run, state |-> w.state, region |-> w.region, age |-> 0]]
    /\ comp' = [comp EXCEPT !.work[n].pc = "done"]
    /\ UNCHANGED <<env, rows, units>>

MutantGenAfter == TRUE

\* The rows are stored with the generation read before they were computed.
GenSeen == comp.current

RowsStore ==
    /\ comp.pc = "rows"
    /\ \A n \in comp.list : comp.work[n].pc = "done"
    /\ rows' = [val |-> [n \in comp.list |-> [state |-> comp.work[n].state, region |-> comp.work[n].region]],
                current |-> GenSeen, age |-> IF GenSeen THEN 0 ELSE RowsTTL]
    /\ comp' = NoComp
    /\ UNCHANGED <<env, units, runCache>>

Tick ==
    /\ rows' = [rows EXCEPT !.age = Lesser(@ + 1, RowsTTL)]
    /\ units' = [units EXCEPT !.age = Lesser(@ + 1, UnitsTTL)]
    /\ runCache' = [n \in Names |-> [runCache[n] EXCEPT
                      !.age = IF runCache[n].run = 0 THEN 0 ELSE Lesser(@ + 1, ActiveTTL)]]
    /\ UNCHANGED <<env, comp>>

-----------------------------------------------------------------------------
RunStep(n) == RunCheck(n) \/ RunLogs(n) \/ RunStore(n)
Tunnel(n) == (\E r \in Regions : Connects(n, r)) \/ Disconnects(n) \/ Transfers(n)
Finish(n) == Start(n) \/ Unregister(n) \/ Invalidate(n) \/ Removed(n)

PollStep == Compute \/ List \/ ListFails \/ Units \/ RowsStore \/ (\E n \in Names : RunStep(n))

Next ==
    \/ \E n \in Names :
          \/ Tunnel(n) \/ Scrolls(n) \/ Dies(n) \/ Psictl(n)
          \/ Add(n) \/ Restart(n) \/ Stop(n) \/ Finish(n)
    \/ PollStep
    \/ Tick

Spec == Init /\ [][Next]_vars

\* Time passes, handlers and polls go on, dashboards poll every few seconds, and
\* the registry can be read again and again.
Fairness ==
    /\ WF_vars(Tick) /\ WF_vars(PollStep) /\ SF_vars(List)
    /\ \A n \in Names : WF_vars(Finish(n))

FairSpec == Spec /\ Fairness

-----------------------------------------------------------------------------
(* Properties.                                                             *)

\* Functions on some of the names.
Partial(S) == UNION {[D -> S] : D \in SUBSET Names}

\* The shape of every variable; in particular no row ever has an empty state.
TypeOK ==
    /\ reg \in SUBSET Names
    /\ unit \in [Names -> [active : BOOLEAN, run : 0 .. MaxRun, said : Note]]
    /\ journal \in [Names -> Note]
    /\ acts \in [Names -> {"none", "start", "done", "remove", "unregister", "removed"}]
    /\ rows \in [val : Partial(Row), current : BOOLEAN, age : 0 .. RowsTTL]
    /\ units \in [key : SUBSET Names, val : Partial(UnitState), age : 0 .. UnitsTTL]
    /\ DOMAIN units.val = units.key
    /\ runCache \in [Names -> RunInfo]
    /\ comp \in [pc : {"none", "list", "units", "rows"}, current : BOOLEAN,
                 list : SUBSET Names, work : Partial(Work)]

\* These are the registered names, but for those an action is still at.
Listed(names) == \A n \in Names : acts[n] = "none" => (n \in names <=> n \in reg)

\* Rows that polls may share list exactly the registered locations, but for those
\* an action is still at: "remove call invalidateRows so their follow-up poll is
\* always fresh" (main.go), whatever was being computed meanwhile.
SharedRowsListed == Shareable => Listed(DOMAIN rows.val)

\* The region of a run, "once found it is remembered for the rest of the run"
\* (tunnelRunInfo), unless an action has cleared the entry.
RegionRemembered ==
    [][\A n \in Names :
          runCache[n].region # Nowhere /\ runCache'[n].run = runCache[n].run
             => runCache'[n].region # Nowhere]_vars

\* A location that is gone or down for good is not shown as running for ever,
\* whatever the three caches hold: what they do not invalidate, they let expire.
Settles ==
    \A n \in Names :
       <>[](n \notin reg \/ ~unit[n].active)
          => <>[](n \in DOMAIN rows.val => rows.val[n].state \notin {"active", "connecting"})

\* "so the dashboard's immediate post-action poll shows the new state instead of a
\* cached pre-action one" (invalidateNoticeCache): rows that are computed after an
\* action was over do not take a location that it stopped for a running one.
FollowUpFresh ==
    [][\A n \in comp.list :
          Units /\ comp.current /\ acts[n] = "none" /\ ~unit[n].active
             => comp'.work[n].state # "active"]_vars
-----------------------------------------------------------------------------
(* The inductive invariant behind the safety properties (Status_proof).    *)

\* A computation has a row in the making for each location it listed; a run that is looked
\* for has begun.
WorkInv ==
    /\ comp.pc = "rows" => DOMAIN comp.work = comp.list
    /\ \A n \in DOMAIN comp.work : comp.work[n].pc # "done" => comp.work[n].run # 0
    /\ \A n \in Names : unit[n].active => unit[n].run # 0
    /\ \A n \in units.key : units.val[n].state = "active" => units.val[n].run # 0

\* What was computed, or is being computed, since the last invalidation.
ListedInv ==
    /\ rows.current => Listed(DOMAIN rows.val)
    /\ comp.current /\ comp.pc \in {"units", "rows"} => Listed(comp.list)

\* A row in the making knows the region that is remembered of its run.
RegionInv ==
    /\ \A n \in Names : runCache[n].run = 0 => runCache[n].region = Nowhere
    /\ comp.pc = "rows" => \A n \in comp.list :
          /\ comp.work[n].pc \in {"logs", "store"} /\ runCache[n].run = comp.work[n].run
          /\ runCache[n].region # Nowhere
          => comp.work[n].region # Nowhere

IInv == TypeOK /\ WorkInv /\ ListedInv /\ RegionInv
=============================================================================
