-------------------------------- MODULE Wave --------------------------------
(***************************************************************************)
(* One auto restart wave: restartAllRunning visits the locations that the  *)
(* schedule covers, and restartUntilGood restarts each of them until it    *)
(* passes the schedule's quality gates or has had all its tries.  The wave *)
(* holds a.mu only around each single restart; meanwhile the admin adds,   *)
(* removes, starts and stops locations, and tunnels reconnect.             *)
(***************************************************************************)
EXTENDS Naturals, FiniteSets

CONSTANTS
    Names,      \* the location names in play
    Ports,      \* the SOCKS ports in play
    Exits,      \* exit addresses that websites may see
    None,       \* no address: no traffic, or the lookup service failed
    GateSets,   \* the sets of gates a schedule may tick: subsets of Gates
    OnlySets,   \* the selections of locations a schedule may have
    MaxTries    \* bound: tries per location (maxMaxTries is 20)

Gates == {"latency", "new_ip", "gemini"}

ASSUME TriesAssumption == MaxTries \in Nat \ {0}
ASSUME GatesAssumption == GateSets \subseteq SUBSET Gates /\ OnlySets \subseteq SUBSET Names
ASSUME NoneAssumption == None \notin Exits \cup Names \cup Ports
ASSUME HolderAssumption == "free" \notin Names /\ "wave" \notin Names

VARIABLES
    reg,        \* the registry: rows of name and port
    run,        \* the locations whose unit systemd calls active or activating
    exit,       \* the address each location's traffic leaves from, None while there is none
    mu,         \* who holds a.mu: "free", "wave", or the name being removed
    w,          \* the wave: its program counter and local variables
    spent       \* auxiliary: the restarts this wave issued, for each location

vars == <<reg, run, exit, mu, w, spent>>

Tunnel == [name : Names, port : Ports]
NoRow == [name |-> None, port |-> None]
Settings == [gates : GateSets, only : OnlySets, tries : 1 .. MaxTries]

NamesOf(rows) == {e.name : e \in rows}

\* An empty selection covers every location.
Includes(s, n) == s.only = {} \/ n \in s.only

\* The wave's record between two locations, and while there is no wave.
Resting(s, pc, left) ==
    [pc |-> pc, s |-> s, left |-> left, row |-> NoRow,
     try |-> 1, before |-> None, ip |-> None, ipTry |-> 0, verdict |-> "none"]

Init ==
    /\ reg = {} /\ run = {}
    /\ exit = [n \in Names |-> None]
    /\ mu = "free"
    /\ \E s \in Settings : w = Resting(s, "idle", {})
    /\ spent = [n \in Names |-> 0]

\* The addresses a request through a port may leave from: it goes to whatever
\* location has the port now.
Seen(p) == {exit[e.name] : e \in {e \in reg : e.port = p}} \ {None}

-----------------------------------------------------------------------------
(* restartAllRunning                                                       *)

\* The tick is due: read the registry, without a.mu.
WaveStart(s) ==
    /\ w.pc = "idle"
    /\ w' = Resting(s, "pick", {e \in reg : Includes(s, e.name)})
    /\ spent' = [n \in Names |-> 0]
    /\ UNCHANGED <<reg, run, exit, mu>>

\* The next location.  The code goes by name, the model in any order.
Pick(e) ==
    /\ w.pc = "pick" /\ e \in w.left
    /\ w' = [Resting(w.s, IF "new_ip" \in w.s.gates THEN "before" ELSE "lock", w.left)
                EXCEPT !.row = e]
    /\ UNCHANGED <<reg, run, exit, mu, spent>>

WaveEnd ==
    /\ w.pc = "pick" /\ w.left = {}
    /\ w' = Resting(w.s, "idle", {})
    /\ UNCHANGED <<reg, run, exit, mu, spent>>

-----------------------------------------------------------------------------
(* restartUntilGood and restartIfRunning                                   *)

\* restartUntilGood returns with this verdict, and its local variables are gone.
Finished(verdict) == [Resting(w.s, "pick", w.left \ {w.row}) EXCEPT !.verdict = verdict]

MutantRetryOnceMore ==
    IF w.try <= w.s.tries THEN [w EXCEPT !.pc = "lock", !.try = @ + 1] ELSE Finished("failed")

\* The next try, or the end of them.
Retry == IF w.try < w.s.tries THEN [w EXCEPT !.pc = "lock", !.try = @ + 1] ELSE Finished("failed")

\* fetchExitIP: the address to differ from, read before the first restart.
ReadBefore ==
    /\ w.pc = "before"
    /\ \E x \in Seen(w.row.port) \cup {None} : w' = [w EXCEPT !.pc = "lock", !.before = x]
    /\ UNCHANGED <<reg, run, exit, mu, spent>>

MutantUnlockedCheck ==
    /\ w.pc = "lock"
    /\ \/ w.row.name \in NamesOf(reg) \cap run /\ w' = [w EXCEPT !.pc = "issue"]
       \/ w' = Finished("stopped")
    /\ UNCHANGED <<reg, run, exit, mu, spent>>

\* Lock, reread the registry, ask systemd; a location that is gone or stopped is
\* left alone, and so is one that cannot be read or whose state is not known.
CheckRunning ==
    /\ w.pc = "lock" /\ mu = "free"
    /\ \/ /\ w.row.name \in NamesOf(reg) \cap run
          /\ mu' = "wave" /\ w' = [w EXCEPT !.pc = "issue"]
       \/ w' = Finished("stopped") /\ UNCHANGED mu
    /\ UNCHANGED <<reg, run, exit, spent>>

\* systemctl restart.  A reported error ends the tries, whether or not systemd
\* restarted the unit all the same.
IssueRestart ==
    /\ w.pc = "issue"
    /\ mu' = "free"
    /\ spent' = [spent EXCEPT ![w.row.name] = @ + 1]
    /\ \/ /\ run' = run \cup {w.row.name} /\ exit' = [exit EXCEPT ![w.row.name] = None]
          /\ w' \in {Finished("stopped"),
                     IF w.s.gates = {} THEN Finished("good") ELSE [w EXCEPT !.pc = "connect"]}
       \/ UNCHANGED <<run, exit>> /\ w' = Finished("stopped")
    /\ UNCHANGED reg

-----------------------------------------------------------------------------
(* checkGates: the ticked gates in order, each through the port that the   *)
(* location had when the wave started.                                     *)

\* Where a wave record goes that has passed the gates of an earlier stage.
Passed(v, stage) ==
    IF stage = "connect" /\ "latency" \in v.s.gates THEN [v EXCEPT !.pc = "latency"]
    ELSE IF stage \in {"connect", "latency"} /\ "new_ip" \in v.s.gates /\ v.before # None
         THEN [v EXCEPT !.pc = "new_ip"]
    ELSE IF stage # "gemini" /\ "gemini" \in v.s.gates THEN [v EXCEPT !.pc = "gemini"]
    ELSE [v EXCEPT !.pc = "pick", !.left = @ \ {v.row}, !.verdict = "good"]

MutantKeepOldIP == w

\* Every round of checks starts without a known address.
FreshIP == [w EXCEPT !.ip = None, !.ipTry = 0]

\* waitSocksUp: a connection through the port worked.
Connected ==
    /\ w.pc = "connect" /\ Seen(w.row.port) # {}
    /\ w' = Passed(FreshIP, "connect")
    /\ UNCHANGED <<reg, run, exit, mu, spent>>

MutantNoDeadline == w.pc = "connect" /\ UNCHANGED vars

\* It took longer than reconnectTimeout.
ConnectTimeout ==
    /\ w.pc = "connect"
    /\ w' = Retry
    /\ UNCHANGED <<reg, run, exit, mu, spent>>

\* The real-delay probe, which also brings the exit address, or fails to.
CheckLatency ==
    /\ w.pc = "latency"
    /\ \/ w' = Retry
       \/ \E x \in Seen(w.row.port) :
            w' \in {Passed([w EXCEPT !.ip = x, !.ipTry = w.try], "latency"), Passed(w, "latency")}
    /\ UNCHANGED <<reg, run, exit, mu, spent>>

\* A lookup that fails now does not cost a restart.
CheckNewIP ==
    /\ w.pc = "new_ip"
    /\ \/ /\ w.ip # None
          /\ w' = IF w.ip = w.before THEN Retry ELSE Passed(w, "new_ip")
       \/ /\ w.ip = None
          /\ \/ \E x \in Seen(w.row.port) :
                  w' = IF x = w.before THEN Retry
                       ELSE Passed([w EXCEPT !.ip = x, !.ipTry = w.try], "new_ip")
             \/ w' = Passed(w, "new_ip")
    /\ UNCHANGED <<reg, run, exit, mu, spent>>

CheckGemini ==
    /\ w.pc = "gemini"
    /\ \/ w' = Retry
       \/ Seen(w.row.port) # {} /\ w' = Passed(w, "gemini")
    /\ UNCHANGED <<reg, run, exit, mu, spent>>

-----------------------------------------------------------------------------
(* Meanwhile: the admin, and the tunnels themselves.                       *)

\* handleAdd, or an import, whose start may fail: nothing the wave sees tells
\* their steps apart.
Add(n, p) ==
    /\ mu = "free"
    /\ n \notin NamesOf(reg) /\ \A e \in reg : e.port # p
    /\ reg' = reg \cup {[name |-> n, port |-> p]}
    /\ run' \in {run, run \cup {n}}
    /\ UNCHANGED <<exit, mu, w, spent>>

\* The remove action locks a.mu and stops the unit, or fails to, whoever is
\* registered, ...
RemoveStop(n) ==
    /\ mu = "free"
    /\ mu' = n
    /\ \/ run' = run \ {n} /\ exit' = [exit EXCEPT ![n] = None]
       \/ UNCHANGED <<run, exit>>
    /\ UNCHANGED <<reg, w, spent>>

\* ... and takes it out of the registry, unless that is not read or not saved.
RemoveEnd ==
    /\ mu \in Names
    /\ reg' \in {reg, {e \in reg : e.name # mu}}
    /\ mu' = "free"
    /\ UNCHANGED <<run, exit, w, spent>>

\* The stop button; it takes no lock.
Stop(n) ==
    /\ n \in run
    /\ run' = run \ {n} /\ exit' = [exit EXCEPT ![n] = None]
    /\ UNCHANGED <<reg, mu, w, spent>>

\* The restart button and psictl.  They take no lock either and ask nobody whether
\* n is registered: sudo may still permit it while n is being removed, and after.
StartAgain(n) ==
    /\ run' = run \cup {n} /\ exit' = [exit EXCEPT ![n] = None]
    /\ UNCHANGED <<reg, mu, w, spent>>

\* A tunnel connects, loses its connection, or moves to another server.
Reconnects(n) ==
    /\ n \in run
    /\ \E x \in Exits \cup {None} : x # exit[n] /\ exit' = [exit EXCEPT ![n] = x]
    /\ UNCHANGED <<reg, run, mu, w, spent>>

-----------------------------------------------------------------------------
\* A step of the wave's goroutine, once it runs, that needs no lock.
WaveStep ==
    \/ \E e \in w.left : Pick(e)
    \/ WaveEnd \/ ReadBefore \/ IssueRestart \/ Connected \/ ConnectTimeout
    \/ CheckLatency \/ CheckNewIP \/ CheckGemini

Meanwhile ==
    \/ \E n \in Names : RemoveStop(n) \/ Stop(n) \/ StartAgain(n) \/ Reconnects(n)
    \/ \E n \in Names, p \in Ports : Add(n, p)

Next ==
    \/ \E s \in Settings : WaveStart(s)
    \/ WaveStep \/ CheckRunning
    \/ RemoveEnd
    \/ Meanwhile

Spec == Init /\ [][Next]_vars

\* Every probe and command has a time limit, so the goroutine goes on; and a
\* goroutine that waits for a sync.Mutex gets it, however busy the mutex is.
FairSpec == Spec /\ WF_vars(WaveStep) /\ SF_vars(CheckRunning) /\ WF_vars(RemoveEnd)

-----------------------------------------------------------------------------
(* Properties.                                                             *)

Verdicts == {"none", "good", "stopped", "failed"}

\* The shape of every variable; no try counter passes the schedule's limit.
TypeOK ==
    /\ reg \subseteq Tunnel
    /\ run \subseteq Names
    /\ exit \in [Names -> Exits \cup {None}]
    /\ mu \in {"free", "wave"} \cup Names
    /\ w \in [pc : {"idle", "pick", "before", "lock", "issue", "connect", "latency", "new_ip", "gemini"},
              s : Settings, left : SUBSET Tunnel, row : Tunnel \cup {NoRow}, try : 1 .. MaxTries,
              before : Exits \cup {None}, ip : Exits \cup {None}, ipTry : 0 .. MaxTries,
              verdict : Verdicts]
    /\ spent \in [Names -> 0 .. MaxTries]

Budget == INSTANCE RestartBudget WITH left <- NamesOf(w.left), tries <- w.s.tries, spent <- spent

\* The wave keeps its budget: every restart is of a location it set out to
\* restart and is not done with, within the tries of the schedule as it was when
\* the wave started ("must not turn into an endless restart loop").
KeepsBudget == Budget!Spec

\* The wave ends, even over a gate that no exit can ever meet.
WaveEnds == Budget!Ends

\* "A location removed mid-wave is skipped instead of being started again": what the
\* wave is about to restart is registered, and nobody is in the middle of removing it.
NoResurrection == w.pc = "issue" => w.row.name \in NamesOf(reg) /\ mu # w.row.name

\* The exit address, where it was compared, is one read after the last restart, and differs.
NewExit ==
    "new_ip" \in w.s.gates /\ w.before # None /\ w.ip # None => w.ip # w.before /\ w.ipTry = w.try

\* A location that was judged good because its exit address changed was judged
\* by an address read after its last restart, and by one that differs.
JudgedByNewExit == w.verdict = "good" => NewExit

-----------------------------------------------------------------------------
(* The inductive invariant behind the safety properties (Wave_proof).      *)

\* The points of restartUntilGood before and after the restart of a try.
BeforeRestart == {"before", "lock", "issue"}
AfterRestart == {"connect", "latency", "new_ip", "gemini"}

\* What was spent on the locations that are left: the tries so far on the one
\* the wave is at, nothing on the others.
CountInv ==
    /\ \A a, b \in reg : a.name = b.name => a = b
    /\ \A a, b \in w.left : a.name = b.name => a = b
    /\ w.pc = "idle" => w.left = {}
    /\ w.pc \in BeforeRestart \cup AfterRestart => w.row \in w.left /\ w.try <= w.s.tries
    /\ w.pc \in BeforeRestart => spent[w.row.name] = w.try - 1
    /\ w.pc \in AfterRestart => spent[w.row.name] = w.try
    /\ \A e \in w.left :
          spent[e.name] = 0 \/ (w.pc \in BeforeRestart \cup AfterRestart /\ e = w.row)

\* What the mutex protects between the check and the restart.
LockInv ==
    /\ mu = "wave" <=> w.pc = "issue"
    /\ NoResurrection

\* There is a verdict only between two locations; an address that a probe has brought is of
\* this try; who is past the comparison of addresses has passed it.
EvidenceInv ==
    /\ w.pc # "pick" => w.verdict = "none"
    /\ w.pc \in {"latency", "new_ip", "gemini"} /\ w.ip # None => w.ipTry = w.try
    /\ w.pc = "gemini" => NewExit
    /\ JudgedByNewExit

IInv == TypeOK /\ CountInv /\ LockInv /\ EvidenceInv

=============================================================================
