----------------------------- MODULE Wave_proof -----------------------------
(* Proofs for Wave: whatever locations, ports, exits, gates and number of  *)
(* tries, a wave keeps its budget, restarts nothing that was removed, and  *)
(* passes a location by no address from before its last restart.           *)
EXTENDS Wave, TLAPS

\* What a wave record holds.
WaveRecord ==
    [pc : {"idle", "pick", "before", "lock", "issue", "connect", "latency", "new_ip", "gemini"},
     s : Settings, left : SUBSET Tunnel, row : Tunnel \cup {NoRow}, try : 1 .. MaxTries,
     before : Exits \cup {None}, ip : Exits \cup {None}, ipTry : 0 .. MaxTries,
     verdict : Verdicts]

USE TriesAssumption

\* The record of a wave between two locations is well formed.
LEMMA RestingType ==
    ASSUME NEW s \in Settings, NEW pc \in {"idle", "pick", "before", "lock"},
           NEW left \in SUBSET Tunnel
    PROVE  /\ Resting(s, pc, left) \in WaveRecord
           /\ Resting(s, pc, left).pc = pc /\ Resting(s, pc, left).left = left
           /\ Resting(s, pc, left).s = s /\ Resting(s, pc, left).try = 1
    BY DEF Resting, WaveRecord, Verdicts

\* Being done with a location changes nothing of the record but what is left.
LEMMA FinishedType ==
    ASSUME w \in WaveRecord, NEW verdict \in Verdicts
    PROVE  /\ Finished(verdict) \in WaveRecord
           /\ Finished(verdict).pc = "pick" /\ Finished(verdict).left = w.left \ {w.row}
           /\ Finished(verdict).s = w.s /\ Finished(verdict).verdict = verdict
  <1> DEFINE r == Resting(w.s, "pick", w.left \ {w.row})
  <1>1. w.s \in Settings /\ w.left \ {w.row} \in SUBSET Tunnel
    BY DEF WaveRecord
  <1>2. r \in WaveRecord /\ r.pc = "pick" /\ r.left = w.left \ {w.row} /\ r.s = w.s
    BY <1>1, RestingType
  <1>3. Finished(verdict) = [r EXCEPT !.verdict = verdict]
    BY DEF Finished
  <1> HIDE DEF r
  <1> QED BY <1>2, <1>3 DEF WaveRecord

\* A round of checks starts with the same try of the same location, and no address.
LEMMA FreshType ==
    ASSUME w \in WaveRecord
    PROVE  /\ FreshIP \in WaveRecord /\ FreshIP.s = w.s /\ FreshIP.left = w.left
           /\ FreshIP.row = w.row /\ FreshIP.try = w.try
           /\ FreshIP.ip = None /\ FreshIP.verdict = w.verdict
  <1>1. 0 \in 0 .. MaxTries
    OBVIOUS
  <1> QED BY <1>1 DEF FreshIP, WaveRecord

\* A failed check leads to the next try, if there is one, or to the end.
LEMMA RetryType ==
    ASSUME w \in WaveRecord, w.try <= w.s.tries
    PROVE  /\ Retry \in WaveRecord /\ Retry.s = w.s
           /\ \/ /\ w.try < w.s.tries /\ Retry.pc = "lock" /\ Retry.left = w.left
                 /\ Retry.row = w.row /\ Retry.try = w.try + 1
              \/ Retry.pc = "pick" /\ Retry.left = w.left \ {w.row}
  <1>1. CASE w.try < w.s.tries
    <2>1. w.try + 1 \in 1 .. MaxTries
      BY <1>1 DEF WaveRecord, Settings
    <2> QED BY <1>1, <2>1 DEF Retry, WaveRecord
  <1>2. CASE ~(w.try < w.s.tries)
    BY <1>2, FinishedType DEF Retry, Verdicts
  <1> QED BY <1>1, <1>2

\* A passed gate leads to another one, or to the end.
LEMMA PassedType ==
    ASSUME NEW v \in WaveRecord, NEW stage \in {"connect", "latency", "new_ip", "gemini"}
    PROVE  /\ Passed(v, stage) \in WaveRecord /\ Passed(v, stage).s = v.s
           /\ \/ /\ Passed(v, stage).pc \in {"latency", "new_ip", "gemini"}
                 /\ Passed(v, stage).left = v.left
                 /\ Passed(v, stage).row = v.row /\ Passed(v, stage).try = v.try
              \/ Passed(v, stage).pc = "pick" /\ Passed(v, stage).left = v.left \ {v.row}
  <1>1. \A pc \in {"latency", "new_ip", "gemini"} :
           /\ [v EXCEPT !.pc = pc] \in WaveRecord /\ [v EXCEPT !.pc = pc].s = v.s
           /\ [v EXCEPT !.pc = pc].pc = pc /\ [v EXCEPT !.pc = pc].left = v.left
           /\ [v EXCEPT !.pc = pc].row = v.row /\ [v EXCEPT !.pc = pc].try = v.try
    BY DEF WaveRecord
  <1> DEFINE u == [v EXCEPT !.pc = "pick", !.left = @ \ {v.row}, !.verdict = "good"]
  <1>2. u \in WaveRecord /\ u.s = v.s /\ u.pc = "pick" /\ u.left = v.left \ {v.row}
    BY DEF WaveRecord, Verdicts
  <1>3. (\E pc \in {"latency", "new_ip", "gemini"} : Passed(v, stage) = [v EXCEPT !.pc = pc])
        \/ Passed(v, stage) = u
    BY DEF Passed
  <1> HIDE DEF u
  <1>4. ASSUME NEW pc \in {"latency", "new_ip", "gemini"}, Passed(v, stage) = [v EXCEPT !.pc = pc]
        PROVE  /\ Passed(v, stage) \in WaveRecord /\ Passed(v, stage).s = v.s
               /\ Passed(v, stage).pc \in {"latency", "new_ip", "gemini"}
               /\ Passed(v, stage).left = v.left
               /\ Passed(v, stage).row = v.row /\ Passed(v, stage).try = v.try
    BY <1>1, <1>4
  <1> QED BY <1>2, <1>3, <1>4

\* What a request through a port shows is an exit address.
LEMMA SeenType == TypeOK => \A p : Seen(p) \subseteq Exits
    BY DEF TypeOK, Seen, Tunnel

Probing == {"connect", "latency", "new_ip", "gemini"}

-----------------------------------------------------------------------------
\* What the steps do to the record and to the count.

\* The wave goes on with the same try of the same location.
Continues ==
    /\ w' \in WaveRecord /\ w'.s = w.s /\ w'.left = w.left
    /\ w'.row = w.row /\ w'.try = w.try /\ spent' = spent

\* The wave is done with its location.
Leaves ==
    /\ w' \in WaveRecord /\ w'.s = w.s /\ w'.left = w.left \ {w.row}
    /\ w'.pc = "pick" /\ \A n \in Names \ {w.row.name} : spent'[n] = spent[n]

\* The wave tries its location again.
TriesAgain ==
    /\ w' \in WaveRecord /\ w'.s = w.s /\ w'.left = w.left
    /\ w'.row = w.row /\ w'.try = w.try + 1 /\ w.try < w.s.tries
    /\ w'.pc = "lock" /\ spent' = spent

\* Every check through the port either passes, or fails and is tried again, or
\* was the last one.
LEMMA ProbeSteps ==
    ASSUME TypeOK, CountInv, Connected \/ ConnectTimeout \/ CheckLatency \/ CheckNewIP \/ CheckGemini
    PROVE  /\ w.pc \in Probing /\ spent' = spent
           /\ Leaves \/ TriesAgain \/ (Continues /\ w'.pc \in Probing)
  <1>0. w \in WaveRecord
    BY DEF TypeOK, WaveRecord
  <1>1. w.pc \in Probing /\ spent' = spent
    BY DEF Connected, ConnectTimeout, CheckLatency, CheckNewIP, CheckGemini, Probing
  <1>2. w.try <= w.s.tries
    BY <1>1 DEF CountInv, Probing, AfterRestart
  <1>3. ASSUME NEW v \in WaveRecord, NEW stage \in Probing, w' = Passed(v, stage), v.s = w.s,
               v.left = w.left, v.row = w.row, v.try = w.try
        PROVE  Leaves \/ (Continues /\ w'.pc \in Probing)
    BY <1>1, <1>3, PassedType DEF Leaves, Continues, Probing
  <1>4. CASE w' = Retry
    BY <1>0, <1>1, <1>2, <1>4, RetryType DEF Leaves, TriesAgain
  <1>5. ASSUME NEW x \in Exits
        PROVE  LET v == [w EXCEPT !.ip = x, !.ipTry = w.try]
               IN  v \in WaveRecord /\ v.s = w.s /\ v.left = w.left /\ v.row = w.row /\ v.try = w.try
    <2>1. w.try \in 0 .. MaxTries
      BY <1>0 DEF WaveRecord
    <2> QED BY <1>0, <2>1 DEF WaveRecord
  <1>6. CASE Connected
    <2>1. /\ FreshIP \in WaveRecord /\ FreshIP.s = w.s /\ FreshIP.left = w.left
          /\ FreshIP.row = w.row /\ FreshIP.try = w.try
      BY <1>0, FreshType
    <2> QED BY <1>1, <1>3, <1>6, <2>1 DEF Connected, Probing
  <1>7. CASE ConnectTimeout
    BY <1>1, <1>4, <1>7 DEF ConnectTimeout
  <1>8. CASE CheckLatency
    <2>1. \/ w' = Retry
          \/ \E x \in Exits : w' = Passed([w EXCEPT !.ip = x, !.ipTry = w.try], "latency")
          \/ w' = Passed(w, "latency")
      BY <1>8, SeenType DEF CheckLatency
    <2> QED BY <1>0, <1>1, <1>3, <1>4, <1>5, <2>1 DEF Probing
  <1>9. CASE CheckNewIP
    <2>1. \/ w' = Retry
          \/ \E x \in Exits : w' = Passed([w EXCEPT !.ip = x, !.ipTry = w.try], "new_ip")
          \/ w' = Passed(w, "new_ip")
      BY <1>9, SeenType DEF CheckNewIP
    <2> QED BY <1>0, <1>1, <1>3, <1>4, <1>5, <2>1 DEF Probing
  <1>10. CASE CheckGemini
    BY <1>0, <1>1, <1>3, <1>4, <1>10 DEF CheckGemini, Probing
  <1> QED BY <1>1, <1>6, <1>7, <1>8, <1>9, <1>10

\* The restart itself: one more spent, and checks to come or none.
LEMMA IssueSteps ==
    ASSUME TypeOK, CountInv, IssueRestart
    PROVE  /\ w.pc = "issue" /\ spent' = [spent EXCEPT ![w.row.name] = @ + 1]
           /\ w' \in WaveRecord /\ w'.s = w.s
           /\ \/ w'.pc = "pick" /\ w'.left = w.left \ {w.row}
              \/ w'.pc = "connect" /\ w'.left = w.left /\ w'.row = w.row /\ w'.try = w.try
  <1>1. w \in WaveRecord
    BY DEF TypeOK, WaveRecord
  <1>2. [w EXCEPT !.pc = "connect"] \in WaveRecord
    BY <1>1 DEF WaveRecord
  <1>3. \/ w' = Finished("stopped") \/ w' = Finished("good")
        \/ w' = [w EXCEPT !.pc = "connect"]
    BY DEF IssueRestart
  <1> QED BY <1>1, <1>2, <1>3, FinishedType DEF IssueRestart, Verdicts, WaveRecord

\* The count survives being done with a location, ...
LEMMA LeavesCount ==
    ASSUME TypeOK, CountInv, w.pc \in BeforeRestart \cup AfterRestart, Leaves, UNCHANGED reg
    PROVE  CountInv'
  <1>1. \A e \in w'.left : e \in w.left /\ e # w.row /\ e.name \in Names
    BY DEF Leaves, WaveRecord, Tunnel, TypeOK
  <1>2. w.row \in w.left
    BY DEF CountInv
  <1>3. \A e \in w'.left : e.name # w.row.name /\ spent[e.name] = 0
    BY <1>1, <1>2 DEF CountInv
  <1>4. \A e \in w'.left : spent'[e.name] = 0
    BY <1>1, <1>3 DEF Leaves
  <1>5. w'.pc = "pick" /\ "pick" \notin BeforeRestart \cup AfterRestart
    BY DEF Leaves, BeforeRestart, AfterRestart
  <1>6. \A a, b \in w'.left : a.name = b.name => a = b
    BY <1>1 DEF CountInv
  <1> QED BY <1>4, <1>5, <1>6 DEF CountInv

\* ... and going on with it.
LEMMA ContinuesCount ==
    ASSUME TypeOK, CountInv, Continues, UNCHANGED reg,
           \/ w.pc \in BeforeRestart /\ w'.pc \in BeforeRestart
           \/ w.pc \in AfterRestart /\ w'.pc \in AfterRestart
    PROVE  CountInv'
  <1>1. w'.pc # "idle" /\ BeforeRestart \cap AfterRestart = {}
    BY DEF BeforeRestart, AfterRestart
  <1> QED BY <1>1 DEF CountInv, Continues

\* ... and trying it again.
LEMMA TriesAgainCount ==
    ASSUME TypeOK, CountInv, TriesAgain, UNCHANGED reg, w.pc \in AfterRestart
    PROVE  CountInv'
  <1>1. w'.pc \in BeforeRestart /\ w'.pc # "idle" /\ w'.pc \notin AfterRestart
    BY DEF TriesAgain, BeforeRestart, AfterRestart
  <1>2. w.try \in Nat /\ w.s.tries \in Nat
    BY DEF TypeOK, Settings
  <1>3. w'.try - 1 = w.try /\ w'.try <= w'.s.tries
    BY <1>2 DEF TriesAgain
  <1> QED BY <1>1, <1>3 DEF CountInv, TriesAgain

\* Every step keeps the count right, and the types with it.
LEMMA CountStep ==
    ASSUME TypeOK, CountInv, LockInv, [Next]_vars
    PROVE  TypeOK' /\ CountInv'
  <1> USE DEF BeforeRestart, AfterRestart
  <1>0. w \in WaveRecord
    BY DEF TypeOK, WaveRecord
  <1>1. ASSUME NEW s \in Settings, WaveStart(s) PROVE TypeOK' /\ CountInv'
    <2>1. w' = Resting(s, "pick", {e \in reg : Includes(s, e.name)}) /\ spent' = [n \in Names |-> 0]
      BY <1>1 DEF WaveStart
    <2>2. w' \in WaveRecord /\ w'.pc = "pick" /\ w'.left \subseteq reg
      BY <2>1, RestingType DEF TypeOK
    <2>3. TypeOK'
      BY <1>1, <2>1, <2>2 DEF WaveStart, TypeOK, WaveRecord
    <2>4. \A e \in w'.left : spent'[e.name] = 0
      BY <2>1, <2>2 DEF TypeOK, Tunnel
    <2> QED BY <1>1, <2>2, <2>3, <2>4 DEF WaveStart, CountInv
  <1>2. ASSUME NEW e \in w.left, Pick(e) PROVE TypeOK' /\ CountInv'
    <2>1. e \in Tunnel /\ w.left \in SUBSET Tunnel /\ w.s \in Settings
      BY <1>0 DEF WaveRecord
    <2>2. LET r == Resting(w.s, IF "new_ip" \in w.s.gates THEN "before" ELSE "lock", w.left)
          IN  w' = [r EXCEPT !.row = e] /\ r \in WaveRecord /\ r.left = w.left /\ r.s = w.s
              /\ r.pc \in {"before", "lock"} /\ r.try = 1
      BY <1>2, <2>1, RestingType DEF Pick
    <2>3. /\ w' \in WaveRecord /\ w'.row = e /\ w'.left = w.left /\ w'.s = w.s
          /\ w'.pc \in {"before", "lock"} /\ w'.try = 1
      BY <2>1, <2>2 DEF WaveRecord
    <2>4. TypeOK'
      BY <1>2, <2>3 DEF Pick, TypeOK, WaveRecord
    <2>5. w.pc = "pick" /\ \A x \in w.left : spent[x.name] = 0
      BY <1>2 DEF Pick, CountInv
    <2>6. w'.try <= w'.s.tries /\ spent'[e.name] = w'.try - 1
      BY <1>2, <2>1, <2>3, <2>5 DEF Pick, Settings
    <2> QED BY <1>2, <2>3, <2>4, <2>5, <2>6 DEF Pick, CountInv
  <1>3. CASE WaveEnd
    <2>1. w' = Resting(w.s, "idle", {}) /\ w.s \in Settings
      BY <1>0, <1>3 DEF WaveEnd, WaveRecord
    <2>2. w' \in WaveRecord /\ w'.pc = "idle" /\ w'.left = {}
      BY <2>1, RestingType
    <2> QED BY <1>3, <2>2 DEF WaveEnd, TypeOK, WaveRecord, CountInv
  <1>4. CASE ReadBefore
    <2>1. PICK x \in Exits \cup {None} : w' = [w EXCEPT !.pc = "lock", !.before = x]
      BY <1>4, SeenType DEF ReadBefore
    <2>2. Continues /\ w'.pc = "lock" /\ w.pc = "before"
      BY <1>0, <1>4, <2>1 DEF ReadBefore, Continues, WaveRecord
    <2>3. CountInv'
      BY <1>4, <2>2, ContinuesCount DEF ReadBefore
    <2> QED BY <1>4, <2>2, <2>3 DEF ReadBefore, Continues, TypeOK, WaveRecord
  <1>5. CASE CheckRunning
    <2>1. w.pc = "lock" /\ mu' \in {mu, "wave"} /\ UNCHANGED <<reg, run, exit, spent>>
      BY <1>5 DEF CheckRunning
    <2>2. w' = [w EXCEPT !.pc = "issue"] \/ w' = Finished("stopped")
      BY <1>5 DEF CheckRunning
    <2>3. (Continues /\ w'.pc = "issue") \/ Leaves
      BY <1>0, <2>1, <2>2, FinishedType DEF Continues, Leaves, WaveRecord, Verdicts
    <2>4. CountInv'
      BY <2>1, <2>3, ContinuesCount, LeavesCount
    <2> QED BY <2>1, <2>3, <2>4 DEF TypeOK, WaveRecord, Continues, Leaves
  <1>6. CASE IssueRestart
    <2>1. /\ w.pc = "issue" /\ spent' = [spent EXCEPT ![w.row.name] = @ + 1]
          /\ w' \in WaveRecord /\ w'.s = w.s /\ UNCHANGED reg
          /\ \/ w'.pc = "pick" /\ w'.left = w.left \ {w.row}
             \/ w'.pc = "connect" /\ w'.left = w.left /\ w'.row = w.row /\ w'.try = w.try
      BY <1>6, IssueSteps DEF IssueRestart
    <2>2. /\ w.row \in w.left /\ w.row \in Tunnel /\ w.row.name \in Names
          /\ spent[w.row.name] = w.try - 1 /\ w.try \in 1 .. MaxTries
      BY <1>0, <2>1 DEF CountInv, WaveRecord, Tunnel
    <2>3. /\ spent' \in [Names -> 0 .. MaxTries] /\ spent'[w.row.name] = w.try
          /\ \A n \in Names \ {w.row.name} : spent'[n] = spent[n]
      BY <2>1, <2>2 DEF TypeOK
    <2>4. TypeOK'
      <3>1. run' \subseteq Names /\ exit' \in [Names -> Exits \cup {None}] /\ mu' = "free"
        BY <1>6, <2>2 DEF IssueRestart, TypeOK
      <3> QED BY <2>1, <2>3, <3>1 DEF TypeOK, WaveRecord
    <2>5. CASE w'.pc = "pick" /\ w'.left = w.left \ {w.row}
      BY <2>1, <2>3, <2>4, <2>5, LeavesCount DEF Leaves
    <2>6. CASE w'.pc = "connect" /\ w'.left = w.left /\ w'.row = w.row /\ w'.try = w.try
      <3>1. \A e \in w.left : e # w.row => e.name \in Names /\ e.name # w.row.name
        BY <1>0, <2>2 DEF CountInv, WaveRecord, Tunnel
      <3>2. \A e \in w.left : e # w.row => spent'[e.name] = 0
        BY <2>1, <2>3, <3>1 DEF CountInv
      <3> QED BY <2>1, <2>2, <2>3, <2>4, <2>6, <3>2 DEF CountInv
    <2> QED BY <2>1, <2>4, <2>5, <2>6
  <1>7. CASE Connected \/ ConnectTimeout \/ CheckLatency \/ CheckNewIP \/ CheckGemini
    <2>1. UNCHANGED <<reg, run, exit, mu>>
      BY <1>7 DEF Connected, ConnectTimeout, CheckLatency, CheckNewIP, CheckGemini
    <2>2. /\ w.pc \in Probing /\ spent' = spent
          /\ Leaves \/ TriesAgain \/ (Continues /\ w'.pc \in Probing)
      BY <1>7, ProbeSteps
    <2>3. CountInv'
      BY <2>1, <2>2, LeavesCount, TriesAgainCount, ContinuesCount DEF Probing
    <2>4. w' \in WaveRecord
      BY <2>2 DEF Leaves, TriesAgain, Continues
    <2> QED BY <2>1, <2>2, <2>3, <2>4 DEF TypeOK, WaveRecord
  <1>8. CASE RemoveEnd \/ Meanwhile \/ UNCHANGED vars
    <2>1. w' = w /\ spent' = spent
      BY <1>8 DEF RemoveEnd, Meanwhile, RemoveStop, Stop, StartAgain, Reconnects, Add, vars
    <2>2. \A a, b \in reg' : a.name = b.name => a = b
      BY <1>8 DEF RemoveEnd, Meanwhile, RemoveStop, Stop, StartAgain, Reconnects, Add, vars,
                  CountInv, NamesOf
    <2>3. TypeOK'
      BY <1>8, <2>1 DEF RemoveEnd, Meanwhile, RemoveStop, Stop, StartAgain, Reconnects, Add, vars,
                        TypeOK, Tunnel
    <2> QED BY <2>1, <2>2, <2>3 DEF CountInv
  <1> QED BY <1>1, <1>2, <1>3, <1>4, <1>5, <1>6, <1>7, <1>8 DEF Next, WaveStep

-----------------------------------------------------------------------------
\* A wave that is not about to restart anything protects nothing.
LEMMA NotIssuing ==
    ASSUME mu' # "wave", w'.pc # "issue"
    PROVE  LockInv'
    BY DEF LockInv, NoResurrection

\* Only CheckRunning takes the mutex for the wave, only IssueRestart gives it back.
LEMMA LockStep ==
    ASSUME TypeOK, CountInv, LockInv, [Next]_vars
    PROVE  LockInv'
  <1> USE HolderAssumption
  <1>0. w \in WaveRecord /\ mu \in {"free", "wave"} \cup Names
    BY DEF TypeOK, WaveRecord
  <1>1. ASSUME NEW s \in Settings, WaveStart(s) PROVE LockInv'
    <2>1. w'.pc = "pick" /\ w.pc = "idle" /\ mu' = mu
      BY <1>1, RestingType DEF WaveStart, TypeOK
    <2> QED BY <2>1, NotIssuing DEF LockInv
  <1>2. ASSUME NEW e \in w.left, Pick(e) PROVE LockInv'
    <2>1. w'.pc \in {"before", "lock"} /\ w.pc = "pick" /\ mu' = mu
      BY <1>2 DEF Pick, Resting
    <2> QED BY <2>1, NotIssuing DEF LockInv
  <1>3. CASE WaveEnd
    <2>1. w'.pc = "idle" /\ w.pc = "pick" /\ mu' = mu
      BY <1>3 DEF WaveEnd, Resting
    <2> QED BY <2>1, NotIssuing DEF LockInv
  <1>4. CASE ReadBefore
    <2>1. w'.pc = "lock" /\ w.pc = "before" /\ mu' = mu
      BY <1>0, <1>4 DEF ReadBefore, WaveRecord
    <2> QED BY <2>1, NotIssuing DEF LockInv
  <1>5. CASE CheckRunning
    <2>1. mu = "free" /\ reg' = reg
      BY <1>5 DEF CheckRunning
    <2>2. CASE w.row.name \in NamesOf(reg) \cap run /\ mu' = "wave" /\ w' = [w EXCEPT !.pc = "issue"]
      <3>1. w'.pc = "issue" /\ w'.row = w.row
        BY <1>0, <2>2 DEF WaveRecord
      <3>2. w.row.name \in Names
        BY <2>2 DEF TypeOK
      <3> QED BY <2>1, <2>2, <3>1, <3>2 DEF LockInv, NoResurrection, NamesOf
    <2>3. CASE w' = Finished("stopped") /\ mu' = mu
      <3>1. w'.pc = "pick"
        BY <1>0, <2>3, FinishedType DEF Verdicts
      <3> QED BY <2>1, <2>3, <3>1, NotIssuing
    <2> QED BY <1>5, <2>2, <2>3 DEF CheckRunning
  <1>6. CASE IssueRestart
    <2>1. mu' = "free" /\ w'.pc # "issue"
      BY <1>6, IssueSteps DEF IssueRestart
    <2> QED BY <2>1, NotIssuing
  <1>7. CASE Connected \/ ConnectTimeout \/ CheckLatency \/ CheckNewIP \/ CheckGemini
    <2>1. mu' = mu
      BY <1>7 DEF Connected, ConnectTimeout, CheckLatency, CheckNewIP, CheckGemini
    <2>2. w.pc \in Probing /\ w'.pc \in Probing \cup {"pick", "lock"}
      BY <1>7, ProbeSteps DEF Leaves, TriesAgain, Continues
    <2> QED BY <2>1, <2>2, NotIssuing DEF LockInv, Probing
  <1>8. CASE RemoveEnd
    <2>1. mu \in Names /\ mu' = "free" /\ w' = w
      BY <1>8 DEF RemoveEnd
    <2> QED BY <2>1, NotIssuing DEF LockInv
  <1>9. ASSUME NEW n \in Names, RemoveStop(n) PROVE LockInv'
    <2>1. mu = "free" /\ mu' = n /\ w' = w
      BY <1>9 DEF RemoveStop
    <2> QED BY <2>1, NotIssuing DEF LockInv
  <1>10. ASSUME NEW n \in Names, NEW p \in Ports, Add(n, p) PROVE LockInv'
    <2>1. mu = "free" /\ mu' = mu /\ w' = w
      BY <1>10 DEF Add
    <2> QED BY <2>1, NotIssuing DEF LockInv
  <1>11. ASSUME NEW n \in Names, Stop(n) \/ StartAgain(n) \/ Reconnects(n) PROVE LockInv'
    BY <1>11 DEF Stop, StartAgain, Reconnects, LockInv, NoResurrection, NamesOf
  <1>12. CASE UNCHANGED vars
    BY <1>12 DEF vars, LockInv, NoResurrection, NamesOf
  <1> QED BY <1>1, <1>2, <1>3, <1>4, <1>5, <1>6, <1>7, <1>8, <1>9, <1>10, <1>11, <1>12
          DEF Next, WaveStep, Meanwhile

-----------------------------------------------------------------------------
\* What is known of the exit address.

\* A verdict that is not "good" is no evidence to account for.
LEMMA NotJudged ==
    ASSUME NEW v \in WaveRecord, w' = v, v.verdict # "good",
           v.pc = "pick" \/ (v.verdict = "none" /\ v.pc \notin {"latency", "new_ip", "gemini"})
    PROVE  EvidenceInv'
    BY DEF EvidenceInv, JudgedByNewExit

\* An address that is none, or that this try has brought, or that was compared, stays so on the
\* way from one gate to the next.
LEMMA PassedEvidence ==
    ASSUME NEW v \in WaveRecord, NEW stage \in Probing, w' = Passed(v, stage), v.verdict = "none",
           v.ip # None => v.ipTry = v.try,
           stage \in {"new_ip", "gemini"} =>
              ("new_ip" \in v.s.gates /\ v.before # None /\ v.ip # None => v.ip # v.before)
    PROVE  EvidenceInv'
  <1> DEFINE Fine == "new_ip" \in v.s.gates /\ v.before # None /\ v.ip # None =>
                        v.ip # v.before /\ v.ipTry = v.try
             end == [v EXCEPT !.pc = "pick", !.left = @ \ {v.row}, !.verdict = "good"]
  <1>1. ASSUME NEW pc \in {"latency", "new_ip", "gemini"}, w' = [v EXCEPT !.pc = pc], pc = "gemini" => Fine
        PROVE  EvidenceInv'
    BY <1>1 DEF WaveRecord, EvidenceInv, JudgedByNewExit, NewExit
  <1>2. CASE w' = end /\ Fine
    BY <1>2 DEF WaveRecord, EvidenceInv, JudgedByNewExit, NewExit
  <1>3. \/ \E pc \in {"latency", "new_ip"} : w' = [v EXCEPT !.pc = pc]
        \/ (w' = [v EXCEPT !.pc = "gemini"] \/ w' = end)
           /\ (stage \in {"new_ip", "gemini"} \/ ~("new_ip" \in v.s.gates /\ v.before # None))
    BY DEF Passed, Probing
  <1>4. (stage \in {"new_ip", "gemini"} \/ ~("new_ip" \in v.s.gates /\ v.before # None)) => Fine
    OBVIOUS
  <1> HIDE DEF Fine, end
  <1> QED BY <1>1, <1>2, <1>3, <1>4

\* A probe judges by what this try has brought, or by nothing.
LEMMA ProbeEvidence ==
    ASSUME TypeOK, CountInv, EvidenceInv,
           Connected \/ ConnectTimeout \/ CheckLatency \/ CheckNewIP \/ CheckGemini
    PROVE  EvidenceInv'
  <1>0. w \in WaveRecord
    BY DEF TypeOK, WaveRecord
  <1>1. w.pc \in Probing /\ w.verdict = "none"
    BY DEF Connected, ConnectTimeout, CheckLatency, CheckNewIP, CheckGemini, Probing, EvidenceInv
  <1>2. CASE w' = Retry
    <2>1. w.try <= w.s.tries
      BY <1>1 DEF CountInv, Probing, AfterRestart
    <2>2. Retry \in WaveRecord
      BY <1>0, <2>1, RetryType
    <2>3. \/ Retry.pc = "pick" /\ Retry.verdict = "failed"
          \/ Retry.pc = "lock" /\ Retry.verdict = "none"
      BY <1>0, <1>1, FinishedType DEF Retry, WaveRecord, Verdicts
    <2> QED BY <1>2, <2>2, <2>3, NotJudged
  <1>3. ASSUME NEW x \in Exits
        PROVE  LET v == [w EXCEPT !.ip = x, !.ipTry = w.try]
               IN  /\ v \in WaveRecord /\ v.verdict = "none" /\ v.ip = x /\ v.ipTry = v.try
                   /\ v.before = w.before
    <2>1. w.try \in 0 .. MaxTries
      BY <1>0 DEF WaveRecord
    <2> QED BY <1>0, <1>1, <2>1 DEF WaveRecord
  <1>4. CASE Connected
    <2>1. FreshIP \in WaveRecord /\ FreshIP.verdict = "none" /\ FreshIP.ip = None
      BY <1>0, <1>1, FreshType
    <2> QED BY <1>4, <2>1, PassedEvidence DEF Connected, Probing
  <1>5. CASE ConnectTimeout
    BY <1>2, <1>5 DEF ConnectTimeout
  <1>6. CASE CheckLatency
    <2>1. w.pc = "latency" /\ (w.ip # None => w.ipTry = w.try)
      BY <1>6 DEF CheckLatency, EvidenceInv
    <2>2. \/ w' = Retry
          \/ \E x \in Exits : w' = Passed([w EXCEPT !.ip = x, !.ipTry = w.try], "latency")
          \/ w' = Passed(w, "latency")
      BY <1>6, SeenType DEF CheckLatency
    <2> QED BY <1>0, <1>1, <1>2, <1>3, <2>1, <2>2, PassedEvidence DEF Probing
  <1>7. CASE CheckNewIP
    <2>1. w.pc = "new_ip" /\ (w.ip # None => w.ipTry = w.try)
      BY <1>7 DEF CheckNewIP, EvidenceInv
    <2>2. \/ w' = Retry
          \/ w' = Passed(w, "new_ip") /\ (w.ip = None \/ w.ip # w.before)
          \/ \E x \in Exits : x # w.before /\ w' = Passed([w EXCEPT !.ip = x, !.ipTry = w.try], "new_ip")
      BY <1>7, SeenType DEF CheckNewIP
    <2>3. CASE w' = Passed(w, "new_ip") /\ (w.ip = None \/ w.ip # w.before)
      BY <1>0, <1>1, <2>1, <2>3, PassedEvidence DEF Probing
    <2>4. ASSUME NEW x \in Exits, x # w.before, w' = Passed([w EXCEPT !.ip = x, !.ipTry = w.try], "new_ip")
          PROVE  EvidenceInv'
      BY <1>3, <2>4, PassedEvidence DEF Probing
    <2> QED BY <1>2, <2>2, <2>3, <2>4
  <1>8. CASE CheckGemini
    <2>1. w.pc = "gemini" /\ (w.ip # None => w.ipTry = w.try) /\ NewExit
      BY <1>8 DEF CheckGemini, EvidenceInv
    <2>2. w' = Retry \/ w' = Passed(w, "gemini")
      BY <1>8 DEF CheckGemini
    <2> QED BY <1>0, <1>1, <1>2, <2>1, <2>2, PassedEvidence DEF Probing, NewExit
  <1> QED BY <1>4, <1>5, <1>6, <1>7, <1>8

\* No other step brings an address, and only a wave without gates gives a good verdict.
LEMMA EvidenceStep ==
    ASSUME TypeOK, CountInv, EvidenceInv, [Next]_vars
    PROVE  EvidenceInv'
  <1>0. w \in WaveRecord
    BY DEF TypeOK, WaveRecord
  <1>1. ASSUME NEW s \in Settings, WaveStart(s) PROVE EvidenceInv'
    <2>1. w' = Resting(s, "pick", {e \in reg : Includes(s, e.name)}) /\ w'.verdict = "none"
      BY <1>1 DEF WaveStart, Resting
    <2>2. w' \in WaveRecord /\ w'.pc = "pick"
      BY <2>1, RestingType DEF TypeOK
    <2> QED BY <2>1, <2>2 DEF EvidenceInv, JudgedByNewExit
  <1>2. ASSUME NEW e \in w.left, Pick(e) PROVE EvidenceInv'
    <2>1. w'.verdict = "none" /\ w'.pc \in {"before", "lock"}
      BY <1>2 DEF Pick, Resting
    <2> QED BY <2>1 DEF EvidenceInv, JudgedByNewExit
  <1>3. CASE WaveEnd
    <2>1. w'.verdict = "none" /\ w'.pc = "idle"
      BY <1>3 DEF WaveEnd, Resting
    <2> QED BY <2>1 DEF EvidenceInv, JudgedByNewExit
  <1>4. CASE ReadBefore
    <2>1. w'.verdict = "none" /\ w'.pc = "lock"
      BY <1>0, <1>4 DEF ReadBefore, EvidenceInv, WaveRecord
    <2> QED BY <2>1 DEF EvidenceInv, JudgedByNewExit
  <1>5. CASE CheckRunning
    <2>1. w.verdict = "none"
      BY <1>5 DEF CheckRunning, EvidenceInv
    <2>2. (w'.verdict = "none" /\ w'.pc = "issue") \/ (w'.verdict = "stopped" /\ w'.pc = "pick")
      BY <1>0, <1>5, <2>1, FinishedType DEF CheckRunning, WaveRecord, Verdicts
    <2> QED BY <2>2 DEF EvidenceInv, JudgedByNewExit
  <1>6. CASE IssueRestart
    <2>1. w.verdict = "none"
      BY <1>6 DEF IssueRestart, EvidenceInv
    <2>2. \/ w'.verdict = "none" /\ w'.pc = "connect"
          \/ w'.verdict = "stopped" /\ w'.pc = "pick"
          \/ w'.verdict = "good" /\ w'.pc = "pick" /\ w'.s.gates = {}
      BY <1>0, <1>6, <2>1, FinishedType DEF IssueRestart, WaveRecord, Verdicts
    <2> QED BY <2>2 DEF EvidenceInv, JudgedByNewExit, NewExit
  <1>7. CASE Connected \/ ConnectTimeout \/ CheckLatency \/ CheckNewIP \/ CheckGemini
    BY <1>7, ProbeEvidence
  <1>8. CASE RemoveEnd \/ Meanwhile \/ UNCHANGED vars
    <2>1. w' = w
      BY <1>8 DEF RemoveEnd, Meanwhile, RemoveStop, Stop, StartAgain, Reconnects, Add, vars
    <2> QED BY <2>1 DEF EvidenceInv, JudgedByNewExit, NewExit
  <1> QED BY <1>1, <1>2, <1>3, <1>4, <1>5, <1>6, <1>7, <1>8 DEF Next, WaveStep

\* A server without locations, before its first wave.
LEMMA InvInit == Init => IInv
  <1> SUFFICES ASSUME Init PROVE IInv
    OBVIOUS
  <1>1. PICK s \in Settings : w = Resting(s, "idle", {})
    BY DEF Init
  <1>2. w \in WaveRecord /\ w.pc = "idle" /\ w.left = {}
    BY <1>1, RestingType
  <1>3. TypeOK
    BY <1>2 DEF Init, TypeOK, WaveRecord
  <1>4. CountInv
    BY <1>2 DEF Init, CountInv, BeforeRestart, AfterRestart
  <1>5. LockInv
    BY <1>2 DEF Init, LockInv, NoResurrection
  <1>6. EvidenceInv
    BY <1>1, <1>2 DEF EvidenceInv, JudgedByNewExit, Resting
  <1> QED BY <1>3, <1>4, <1>5, <1>6 DEF IInv

\* Types, the count of restarts, the mutex and the registry hold together in
\* every state of a wave (restartAllRunning, restartUntilGood, restartIfRunning).
THEOREM WaveInvariance == Spec => []IInv
  <1>1. IInv /\ [Next]_vars => IInv'
    BY CountStep, LockStep, EvidenceStep DEF IInv
  <1> QED BY <1>1, InvInit, PTL DEF Spec

\* Every variable keeps its type; no location is restarted more than MaxTries times.
THEOREM WaveTypeCorrect == Spec => []TypeOK
  <1>1. IInv => TypeOK
    BY DEF IInv
  <1> QED BY <1>1, WaveInvariance, PTL

\* No wave restarts a location that was removed or is being removed, whatever the
\* buttons do: restartIfRunning rereads the registry and restarts within one hold of a.mu.
THEOREM NoResurrectionCorrect == Spec => []NoResurrection
  <1>1. IInv => NoResurrection
    BY DEF IInv, LockInv
  <1> QED BY <1>1, WaveInvariance, PTL

\* A location that passed because its exit address changed was measured after its last
\* restart, and the address differs from the one before the first (checkGates).
THEOREM JudgedByNewExitCorrect == Spec => []JudgedByNewExit
  <1>1. IInv => JudgedByNewExit
    BY DEF IInv, EvidenceInv
  <1> QED BY <1>1, WaveInvariance, PTL

-----------------------------------------------------------------------------
\* Names are unique among the locations that are left, so being done with a row
\* is being done with its name.
LEMMA NamesWithout ==
    ASSUME CountInv, w.row \in w.left
    PROVE  NamesOf(w.left \ {w.row}) = NamesOf(w.left) \ {w.row.name}
  <1>1. \A e \in w.left : e # w.row => e.name # w.row.name
    BY DEF CountInv
  <1>2. NamesOf(w.left \ {w.row}) \subseteq NamesOf(w.left) \ {w.row.name}
    BY <1>1 DEF NamesOf
  <1>3. NamesOf(w.left) \ {w.row.name} \subseteq NamesOf(w.left \ {w.row})
    BY DEF NamesOf
  <1> QED BY <1>2, <1>3

\* Being done with a location without restarting it is a Finish of the budget.
LEMMA LeavesFinishes ==
    ASSUME TypeOK, CountInv, Leaves, spent' = spent, w.pc \in BeforeRestart \cup AfterRestart
    PROVE  Budget!Finish(w.row.name) /\ w.row.name \in Names
  <1>1. w.row \in w.left /\ w.row.name \in Names
    BY DEF CountInv, TypeOK, Tunnel
  <1>2. w.row.name \in NamesOf(w.left)
    BY <1>1 DEF NamesOf
  <1>3. NamesOf(w'.left) = NamesOf(w.left) \ {w.row.name} /\ w'.s = w.s
    BY <1>1, NamesWithout DEF Leaves
  <1> QED BY <1>1, <1>2, <1>3 DEF Budget!Finish

\* Going on, or trying again, is invisible to the budget.
LEMMA StaysStutters ==
    ASSUME w'.left = w.left, w'.s = w.s, spent' = spent
    PROVE  UNCHANGED Budget!vars
    BY DEF Budget!vars, NamesOf

\* The initial states are initial states of the budget.
LEMMA BudgetInit == Init => Budget!Init
  <1> SUFFICES ASSUME Init PROVE Budget!Init
    OBVIOUS
  <1>1. PICK s \in Settings : w = Resting(s, "idle", {})
    BY DEF Init
  <1>2. w.left = {} /\ w.s = s /\ s.tries \in 1 .. MaxTries
    BY <1>1, RestingType DEF Settings
  <1>3. NamesOf(w.left) = {}
    BY <1>2 DEF NamesOf
  <1> QED BY <1>2, <1>3 DEF Init, Budget!Init

\* Every step of the wave is a step of the budget, or invisible to it.
LEMMA BudgetStep ==
    ASSUME IInv, [Next]_vars
    PROVE  [Budget!Next]_(Budget!vars)
  <1> USE DEF IInv
  <1>0. w \in WaveRecord
    BY DEF TypeOK, WaveRecord
  <1>1. ASSUME NEW s \in Settings, WaveStart(s) PROVE Budget!Next
    <2>1. LET left == {e \in reg : Includes(s, e.name)}
          IN  w' = Resting(s, "pick", left) /\ left \in SUBSET Tunnel
      BY <1>1 DEF WaveStart, TypeOK
    <2>2. w'.s = s /\ w'.left \subseteq Tunnel
      BY <2>1, RestingType
    <2>3. s.tries \in 1 .. MaxTries /\ NamesOf(w'.left) \in SUBSET Names
      BY <2>2 DEF Settings, Tunnel, NamesOf
    <2>4. NamesOf(w.left) = {}
      BY <1>1 DEF WaveStart, CountInv, NamesOf
    <2>5. Budget!Start(NamesOf(w'.left), s.tries)
      BY <1>1, <2>2, <2>4 DEF WaveStart, Budget!Start
    <2> QED BY <2>3, <2>5 DEF Budget!Next
  <1>2. ASSUME NEW e \in w.left, Pick(e) PROVE UNCHANGED Budget!vars
    <2>1. w'.left = w.left /\ w'.s = w.s /\ spent' = spent
      BY <1>2 DEF Pick, Resting
    <2> QED BY <2>1, StaysStutters
  <1>3. CASE WaveEnd
    <2>1. w'.left = w.left /\ w'.s = w.s /\ spent' = spent
      BY <1>3 DEF WaveEnd, Resting
    <2> QED BY <2>1, StaysStutters
  <1>4. CASE ReadBefore
    <2>1. w'.left = w.left /\ w'.s = w.s /\ spent' = spent
      BY <1>0, <1>4 DEF ReadBefore, WaveRecord
    <2> QED BY <2>1, StaysStutters
  <1>5. CASE CheckRunning
    <2>1. w.pc = "lock" /\ spent' = spent
      BY <1>5 DEF CheckRunning
    <2>2. CASE w' = [w EXCEPT !.pc = "issue"]
      <3>1. w'.left = w.left /\ w'.s = w.s
        BY <1>0, <2>2 DEF WaveRecord
      <3> QED BY <2>1, <3>1, StaysStutters
    <2>3. CASE w' = Finished("stopped")
      <3>1. Leaves
        BY <1>0, <2>1, <2>3, FinishedType DEF Leaves, Verdicts
      <3> QED BY <2>1, <3>1, LeavesFinishes DEF Budget!Next, BeforeRestart
    <2> QED BY <1>5, <2>2, <2>3 DEF CheckRunning
  <1>6. CASE IssueRestart
    <2>1. /\ w.pc = "issue" /\ spent' = [spent EXCEPT ![w.row.name] = @ + 1] /\ w'.s = w.s
          /\ w'.left = w.left \ {w.row} \/ w'.left = w.left
      BY <1>6, IssueSteps
    <2>2. /\ w.row \in w.left /\ w.row.name \in Names
          /\ w.try <= w.s.tries /\ spent[w.row.name] = w.try - 1
      BY <1>0, <2>1 DEF CountInv, WaveRecord, Tunnel, BeforeRestart
    <2>3. w.row.name \in NamesOf(w.left) /\ spent[w.row.name] < w.s.tries
      <3>1. w.try \in Nat /\ w.s.tries \in Nat
        BY <1>0 DEF WaveRecord, Settings
      <3> QED BY <2>2, <3>1 DEF NamesOf
    <2>4. CASE w'.left = w.left
      BY <2>1, <2>2, <2>3, <2>4 DEF Budget!Restart, Budget!Next
    <2>5. CASE w'.left = w.left \ {w.row}
      <3>1. NamesOf(w'.left) = NamesOf(w.left) \ {w.row.name}
        BY <2>2, <2>5, NamesWithout
      <3> QED BY <2>1, <2>2, <2>3, <3>1 DEF Budget!RestartLast, Budget!Next
    <2> QED BY <2>1, <2>4, <2>5
  <1>7. CASE Connected \/ ConnectTimeout \/ CheckLatency \/ CheckNewIP \/ CheckGemini
    <2>1. w.pc \in Probing /\ spent' = spent /\ (Leaves \/ TriesAgain \/ Continues)
      BY <1>7, ProbeSteps
    <2>2. CASE Leaves
      BY <2>1, <2>2, LeavesFinishes DEF Budget!Next, Probing, AfterRestart
    <2>3. CASE TriesAgain \/ Continues
      BY <2>1, <2>3, StaysStutters DEF TriesAgain, Continues
    <2> QED BY <2>1, <2>2, <2>3
  <1>8. CASE RemoveEnd \/ Meanwhile \/ UNCHANGED vars
    <2>1. w' = w /\ spent' = spent
      BY <1>8 DEF RemoveEnd, Meanwhile, RemoveStop, Stop, StartAgain, Reconnects, Add, vars
    <2> QED BY <2>1, StaysStutters
  <1> QED BY <1>1, <1>2, <1>3, <1>4, <1>5, <1>6, <1>7, <1>8 DEF Next, WaveStep

\* The wave implements its budget: it restarts only what it set out to restart
\* and is not done with, and nothing more often than the schedule's tries.
THEOREM BudgetCorrect == Spec => KeepsBudget
  <1>1. Init => Budget!Init
    BY BudgetInit
  <1>2. IInv /\ [Next]_vars => [Budget!Next]_(Budget!vars)
    BY BudgetStep
  <1> QED BY <1>1, <1>2, WaveInvariance, PTL DEF Spec, KeepsBudget, Budget!Spec
=============================================================================
