----------------------------- MODULE Ssl_proof -----------------------------
(***************************************************************************)
(* Proofs about Ssl for any number of admins, paths, certificates and      *)
(* faults: what a thread inside sslMu holds in its local variables is in   *)
(* step with ssl.json and with the certificate in memory.                  *)
(***************************************************************************)
EXTENDS Ssl, TLAPS

PC == {"idle", "wait", "refuse", "readkey", "readcert", "movekey", "movecert", "load", "save"}
Local == [pc : PC, enable : BOOLEAN, pair : Pairs \cup {None, Half}, s : SslSettings,
          key : Certs \cup {None}, crt : Certs \cup {None}]

\* The refresh works on the settings that are saved; it never refuses or waits.
RefreshHolds(t) ==
    t = Ticker /\ th[t].pc # "idle" =>
       /\ th[t].pc \notin {"wait", "refuse"}
       /\ th[t].s.enabled = file.enabled
       /\ th[t].s.src = file.src
       /\ th[t].pair = file.src

\* The form saves the switch it was sent, and only when there is a certificate.
FormHolds(t) ==
    t # Ticker /\ smu = t =>
       /\ th[t].s.enabled = th[t].enable
       /\ th[t].pc = "save" /\ th[t].enable => cert # None

\* The script works on paths, and moves the copies that it has made.
ScriptHolds(t) ==
    /\ th[t].pc \in {"readkey", "readcert", "movekey", "movecert", "load"} => th[t].pair \in Pairs
    /\ th[t].pc \in {"readcert", "movekey"} => th[t].key \in Certs
    /\ th[t].pc \in {"movekey", "movecert"} => th[t].crt \in Certs

ThreadHolds(t) == RefreshHolds(t) /\ FormHolds(t) /\ ScriptHolds(t)

\* The type of the variables that all threads share.
SharedType ==
    /\ src \in [Pairs -> Certs \cup {None}] /\ issued \in Certs
    /\ disk \in [key : Certs \cup {None}, cert : Certs \cup {None}]
    /\ file \in SslSettings
    /\ on \in BOOLEAN /\ cert \in Certs \cup {None} /\ unrestored \in BOOLEAN
    /\ smu \in Threads \cup {Free}
    /\ faults \in 0 .. MaxFaults

Locked == \A t \in Threads : th[t].pc \notin {"idle", "wait"} <=> smu = t

\* The inductive invariant.
IInv ==
    /\ SharedType /\ EnabledAsSaved
    /\ th \in [Threads -> Local] /\ Locked
    /\ \A t \in Threads : ThreadHolds(t)

LEMMA IInvImplies == IInv => TypeOK /\ EnabledAsSaved
    BY DEF IInv, TypeOK, SharedType, Locked, Local, PC

LEMMA IdleType == NoSettings \in SslSettings /\ Idle \in Local
  <1>1. NoSettings \in SslSettings
    BY DEF NoSettings, SslSettings
  <1>2. ASSUME NEW s \in SslSettings
        PROVE  [pc |-> "idle", enable |-> FALSE, pair |-> None, s |-> s, key |-> None, crt |-> None] \in Local
    BY DEF Local, PC
  <1> QED BY <1>1, <1>2 DEF Idle

\* Nothing is asked of a thread at rest.
LEMMA IdleHolds ==
    ASSUME NEW t \in Threads, th[t] = Idle, smu # t
    PROVE  ThreadHolds(t)
  <1>1. th[t].pc = "idle"
    BY DEF Idle
  <1> QED BY <1>1 DEF ThreadHolds, RefreshHolds, FormHolds, ScriptHolds

LEMMA InitHolds == Init => IInv
  <1> SUFFICES ASSUME Init PROVE IInv
    OBVIOUS
  <1>1. SharedType /\ EnabledAsSaved
    <2>1. 1 \in Certs
      BY SslBoundsAssumption DEF Certs
    <2>2. src \in [Pairs -> Certs \cup {None}] /\ issued \in Certs
      BY <2>1 DEF Init
    <2>3. SharedType
      <3>1. disk \in [key : Certs \cup {None}, cert : Certs \cup {None}]
        BY DEF Init
      <3>2. on \in BOOLEAN /\ unrestored \in BOOLEAN
        BY DEF Init
      <3>3. file \in SslSettings /\ cert \in Certs \cup {None} /\ smu \in Threads \cup {Free}
        BY IdleType DEF Init
      <3>4. faults \in 0 .. MaxFaults
        BY SslBoundsAssumption DEF Init
      <3> QED BY <2>2, <3>1, <3>2, <3>3, <3>4 DEF SharedType
    <2>4. EnabledAsSaved
      BY DEF Init, EnabledAsSaved, NoSettings
    <2> QED BY <2>3, <2>4
  <1>2. \A t \in Threads : th[t] = Idle /\ smu # t
    BY SslNamesAssumption DEF Init
  <1>3. th \in [Threads -> Local] /\ Locked
    BY <1>2, IdleType DEF Init, Locked, Idle
  <1> QED BY <1>1, <1>2, <1>3, IdleHolds DEF IInv

\* A step of one thread keeps the invariant when it keeps what concerns that
\* thread, and changes ssl.json and the certificate in memory inside sslMu only.
LEMMA Framed ==
    ASSUME IInv, NEW t \in Threads, NEW r \in Local, th' = [th EXCEPT ![t] = r],
           SharedType', EnabledAsSaved', ThreadHolds(t)',
           r.pc \notin {"idle", "wait"} <=> smu' = t,
           smu' \in {smu, t, Free}, smu' # smu => smu \in {t, Free},
           smu = t \/ (file' = file /\ cert' = cert)
    PROVE  IInv'
  <1>1. th' \in [Threads -> Local] /\ th'[t] = r /\ \A u \in Threads \ {t} : th'[u] = th[u]
    BY DEF IInv
  <1>2. Locked'
    BY <1>1, SslNamesAssumption DEF IInv, Locked
  <1>3. ASSUME NEW u \in Threads \ {t} PROVE ThreadHolds(u)'
    <2>1. ThreadHolds(u) /\ th'[u] = th[u] /\ (smu' = u => smu = u)
      BY <1>1, SslNamesAssumption DEF IInv
    <2>2. CASE smu = t
      <3>1. th[u].pc \in {"idle", "wait"} /\ smu' # u
        BY <2>1, <2>2 DEF IInv, Locked
      <3> QED BY <2>1, <3>1 DEF ThreadHolds, RefreshHolds, FormHolds, ScriptHolds
    <2>3. CASE file' = file /\ cert' = cert
      BY <2>1, <2>3 DEF ThreadHolds, RefreshHolds, FormHolds, ScriptHolds
    <2> QED BY <2>2, <2>3
  <1>4. \A u \in Threads : ThreadHolds(u)'
    BY <1>3
  <1> QED BY <1>1, <1>2, <1>4 DEF IInv

\* Lemmas on the steps; each says why the step may use Framed.

LEMMA Locals ==
    ASSUME IInv, NEW t \in Threads
    PROVE  /\ th[t] \in Local /\ th[t].s \in SslSettings /\ ThreadHolds(t)
           /\ th[t].pc \notin {"idle", "wait"} => smu = t
           /\ t = Ticker \/ t \in Admins
    BY DEF IInv, Locked, Local, Threads

\* A failure is counted, and the count is bounded.
LEMMA FaultType ==
    ASSUME SharedType, Fault \/ UNCHANGED faults
    PROVE  faults' \in 0 .. MaxFaults
    BY SslBoundsAssumption DEF SharedType, Fault

LEMMA LoadedType ==
    ASSUME SharedType, NEW s, Loaded(s)
    PROVE  faults' \in 0 .. MaxFaults
    BY FaultType DEF Loaded

LEMMA AskedHolds ==
    ASSUME IInv, NEW t \in Threads, NEW enable \in BOOLEAN, NEW pair \in Pairs \cup {None, Half}, Asked(t, enable, pair)
    PROVE  IInv'
  <1> DEFINE r == [Idle EXCEPT !.pc = "wait", !.enable = enable, !.pair = pair]
  <1>1. r \in Local /\ r.pc = "wait"
    BY IdleType DEF Local, PC
  <1>2. smu # t /\ t # Ticker
    BY SslNamesAssumption DEF IInv, Asked, Locked
  <1>3. th' = [th EXCEPT ![t] = r] /\ th'[t] = r
    BY DEF Asked, IInv
  <1>4. SharedType' /\ EnabledAsSaved'
    BY DEF Asked, IInv, SharedType, EnabledAsSaved, world, panel
  <1>5. ThreadHolds(t)'
    BY <1>1, <1>2, <1>3 DEF Asked, ThreadHolds, RefreshHolds, FormHolds, ScriptHolds
  <1> QED BY <1>1, <1>2, <1>3, <1>4, <1>5, Framed DEF Asked, panel

LEMMA FormBeginsHolds ==
    ASSUME IInv, NEW t \in Threads, FormBegins(t)
    PROVE  IInv'
  <1>1. PICK s \in {file, NoSettings} :
           /\ Loaded(s)
           /\ th' = [th EXCEPT ![t].pc = FormNext(t), ![t].s = [s EXCEPT !.enabled = th[t].enable]]
    BY DEF FormBegins
  <1> DEFINE q == [s EXCEPT !.enabled = th[t].enable]
             r == [th[t] EXCEPT !.pc = FormNext(t), !.s = q]
  <1>2. q \in SslSettings /\ q.enabled = th[t].enable
    BY IdleType, Locals DEF IInv, SharedType, SslSettings, Local
  <1>3. FormNext(t) \in {"readkey", "refuse", "save"}
    BY DEF FormNext
  <1>4. r \in Local /\ r.pc = FormNext(t) /\ r.s = q /\ r.enable = th[t].enable /\ r.pair = th[t].pair
    BY <1>2, <1>3, Locals DEF Local, PC
  <1>5. th' = [th EXCEPT ![t] = r] /\ th'[t] = r
    BY <1>1 DEF IInv
  <1>6. smu = Free /\ smu' = t /\ t # Ticker
    BY Locals DEF FormBegins, Acquire, ThreadHolds, RefreshHolds
  <1>7. SharedType' /\ EnabledAsSaved'
    <2>1. faults' \in 0 .. MaxFaults
      BY <1>1, LoadedType DEF IInv, SharedType
    <2>2. SharedType'
      BY <2>1, <1>6 DEF FormBegins, IInv, SharedType, world, panel
    <2>3. EnabledAsSaved'
      BY DEF FormBegins, IInv, EnabledAsSaved, panel
    <2> QED BY <2>2, <2>3
  <1>8. ThreadHolds(t)'
    BY <1>2, <1>3, <1>4, <1>5, <1>6 DEF FormBegins, panel, FormNext, ThreadHolds, RefreshHolds, FormHolds, ScriptHolds
  <1> QED BY <1>3, <1>4, <1>5, <1>6, <1>7, <1>8, Framed DEF FormBegins, panel

LEMMA FormRefusedHolds ==
    ASSUME IInv, NEW t \in Threads, FormRefused(t)
    PROVE  IInv'
  <1>1. smu = t /\ smu' = Free /\ smu' # t
    BY Locals, SslNamesAssumption DEF FormRefused, Threads
  <1>2. th' = [th EXCEPT ![t] = Idle] /\ th'[t] = Idle
    BY DEF FormRefused, IInv
  <1>3. SharedType' /\ EnabledAsSaved'
    BY DEF FormRefused, IInv, SharedType, EnabledAsSaved, world, panel
  <1>4. ThreadHolds(t)'
    <2>1. Idle.pc = "idle"
      BY DEF Idle
    <2> QED BY <1>1, <1>2, <2>1 DEF ThreadHolds, RefreshHolds, FormHolds, ScriptHolds
  <1> QED BY <1>1, <1>2, <1>3, <1>4, IdleType, Framed DEF Idle

LEMMA RefreshBeginsHolds ==
    ASSUME IInv, RefreshBegins
    PROVE  IInv'
  <1>1. PICK s \in {file, NoSettings} :
           /\ Loaded(s)
           /\ s.enabled /\ s.src # None
           /\ th' = [th EXCEPT ![Ticker] = [Idle EXCEPT !.pc = "readkey", !.pair = s.src, !.s = s]]
    BY DEF RefreshBegins
  <1>2. s = file /\ s \in SslSettings /\ s.src \in Pairs
    BY <1>1 DEF NoSettings, IInv, SharedType, SslSettings
  <1> DEFINE r == [Idle EXCEPT !.pc = "readkey", !.pair = s.src, !.s = s]
  <1>3. r \in Local /\ r.pc = "readkey" /\ r.pair = s.src /\ r.s = s
    BY <1>2, IdleType DEF Local, PC, Idle
  <1>4. Ticker \in Threads /\ smu = Free /\ smu' = Ticker
    BY DEF RefreshBegins, Acquire, Threads
  <1>5. th' = [th EXCEPT ![Ticker] = r] /\ th'[Ticker] = r
    BY <1>1, <1>4 DEF IInv
  <1>6. SharedType' /\ EnabledAsSaved'
    <2>1. faults' \in 0 .. MaxFaults
      BY <1>1, LoadedType DEF IInv, SharedType
    <2>2. SharedType'
      BY <2>1, <1>4 DEF RefreshBegins, IInv, SharedType, world, panel
    <2>3. EnabledAsSaved'
      BY DEF RefreshBegins, IInv, EnabledAsSaved, panel
    <2> QED BY <2>2, <2>3
  <1>7. ThreadHolds(Ticker)'
    BY <1>2, <1>3, <1>5 DEF RefreshBegins, ThreadHolds, RefreshHolds, FormHolds, ScriptHolds
  <1> QED BY <1>3, <1>4, <1>5, <1>6, <1>7, Framed DEF RefreshBegins, panel

\* What a failed installation leaves in the thread.
Failed(t) ==
    [th[t] EXCEPT !.pc = IF t = Ticker THEN "save" ELSE "refuse",
                  !.s = [th[t].s EXCEPT !.error = (t = Ticker \/ th[t].s.error)]]

\* A failed installation keeps what concerns its thread.
LEMMA FailedHolds ==
    ASSUME IInv, NEW t \in Threads, smu = t, InstallFailed(t), smu' = smu, file' = file
    PROVE  /\ Failed(t) \in Local /\ th' = [th EXCEPT ![t] = Failed(t)]
           /\ Failed(t).pc \in {"save", "refuse"}
           /\ ThreadHolds(t)'
  <1>1. Failed(t) \in Local
    <2>1. [th[t].s EXCEPT !.error = (t = Ticker \/ th[t].s.error)] \in SslSettings
      BY Locals DEF SslSettings
    <2> QED BY <2>1, Locals DEF Failed, Local, PC
  <1>2. th' = [th EXCEPT ![t] = Failed(t)] /\ th'[t] = Failed(t)
    BY DEF InstallFailed, Failed, IInv
  <1>3. /\ Failed(t).pc = IF t = Ticker THEN "save" ELSE "refuse"
        /\ Failed(t).pair = th[t].pair /\ Failed(t).enable = th[t].enable
        /\ Failed(t).s.src = th[t].s.src /\ Failed(t).s.enabled = th[t].s.enabled
    BY Locals DEF Failed, Local, SslSettings
  <1>4. RefreshHolds(t)'
    <2>1. th[t].pc # "idle"
      BY DEF IInv, Locked
    <2> QED BY <2>1, <1>2, <1>3, Locals DEF ThreadHolds, RefreshHolds
  <1>5. FormHolds(t)'
    BY <1>2, <1>3, Locals DEF ThreadHolds, FormHolds
  <1>6. ScriptHolds(t)'
    BY <1>2, <1>3 DEF ScriptHolds
  <1> QED BY <1>1, <1>2, <1>3, <1>4, <1>5, <1>6 DEF ThreadHolds

\* Steps of the script change what is in the directory, at most.
LEMMA Scripted ==
    ASSUME IInv, NEW t \in Threads, smu = t, Unhurt, faults' \in 0 .. MaxFaults,
           disk' \in [key : Certs \cup {None}, cert : Certs \cup {None}]
    PROVE  /\ SharedType' /\ EnabledAsSaved'
           /\ smu' = t /\ file' = file /\ cert' = cert
  <1>1. SharedType'
    BY DEF Unhurt, IInv, SharedType, world, panel
  <1>2. EnabledAsSaved'
    BY DEF Unhurt, IInv, EnabledAsSaved, panel
  <1> QED BY <1>1, <1>2 DEF Unhurt, panel

LEMMA ReadKeyHolds ==
    ASSUME IInv, NEW t \in Threads, ReadKey(t)
    PROVE  IInv'
  <1>1. smu = t /\ Unhurt /\ faults' \in 0 .. MaxFaults /\ th[t].pair \in Pairs
    BY Locals, FaultType DEF ReadKey, IInv, ThreadHolds, ScriptHolds
  <1>2. /\ SharedType' /\ EnabledAsSaved'
        /\ smu' = t /\ file' = file /\ cert' = cert
    BY <1>1, Scripted DEF ReadKey, IInv, SharedType
  <1>3. CASE src[th[t].pair] = None
    BY <1>1, <1>2, <1>3, FailedHolds, Framed DEF ReadKey
  <1>4. CASE src[th[t].pair] # None
    <2> DEFINE r == [th[t] EXCEPT !.pc = "readcert", !.key = src[th[t].pair]]
    <2>1. src[th[t].pair] \in Certs
      BY <1>1, <1>4 DEF IInv, SharedType
    <2>2. r \in Local /\ r.pc = "readcert" /\ r.key = src[th[t].pair]
          /\ r.pair = th[t].pair /\ r.s = th[t].s /\ r.enable = th[t].enable
      BY <2>1, Locals DEF Local, PC
    <2>3. th' = [th EXCEPT ![t] = r] /\ th'[t] = r
      BY <1>4 DEF ReadKey, IInv
    <2>4. ThreadHolds(t)'
      BY <1>1, <1>2, <2>1, <2>2, <2>3, Locals DEF ReadKey, ThreadHolds, RefreshHolds, FormHolds, ScriptHolds
    <2> QED BY <1>1, <1>2, <2>2, <2>3, <2>4, Framed
  <1> QED BY <1>3, <1>4

LEMMA ReadCertHolds ==
    ASSUME IInv, NEW t \in Threads, ReadCert(t)
    PROVE  IInv'
  <1>1. smu = t /\ Unhurt /\ faults' \in 0 .. MaxFaults /\ th[t].pair \in Pairs /\ th[t].key \in Certs
    BY Locals, FaultType DEF ReadCert, IInv, ThreadHolds, ScriptHolds
  <1>2. /\ SharedType' /\ EnabledAsSaved'
        /\ smu' = t /\ file' = file /\ cert' = cert
    BY <1>1, Scripted DEF ReadCert, IInv, SharedType
  <1>3. CASE src[th[t].pair] = None
    BY <1>1, <1>2, <1>3, FailedHolds, Framed DEF ReadCert
  <1>4. CASE src[th[t].pair] # None
    <2> DEFINE r == [th[t] EXCEPT !.pc = "movekey", !.crt = src[th[t].pair]]
    <2>1. src[th[t].pair] \in Certs
      BY <1>1, <1>4 DEF IInv, SharedType
    <2>2. r \in Local /\ r.pc = "movekey" /\ r.crt = src[th[t].pair] /\ r.key = th[t].key
          /\ r.pair = th[t].pair /\ r.s = th[t].s /\ r.enable = th[t].enable
      BY <2>1, Locals DEF Local, PC
    <2>3. th' = [th EXCEPT ![t] = r] /\ th'[t] = r
      BY <1>4 DEF ReadCert, IInv
    <2>4. ThreadHolds(t)'
      BY <1>1, <1>2, <2>1, <2>2, <2>3, Locals DEF ReadCert, ThreadHolds, RefreshHolds, FormHolds, ScriptHolds
    <2> QED BY <1>1, <1>2, <2>2, <2>3, <2>4, Framed
  <1> QED BY <1>3, <1>4

LEMMA MoveKeyHolds ==
    ASSUME IInv, NEW t \in Threads, MoveKey(t)
    PROVE  IInv'
  <1>1. smu = t /\ Unhurt /\ faults' \in 0 .. MaxFaults
        /\ th[t].pair \in Pairs /\ th[t].key \in Certs /\ th[t].crt \in Certs
    BY Locals, FaultType DEF MoveKey, IInv, ThreadHolds, ScriptHolds
  <1>2. /\ SharedType' /\ EnabledAsSaved'
        /\ smu' = t /\ file' = file /\ cert' = cert
    <2>1. disk' \in [key : Certs \cup {None}, cert : Certs \cup {None}]
      BY <1>1 DEF MoveKey, IInv, SharedType
    <2> QED BY <1>1, <2>1, Scripted
  <1> DEFINE r == [th[t] EXCEPT !.pc = "movecert"]
  <1>3. r \in Local /\ r.pc = "movecert" /\ r.crt = th[t].crt
        /\ r.pair = th[t].pair /\ r.s = th[t].s /\ r.enable = th[t].enable
    BY Locals DEF Local, PC
  <1>4. th' = [th EXCEPT ![t] = r] /\ th'[t] = r
    BY DEF MoveKey, IInv
  <1>5. ThreadHolds(t)'
    BY <1>1, <1>2, <1>3, <1>4, Locals DEF MoveKey, ThreadHolds, RefreshHolds, FormHolds, ScriptHolds
  <1> QED BY <1>1, <1>2, <1>3, <1>4, <1>5, Framed

LEMMA MoveCertHolds ==
    ASSUME IInv, NEW t \in Threads, MoveCert(t)
    PROVE  IInv'
  <1>1. smu = t /\ Unhurt /\ faults' \in 0 .. MaxFaults /\ th[t].pair \in Pairs /\ th[t].crt \in Certs
    BY Locals, FaultType DEF MoveCert, IInv, ThreadHolds, ScriptHolds
  <1>2. /\ SharedType' /\ EnabledAsSaved'
        /\ smu' = t /\ file' = file /\ cert' = cert
    <2>1. disk' \in [key : Certs \cup {None}, cert : Certs \cup {None}]
      BY <1>1 DEF MoveCert, IInv, SharedType
    <2> QED BY <1>1, <2>1, Scripted
  <1>3. CASE src[th[t].pair] = None
    BY <1>1, <1>2, <1>3, FailedHolds, Framed DEF MoveCert
  <1>4. CASE src[th[t].pair] # None
    <2> DEFINE q == [th[t].s EXCEPT !.subject = src[th[t].pair]]
               r == [th[t] EXCEPT !.pc = "load", !.s = q]
    <2>1. src[th[t].pair] \in Certs
      BY <1>1, <1>4 DEF IInv, SharedType
    <2>2. q \in SslSettings /\ q.src = th[t].s.src /\ q.enabled = th[t].s.enabled
      BY <2>1, Locals DEF SslSettings
    <2>3. r \in Local /\ r.pc = "load" /\ r.s = q /\ r.pair = th[t].pair /\ r.enable = th[t].enable
      BY <2>2, Locals DEF Local, PC
    <2>4. th' = [th EXCEPT ![t] = r] /\ th'[t] = r
      <3>1. th' = [th EXCEPT ![t].pc = "load", ![t].s.subject = src[th[t].pair]]
        BY <1>4 DEF MoveCert
      <3> QED BY <3>1, Locals DEF IInv, Local, SslSettings
    <2>5. ThreadHolds(t)'
      BY <1>1, <1>2, <2>2, <2>3, <2>4, Locals DEF MoveCert, ThreadHolds, RefreshHolds, FormHolds, ScriptHolds
    <2> QED BY <1>1, <1>2, <2>3, <2>4, <2>5, Framed
  <1> QED BY <1>3, <1>4

LEMMA ScriptFailsHolds ==
    ASSUME IInv, NEW t \in Threads, ScriptFails(t)
    PROVE  IInv'
  <1>1. smu = t /\ Unhurt /\ InstallFailed(t)
    BY Locals DEF ScriptFails
  <1>2. faults' \in 0 .. MaxFaults
    BY FaultType DEF ScriptFails, IInv
  <1>3. /\ SharedType' /\ EnabledAsSaved'
        /\ smu' = t /\ file' = file /\ cert' = cert
    BY <1>1, <1>2, Scripted DEF ScriptFails, IInv, SharedType
  <1> QED BY <1>1, <1>3, FailedHolds, Framed

LEMMA LoadHolds ==
    ASSUME IInv, NEW t \in Threads, Load(t)
    PROVE  IInv'
  <1>1. smu = t /\ smu' = t /\ file' = file /\ th[t].pair \in Pairs
    BY Locals DEF Load, IInv, ThreadHolds, ScriptHolds
  <1>2. cert' \in Certs \cup {None} /\ (cert # None => cert' # None)
    BY DEF Load, LoadedCert, Matching, IInv, SharedType
  <1>3. SharedType' /\ EnabledAsSaved'
    <2>1. SharedType'
      BY <1>2 DEF Load, IInv, SharedType, world
    <2>2. EnabledAsSaved'
      BY <1>2 DEF Load, IInv, EnabledAsSaved
    <2> QED BY <2>1, <2>2
  <1>4. CASE ~Matching
    BY <1>1, <1>3, <1>4, FailedHolds, Framed DEF Load
  <1>5. CASE Matching
    <2> DEFINE q == [th[t].s EXCEPT !.src = th[t].pair, !.error = FALSE]
               r == [th[t] EXCEPT !.pc = "save", !.s = q]
    <2>1. q \in SslSettings /\ q.src = th[t].pair /\ q.enabled = th[t].s.enabled
      BY <1>1, Locals DEF SslSettings
    <2>2. r \in Local /\ r.pc = "save" /\ r.s = q /\ r.pair = th[t].pair /\ r.enable = th[t].enable
      BY <2>1, Locals DEF Local, PC
    <2>3. th' = [th EXCEPT ![t] = r] /\ th'[t] = r
      <3>1. th' = [th EXCEPT ![t].pc = "save", ![t].s.src = th[t].pair, ![t].s.error = FALSE]
        BY <1>5 DEF Load
      <3> QED BY <3>1, Locals DEF IInv, Local, SslSettings
    <2>4. cert' # None
      BY <1>5 DEF Load, LoadedCert, Matching
    <2>5. ThreadHolds(t)'
      BY <1>1, <2>1, <2>2, <2>3, <2>4, Locals DEF Load, ThreadHolds, RefreshHolds, FormHolds, ScriptHolds
    <2> QED BY <1>1, <1>3, <2>2, <2>3, <2>5, Framed
  <1> QED BY <1>4, <1>5

\* Either the form saves its switch, or ssl.json keeps the one it has.
LEMMA SaveHolds ==
    ASSUME IInv, NEW t \in Threads, Save(t)
    PROVE  IInv'
  <1>1. smu = t /\ smu' = Free /\ smu' # t /\ cert' = cert
    BY Locals, SslNamesAssumption DEF Save, Threads
  <1>2. th' = [th EXCEPT ![t] = Idle] /\ th'[t] = Idle /\ Idle.pc = "idle"
    BY DEF Save, IInv, Idle
  <1>3. file' = file \/ file' = th[t].s
    BY DEF Save
  <1>4. SharedType'
    <2>1. faults' \in 0 .. MaxFaults
      BY FaultType DEF Save, IInv
    <2>2. on' \in BOOLEAN /\ unrestored' \in BOOLEAN
      BY Locals DEF Save, IInv, SharedType, Local
    <2> QED BY <1>1, <1>3, <2>1, <2>2, Locals DEF Save, IInv, SharedType, world
  <1>5. EnabledAsSaved'
    <2>1. CASE Stores(t)
      <3>1. on' = th[t].enable /\ unrestored' = FALSE /\ file' = th[t].s /\ t # Ticker
        BY <2>1 DEF Save, Stores
      <3>2. file'.enabled = th[t].enable /\ (th[t].enable => cert' # None)
        BY <1>1, <3>1, Locals DEF Save, ThreadHolds, FormHolds
      <3>3. th[t].enable \in BOOLEAN
        BY Locals DEF Local
      <3> QED BY <3>1, <3>2, <3>3 DEF EnabledAsSaved
    <2>2. CASE ~Stores(t)
      <3>1. on' = on /\ unrestored' = unrestored
        BY <2>2 DEF Save
      <3>2. file'.enabled = file.enabled
        BY <2>2, <1>3, Locals DEF Save, Stores, ThreadHolds, RefreshHolds
      <3> QED BY <1>1, <3>1, <3>2 DEF IInv, EnabledAsSaved
    <2> QED BY <2>1, <2>2
  <1>6. ThreadHolds(t)'
    BY <1>1, <1>2 DEF ThreadHolds, RefreshHolds, FormHolds, ScriptHolds
  <1> QED BY <1>1, <1>2, <1>4, <1>5, <1>6, IdleType, Framed

\* Steps of the files that certificates are copied from.
LEMMA SourceHolds ==
    ASSUME IInv, NEW p \in Pairs, Renewed(p) \/ Spoilt(p)
    PROVE  IInv'
  <1>1. UNCHANGED <<disk, file, panel, smu, th>>
    BY DEF Renewed, Spoilt
  <1>2. src' \in [Pairs -> Certs \cup {None}] /\ issued' \in Certs
    BY SslBoundsAssumption DEF Renewed, Spoilt, IInv, SharedType, Certs
  <1>3. faults' \in 0 .. MaxFaults
    BY FaultType DEF Renewed, Spoilt, IInv
  <1>4. SharedType'
    BY <1>1, <1>2, <1>3 DEF IInv, SharedType, panel
  <1>5. EnabledAsSaved'
    BY <1>1 DEF IInv, EnabledAsSaved, panel
  <1>6. Locked' /\ th' \in [Threads -> Local]
    BY <1>1 DEF IInv, Locked
  <1>7. \A t \in Threads : ThreadHolds(t)'
    BY <1>1 DEF IInv, ThreadHolds, RefreshHolds, FormHolds, ScriptHolds, panel
  <1> QED BY <1>4, <1>5, <1>6, <1>7 DEF IInv

LEMMA RestartHolds ==
    ASSUME IInv, PanelRestarts
    PROVE  IInv'
  <1>1. \A t \in Threads : th'[t] = Idle /\ smu' # t
    BY SslNamesAssumption DEF PanelRestarts
  <1>2. th' \in [Threads -> Local]
    BY IdleType DEF PanelRestarts
  <1>3. Locked'
    <2>1. Idle.pc = "idle"
      BY DEF Idle
    <2> QED BY <1>1, <2>1 DEF Locked
  <1>4. \A t \in Threads : ThreadHolds(t)'
    <2>1. Idle.pc = "idle"
      BY DEF Idle
    <2> QED BY <1>1, <2>1 DEF ThreadHolds, RefreshHolds, FormHolds, ScriptHolds
  <1>5. PICK s \in {file, NoSettings} :
           /\ on' = (Matching /\ s.enabled)
           /\ unrestored' = (file.enabled /\ ~(Matching /\ s.enabled))
    BY DEF PanelRestarts
  <1>6. on' \in BOOLEAN /\ unrestored' \in BOOLEAN
    BY <1>5
  <1>7. SharedType'
    <2>1. faults' \in 0 .. MaxFaults
      BY FaultType DEF PanelRestarts, IInv
    <2>2. cert' \in Certs \cup {None}
      BY DEF PanelRestarts, IInv, SharedType
    <2> QED BY <1>6, <2>1, <2>2 DEF PanelRestarts, IInv, SharedType, world
  <1>8. EnabledAsSaved'
    <2>1. file' = file /\ file.enabled \in BOOLEAN
      BY DEF PanelRestarts, IInv, SharedType, SslSettings
    <2>2. s.enabled => file.enabled
      BY DEF NoSettings
    <2>3. file'.enabled = file.enabled
      BY <2>1
    <2>4. on' = (file'.enabled /\ ~unrestored')
      <3>1. CASE Matching /\ s.enabled
        <4>1. on' = TRUE /\ unrestored' = FALSE
          BY <1>5, <3>1
        <4> QED BY <4>1, <2>1, <2>2, <2>3, <3>1
      <3>2. CASE ~(Matching /\ s.enabled)
        <4>1. on' = FALSE /\ unrestored' = file.enabled
          BY <1>5, <2>1, <3>2
        <4> QED BY <4>1, <2>1, <2>3
      <3> QED BY <3>1, <3>2
    <2>5. on' => cert' # None
      BY <1>5 DEF PanelRestarts, Matching
    <2> QED BY <2>4, <2>5 DEF EnabledAsSaved
  <1> QED BY <1>2, <1>3, <1>4, <1>7, <1>8 DEF IInv

LEMMA StutterHolds ==
    ASSUME IInv, UNCHANGED vars
    PROVE  IInv'
    BY DEF vars, world, panel, IInv, SharedType, EnabledAsSaved, Locked,
           ThreadHolds, RefreshHolds, FormHolds, ScriptHolds

\* IInv is inductive.
LEMMA NextHolds == IInv /\ [Next]_vars => IInv'
  <1> SUFFICES ASSUME IInv, [Next]_vars PROVE IInv'
    OBVIOUS
  <1>1. ASSUME NEW t \in Threads, Step(t) PROVE IInv'
    <2>1. CASE FormBegins(t)
      BY <2>1, FormBeginsHolds
    <2>2. CASE FormRefused(t)
      BY <2>2, FormRefusedHolds
    <2>3. CASE ReadKey(t)
      BY <2>3, ReadKeyHolds
    <2>4. CASE ReadCert(t)
      BY <2>4, ReadCertHolds
    <2>5. CASE MoveKey(t)
      BY <2>5, MoveKeyHolds
    <2>6. CASE MoveCert(t)
      BY <2>6, MoveCertHolds
    <2>7. CASE ScriptFails(t)
      BY <2>7, ScriptFailsHolds
    <2>8. CASE Load(t)
      BY <2>8, LoadHolds
    <2>9. CASE Save(t)
      BY <2>9, SaveHolds
    <2> QED BY <1>1, <2>1, <2>2, <2>3, <2>4, <2>5, <2>6, <2>7, <2>8, <2>9 DEF Step
  <1>2. ASSUME NEW t \in Threads, NEW enable \in BOOLEAN, NEW pair \in Pairs \cup {None, Half}, Asked(t, enable, pair)
        PROVE  IInv'
    BY <1>2, AskedHolds
  <1>3. CASE RefreshBegins
    BY <1>3, RefreshBeginsHolds
  <1>4. ASSUME NEW p \in Pairs, Renewed(p) \/ Spoilt(p) PROVE IInv'
    BY <1>4, SourceHolds
  <1>5. CASE PanelRestarts
    BY <1>5, RestartHolds
  <1>6. CASE UNCHANGED vars
    BY <1>6, StutterHolds
  <1> QED BY <1>1, <1>2, <1>3, <1>4, <1>5, <1>6 DEF Next

\* sslEnabled, ssl.json, the certificate in memory and what the holder of sslMu
\* is about to save agree in every reachable state.
THEOREM SslInvariance == Spec => []IInv
  <1> QED BY InitHolds, NextHolds, PTL DEF Spec

\* The variables keep their shape, and sslMu is held by the thread at work only.
THEOREM SslTypeCorrect == Spec => []TypeOK
  <1>1. IInv => TypeOK
    BY IInvImplies
  <1> QED BY <1>1, SslInvariance, PTL

\* The panel redirects to https exactly as ssl.json says, unless startup could
\* not load it, and never without a certificate, for any number of failures.
THEOREM EnabledCorrect == Spec => []EnabledAsSaved
  <1>1. IInv => EnabledAsSaved
    BY IInvImplies
  <1> QED BY <1>1, SslInvariance, PTL

\* No refresh ever undoes what the admin saved, however long it runs.
THEOREM RefreshKeepsCorrect == Spec => RefreshKeepsChoice
  <1>1. IInv /\ [Next]_vars => [Save(Ticker) => file'.enabled = file.enabled /\ file'.src = file.src]_vars
    <2> SUFFICES ASSUME IInv, Save(Ticker) PROVE file'.enabled = file.enabled /\ file'.src = file.src
      OBVIOUS
    <2>1. Ticker \in Threads /\ th[Ticker].pc # "idle"
      BY DEF Save, Threads
    <2>2. th[Ticker].s.enabled = file.enabled /\ th[Ticker].s.src = file.src
      BY <2>1, Locals DEF ThreadHolds, RefreshHolds
    <2>3. file' = th[Ticker].s \/ file' = file
      BY DEF Save
    <2> QED BY <2>2, <2>3
  <1> QED BY <1>1, SslInvariance, PTL DEF Spec, RefreshKeepsChoice
=============================================================================
