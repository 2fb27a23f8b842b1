-------------------------------- MODULE Ssl --------------------------------
(***************************************************************************)
(* HTTPS of the panel: the settings form and the 12-hourly refresh have a  *)
(* root script copy a certificate and its key into the panel's directory,  *)
(* load the copy and save ssl.json, while the files they copy from are     *)
(* renewed and the panel dies and starts again.                            *)
(***************************************************************************)
EXTENDS Naturals

CONSTANTS
    Pairs,          \* the pairs of paths the admin may name
    Admins,         \* handlers of the settings form
    Ticker,         \* the goroutine that startSSL starts
    None,           \* no pair, no certificate
    Half,           \* only one of the two paths
    Free,           \* sslMu is not held
    MaxFaults,      \* bound: failures and panel crashes
    MaxCert         \* bound: certificates issued

Threads == Admins \cup {Ticker}
Certs == 1 .. MaxCert

ASSUME SslNamesAssumption ==
    Ticker \notin Admins /\ Free \notin Threads /\ {None, Half} \cap (Pairs \cup Certs) = {} /\ None # Half
ASSUME SslBoundsAssumption == MaxFaults \in Nat /\ MaxCert \in Nat \ {0}

VARIABLES
    src,        \* the good pair that each pair of paths holds, or None
    issued,     \* the last certificate issued
    disk,       \* sslDir: which certificate key.pem and cert.pem are of
    file,       \* ssl.json
    on,         \* sslEnabled
    cert,       \* sslCert
    smu,        \* who holds sslMu, or Free
    th,         \* the threads: program counter and local variables
    faults,     \* bound: what has failed so far
    unrestored  \* auxiliary: it was on, but the panel could not load it at startup

world == <<src, issued>>
panel == <<on, cert, unrestored>>
vars == <<world, disk, file, panel, smu, th, faults>>

SslSettings == [enabled : BOOLEAN, src : Pairs \cup {None}, subject : Certs \cup {None}, error : BOOLEAN]
NoSettings == [enabled |-> FALSE, src |-> None, subject |-> None, error |-> FALSE]

Idle == [pc |-> "idle", enable |-> FALSE, pair |-> None, s |-> NoSettings, key |-> None, crt |-> None]

Init ==
    /\ src \in [Pairs -> {None, 1}]
    /\ issued = 1
    /\ disk = [key |-> None, cert |-> None]
    /\ file = NoSettings
    /\ on = FALSE /\ cert = None
    /\ smu = Free
    /\ th = [t \in Threads |-> Idle]
    /\ faults = 0
    /\ unrestored = FALSE

Fault == faults < MaxFaults /\ faults' = faults + 1

-----------------------------------------------------------------------------
(* The files on the server that the certificate is copied from.            *)

Renewed(p) ==
    /\ issued < MaxCert
    /\ issued' = issued + 1
    /\ src' = [src EXCEPT ![p] = issued + 1]
    /\ UNCHANGED <<disk, file, panel, smu, th, faults>>

\* The certificate expires, or the files are gone.
Spoilt(p) ==
    /\ src[p] # None
    /\ src' = [src EXCEPT ![p] = None]
    /\ Fault
    /\ UNCHANGED <<issued, disk, file, panel, smu, th>>

-----------------------------------------------------------------------------
(* handleSSL and sslRefresh, under sslMu                                   *)

MutantAcquireUnlocked(t) == smu' = t

Acquire(t) == smu = Free /\ smu' = t

\* loadSSL: settings that cannot be read are no settings.
Loaded(s) ==
    \/ s = file /\ UNCHANGED faults
    \/ s = NoSettings /\ Fault

Asked(t, enable, pair) ==
    /\ t \in Admins /\ th[t].pc = "idle"
    /\ th' = [th EXCEPT ![t] = [Idle EXCEPT !.pc = "wait", !.enable = enable, !.pair = pair]]
    /\ UNCHANGED <<world, disk, file, panel, smu, faults>>

\* What the form leads to once sslMu is held: install, save, or an error.
FormNext(t) ==
    LET f == th[t] IN
    IF f.enable /\ f.pair \in Pairs THEN "readkey"
    ELSE IF f.enable /\ (f.pair = Half \/ cert = None) THEN "refuse"
    ELSE "save"

FormBegins(t) ==
    /\ th[t].pc = "wait"
    /\ Acquire(t)
    /\ \E s \in {file, NoSettings} :
          /\ Loaded(s)
          /\ th' = [th EXCEPT ![t].pc = FormNext(t), ![t].s = [s EXCEPT !.enabled = th[t].enable]]
    /\ UNCHANGED <<world, disk, file, panel>>

FormRefused(t) ==
    /\ th[t].pc = "refuse"
    /\ smu' = Free
    /\ th' = [th EXCEPT ![t] = Idle]
    /\ UNCHANGED <<world, disk, file, panel, faults>>

\* Every 12 hours; nothing to do while SSL is off or has no files.
RefreshBegins ==
    /\ th[Ticker].pc = "idle"
    /\ \E s \in {file, NoSettings} :
          /\ Loaded(s)
          /\ s.enabled /\ s.src # None
          /\ th' = [th EXCEPT ![Ticker] = [Idle EXCEPT !.pc = "readkey", !.pair = s.src, !.s = s]]
    /\ Acquire(Ticker)
    /\ UNCHANGED <<world, disk, file, panel>>

\* installCert returned an error: the form saves nothing, the refresh the error.
InstallFailed(t) ==
    th' = [th EXCEPT ![t].pc = IF t = Ticker THEN "save" ELSE "refuse",
                     ![t].s.error = (t = Ticker \/ th[t].s.error)]

Unhurt == UNCHANGED <<world, file, panel, smu>>

\* install-cert.sh: it checks the pair, copies the key, copies the certificate,
\* moves the copies into place, and names the certificate that is there by now.
ReadKey(t) ==
    /\ th[t].pc = "readkey"
    /\ IF src[th[t].pair] = None THEN InstallFailed(t)
       ELSE th' = [th EXCEPT ![t].pc = "readcert", ![t].key = src[th[t].pair]]
    /\ Unhurt /\ UNCHANGED <<disk, faults>>

ReadCert(t) ==
    /\ th[t].pc = "readcert"
    /\ IF src[th[t].pair] = None THEN InstallFailed(t)
       ELSE th' = [th EXCEPT ![t].pc = "movekey", ![t].crt = src[th[t].pair]]
    /\ Unhurt /\ UNCHANGED <<disk, faults>>

MoveKey(t) ==
    /\ th[t].pc = "movekey"
    /\ disk' = [disk EXCEPT !.key = th[t].key]
    /\ th' = [th EXCEPT ![t].pc = "movecert"]
    /\ Unhurt /\ UNCHANGED faults

MoveCert(t) ==
    /\ th[t].pc = "movecert"
    /\ disk' = [disk EXCEPT !.cert = th[t].crt]
    /\ IF src[th[t].pair] = None THEN InstallFailed(t)
       ELSE th' = [th EXCEPT ![t].pc = "load", ![t].s.subject = src[th[t].pair]]
    /\ Unhurt /\ UNCHANGED faults

\* The script fails or is killed somewhere.
ScriptFails(t) ==
    /\ th[t].pc \in {"readkey", "readcert", "movekey", "movecert"}
    /\ Fault
    /\ InstallFailed(t)
    /\ Unhurt /\ UNCHANGED disk

Matching == disk.key = disk.cert /\ disk.key # None

MutantKeepLoaded == IF cert = None THEN disk.cert ELSE cert

\* The certificate that loadSSLCert puts into memory.
LoadedCert == disk.cert

\* loadSSLCert, and what installCert's caller makes of it.
Load(t) ==
    /\ th[t].pc = "load"
    /\ IF Matching
       THEN /\ cert' = LoadedCert
            /\ th' = [th EXCEPT ![t].pc = "save", ![t].s.src = th[t].pair, ![t].s.error = FALSE]
       ELSE UNCHANGED cert /\ InstallFailed(t)
    /\ UNCHANGED <<world, disk, file, on, unrestored, smu, faults>>

MutantStoreAnyway(t) == TRUE

\* sslEnabled follows the form, when the form could be saved.
Stores(t) == t # Ticker /\ file' = th[t].s

\* saveSSL, and the end of the handler.
Save(t) ==
    /\ th[t].pc = "save"
    /\ \/ file' = th[t].s /\ UNCHANGED faults
       \/ Fault /\ UNCHANGED file
    /\ IF Stores(t) THEN on' = th[t].enable /\ unrestored' = FALSE ELSE UNCHANGED <<on, unrestored>>
    /\ smu' = Free
    /\ th' = [th EXCEPT ![t] = Idle]
    /\ UNCHANGED <<world, disk, cert>>

\* The panel dies, and startSSL restores what it can.
PanelRestarts ==
    /\ Fault
    /\ cert' = IF Matching THEN disk.cert ELSE None
    /\ \E s \in {file, NoSettings} :
          /\ on' = (Matching /\ s.enabled)
          /\ unrestored' = (file.enabled /\ ~(Matching /\ s.enabled))
    /\ smu' = Free
    /\ th' = [t \in Threads |-> Idle]
    /\ UNCHANGED <<world, disk, file>>

-----------------------------------------------------------------------------
Step(t) ==
    \/ FormBegins(t) \/ FormRefused(t)
    \/ ReadKey(t) \/ ReadCert(t) \/ MoveKey(t) \/ MoveCert(t) \/ ScriptFails(t)
    \/ Load(t) \/ Save(t)

Next ==
    \/ \E t \in Threads :
          \/ \E enable \in BOOLEAN, pair \in Pairs \cup {None, Half} : Asked(t, enable, pair)
          \/ Step(t)
    \/ RefreshBegins
    \/ \E p \in Pairs : Renewed(p) \/ Spoilt(p)
    \/ PanelRestarts

Spec == Init /\ [][Next]_vars

\* Handlers and scripts end, the ticker ticks, and sync.Mutex starves nobody.
Fairness == WF_vars(Step(Ticker)) /\ SF_vars(RefreshBegins) /\ \A t \in Admins : WF_vars(Step(t))

FairSpec == Spec /\ Fairness

-----------------------------------------------------------------------------
(* Properties.                                                             *)

\* The shape of every variable; sslMu is held exactly while a thread is at work.
TypeOK ==
    /\ src \in [Pairs -> Certs \cup {None}] /\ issued \in Certs
    /\ disk \in [key : Certs \cup {None}, cert : Certs \cup {None}]
    /\ file \in SslSettings
    /\ on \in BOOLEAN /\ cert \in Certs \cup {None} /\ unrestored \in BOOLEAN
    /\ smu \in Threads \cup {Free}
    /\ th \in [Threads -> [pc : {"idle", "wait", "refuse", "readkey", "readcert", "movekey", "movecert", "load", "save"},
                           enable : BOOLEAN, pair : Pairs \cup {None, Half}, s : SslSettings,
                           key : Certs \cup {None}, crt : Certs \cup {None}]]
    /\ faults \in 0 .. MaxFaults
    /\ \A t \in Threads : th[t].pc \notin {"idle", "wait"} <=> smu = t

\* Connections are redirected to https as ssl.json says, whatever failed on the
\* way, unless startup could not load it; and never without a certificate to serve
\* (handleSSL stores sslEnabled last, sslRefresh and a failed save leave it).
EnabledAsSaved ==
    /\ on = (file.enabled /\ ~unrestored)
    /\ on => cert # None

\* The refresh rewrites ssl.json hours apart from the admin's edits, but never
\* undoes one: not the switch, not the paths.
RefreshKeepsChoice ==
    [][Save(Ticker) => file'.enabled = file.enabled /\ file'.src = file.src]_vars

\* "They're re-copied every 12 hours so a renewed certificate is picked up" (ssl.go).
RenewalServed ==
    \A p \in Pairs, c \in Certs :
        <>[](file.enabled /\ file.src = p /\ src[p] = c) => <>[](cert = c)
=============================================================================
