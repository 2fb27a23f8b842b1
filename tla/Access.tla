------------------------------- MODULE Access -------------------------------
(***************************************************************************)
(* Who gets into the panel: the throttle of failed logins per address, the *)
(* session cookies in the browsers, the password and the signing secret in *)
(* panel.env, which a root script changes one after the other and which    *)
(* the panel reads at startup, and the one port that serves http and https.*)
(* A time is kept as what is left of it, or as what has passed since.      *)
(***************************************************************************)
EXTENDS Naturals, FiniteSets

CONSTANTS
    Clients,    \* addresses, with one browser each
    Informed,   \* those who type passwords that are or were or will be right
    Requests,   \* login requests that may be in progress together
    None,       \* no cookie, no request
    Wrong,      \* a password that was never set
    Limit,      \* failures that lock an address: 5
    LockFor,    \* 5 minutes
    StaleAfter, \* an hour
    Large,      \* the number of addresses from which on stale ones are dropped: 1000
    SessionTTL, \* 12 hours
    MaxChange   \* bound: password changes

ASSUME AccessNamesAssumption == Informed \subseteq Clients /\ Wrong \notin Nat
ASSUME ThrottleAssumption ==
    /\ Limit \in Nat \ {0} /\ LockFor \in Nat \ {0} /\ StaleAfter \in Nat /\ Large \in Nat
    /\ LockFor <= StaleAfter
ASSUME SessionAssumption == SessionTTL \in Nat /\ MaxChange \in Nat

Passwords == 0 .. MaxChange

VARIABLES
    failures,   \* sessionStore.failures
    login,      \* the requests whose password is being compared
    jar,        \* each browser's psi_session cookie
    env,        \* panel.env: which password's hash, which secret
    panel,      \* what the running panel read of it
    chg,        \* set_panel_password: where the script is
    half,       \* auxiliary: the script died between the two lines
    ssl         \* https: "never" had a certificate, "on", or "off" again

vars == <<failures, login, jar, env, panel, chg, half, ssl>>

Attempts == [count : 1 .. Limit, left : 0 .. LockFor, age : 0 .. StaleAfter + 1]
Cookie == [key : Nat, pw : Nat, left : 0 .. SessionTTL, secure : BOOLEAN]
Login == [client : Clients, tls : BOOLEAN, pw : Passwords \cup {Wrong}]

ASSUME NoneAssumption == None \notin Cookie /\ None \notin Login

EnvFile == [hash : Passwords, secret : Passwords]

NoFailures == [c \in {} |-> 0]

Init ==
    /\ failures = NoFailures
    /\ login = [r \in Requests |-> None]
    /\ jar = [c \in Clients |-> None]
    /\ env = [hash |-> 0, secret |-> 0] /\ panel = env
    /\ chg = "no" /\ half = FALSE
    /\ ssl = "never"

-----------------------------------------------------------------------------
(* handleLogin                                                             *)

Locked(c) == c \in DOMAIN failures /\ failures[c].count >= Limit /\ failures[c].left > 0

\* Plain requests are redirected while https is on; TLS needs a certificate.
Served(tls) == IF tls THEN ssl # "never" ELSE ssl # "on"

MutantCountRefusal(c) ==
    [failures EXCEPT ![c] = [count |-> Limit, left |-> LockFor, age |-> 0]]

\* A locked address is told so, and nothing else happens.
AfterRefusal(c) == failures

Asked(r, c, tls, pw) ==
    /\ login[r] = None /\ Served(tls)
    /\ pw \in Passwords => c \in Informed
    /\ IF Locked(c) THEN failures' = AfterRefusal(c) /\ UNCHANGED login
       ELSE /\ login' = [login EXCEPT ![r] = [client |-> c, tls |-> tls, pw |-> pw]]
            /\ UNCHANGED failures
    /\ UNCHANGED <<jar, env, panel, chg, half, ssl>>

MutantStale(c) == failures[c].age > 0

\* An entry whose last failure is more than an hour old.
Stale(c) == failures[c].age > StaleAfter

\* The addresses that are left once recordFailure has looked at the size of the map.
Kept ==
    IF Cardinality(DOMAIN failures) > Large THEN {c \in DOMAIN failures : ~Stale(c)} ELSE DOMAIN failures

MutantKeepsLast(a) == a.age

\* a.last becomes the present, for an entry that is there already too.
SinceLast(a) == 0

\* One failure more. The count stops at the limit, which is all it is compared with.
Failed(c) ==
    LET a == IF c \in Kept THEN failures[c] ELSE [count |-> 0, left |-> 0, age |-> 0]
        n == IF a.count < Limit THEN a.count + 1 ELSE Limit
    IN [count |-> n, left |-> IF n >= Limit THEN LockFor ELSE a.left, age |-> SinceLast(a)]

WrongPassword(r) ==
    /\ login[r] # None /\ login[r].pw # panel.hash
    /\ LET c == login[r].client IN
       failures' = [k \in Kept \cup {c} |-> IF k = c THEN Failed(c) ELSE failures[k]]
    /\ login' = [login EXCEPT ![r] = None]
    /\ UNCHANGED <<jar, env, panel, chg, half, ssl>>

\* A browser keeps a Secure cookie when a plain connection sets one of the same name.
Stores(c, tls) == tls \/ jar[c] = None \/ ~jar[c].secure

\* recordSuccess and issue.
RightPassword(r) ==
    /\ login[r] # None /\ login[r].pw = panel.hash
    /\ LET c == login[r].client
           tls == login[r].tls
           cookie == [key |-> panel.secret, pw |-> panel.hash, left |-> SessionTTL, secure |-> tls]
       IN /\ failures' = [k \in DOMAIN failures \ {c} |-> failures[k]]
          /\ jar' = IF Stores(c, tls) THEN [jar EXCEPT ![c] = cookie] ELSE jar
    /\ login' = [login EXCEPT ![r] = None]
    /\ UNCHANGED <<env, panel, chg, half, ssl>>

-----------------------------------------------------------------------------
(* requireAuth, handleLogout                                               *)

\* The signature fits; an expired cookie is no longer in the jar.
Accepted(c) == jar[c] # None /\ jar[c].key = panel.secret

SignedIn(c, tls) == Accepted(c) /\ (jar[c].secure => tls)

Logout(c, tls) ==
    /\ Served(tls) /\ SignedIn(c, tls)
    /\ jar' = [jar EXCEPT ![c] = None]
    /\ UNCHANGED <<failures, login, env, panel, chg, half, ssl>>

-----------------------------------------------------------------------------
(* Time, https, set_panel_password, the panel's end and start              *)

Earlier(n) == IF n = 0 THEN 0 ELSE n - 1

Aged(a) ==
    [a EXCEPT !.left = Earlier(a.left), !.age = IF a.age > StaleAfter THEN a.age ELSE a.age + 1]

Tick ==
    /\ failures' = [c \in DOMAIN failures |-> Aged(failures[c])]
    /\ jar' = [c \in Clients |->
                 IF jar[c] = None \/ jar[c].left = 0 THEN None
                 ELSE [jar[c] EXCEPT !.left = jar[c].left - 1]]
    /\ UNCHANGED <<login, env, panel, chg, half, ssl>>

SslSwitched ==
    /\ ssl' = IF ssl = "on" THEN "off" ELSE "on"
    /\ UNCHANGED <<failures, login, jar, env, panel, chg, half>>

MutantSecretFirst(key) == IF key = "hash" THEN "secret" ELSE "hash"

\* set_panel_password writes PANEL_ADMIN_HASH, then PANEL_SESSION_SECRET.
Line(key) == key

SetLine(key) == env' = [env EXCEPT ![Line(key)] = @ + 1]

HashSet ==
    /\ chg = "no" /\ env.hash < MaxChange /\ env.secret < MaxChange
    /\ SetLine("hash")
    /\ chg' = "between"
    /\ UNCHANGED <<failures, login, jar, panel, half, ssl>>

SecretSet ==
    /\ chg = "between"
    /\ SetLine("secret")
    /\ chg' = "restart" /\ half' = FALSE
    /\ UNCHANGED <<failures, login, jar, panel, ssl>>

\* The terminal is closed, or sed fails.
ScriptDies ==
    /\ chg # "no"
    /\ half' = (half \/ chg = "between")
    /\ chg' = "no"
    /\ UNCHANGED <<failures, login, jar, env, panel, ssl>>

\* By the script at its end, or by a crash, an update, a reboot at any time.
PanelRestarts ==
    /\ failures' = NoFailures
    /\ login' = [r \in Requests |-> None]
    /\ panel' = env
    /\ chg' \in {chg, IF chg = "restart" THEN "no" ELSE chg}
    /\ UNCHANGED <<jar, env, half, ssl>>

-----------------------------------------------------------------------------
Next ==
    \/ \E r \in Requests, c \in Clients, tls \in BOOLEAN, pw \in Passwords \cup {Wrong} : Asked(r, c, tls, pw)
    \/ \E r \in Requests : WrongPassword(r) \/ RightPassword(r)
    \/ \E c \in Clients, tls \in BOOLEAN : Logout(c, tls)
    \/ Tick
    \/ SslSwitched
    \/ HashSet \/ SecretSet \/ ScriptDies \/ PanelRestarts

Spec == Init /\ [][Next]_vars

\* Time passes.
FairSpec == Spec /\ WF_vars(Tick)

-----------------------------------------------------------------------------
(* Properties.                                                             *)

Entries == {a \in Attempts : a.left > 0 => a.count = Limit /\ a.left + a.age = LockFor}

\* The shape of every variable; a lockout is counted from the address's last failure.
TypeOK ==
    /\ failures \in [DOMAIN failures -> Entries] /\ DOMAIN failures \subseteq Clients
    /\ login \in [Requests -> Login \cup {None}]
    /\ jar \in [Clients -> Cookie \cup {None}]
    /\ env \in EnvFile /\ panel \in EnvFile
    /\ chg \in {"no", "between", "restart"} /\ half \in BOOLEAN
    /\ ssl \in {"never", "on", "off"}

\* "Password updated. Existing panel logins will be signed out" (set_panel_password): a panel
\* that has read a completely changed panel.env accepts only sessions that were opened with
\* the new password, wherever the panel crashed and restarted while the script was at work.
SignedOut ==
    panel = env /\ chg # "between" /\ ~half =>
        \A c \in Clients : Accepted(c) => jar[c].pw = panel.hash

\* "5 attempts then 5 min lockout" (auth.go): a lockout ends when its time is over, by the
\* right password of a request that was let in before it, or with the panel; never because
\* another address's failure drops stale entries from the map.
LockoutKept ==
    [][\A c \in Clients : Locked(c) =>
          \/ Locked(c)'
          \/ Tick /\ failures[c].left = 1
          \/ \E r \in Requests : RightPassword(r) /\ login[r].client = c
          \/ PanelRestarts]_vars

\* A lockout ends, however often the locked address keeps trying.
LockoutEnds == \A c \in Clients : Locked(c) ~> ~Locked(c)

\* "old http:// bookmarks keep working" (ssl.go): whoever logs in is logged in.
LoginSticks ==
    [][\A r \in Requests, c \in Clients, tls \in BOOLEAN :
          RightPassword(r) /\ login[r].client = c /\ login[r].tls = tls => SignedIn(c, tls)']_vars

-----------------------------------------------------------------------------
(* The inductive invariant behind the safety properties (Access_proof).    *)

\* Nobody holds a secret that is not in panel.env yet.
SecretInv ==
    /\ panel.secret <= env.secret
    /\ \A c \in Clients : jar[c] # None => jar[c].key <= env.secret
    /\ chg = "between" => env.secret < MaxChange

\* With no change half-made, the present secret goes with the present password.
PairInv ==
    chg # "between" /\ ~half =>
        /\ panel.secret = env.secret => panel.hash = env.hash
        /\ \A c \in Clients : jar[c] # None /\ jar[c].key = env.secret => jar[c].pw = env.hash

IInv == TypeOK /\ SecretInv /\ PairInv
=============================================================================
