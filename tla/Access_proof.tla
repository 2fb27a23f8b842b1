---------------------------- MODULE Access_proof ----------------------------
(* Proofs about Access, for any addresses, requests, limits and times.       *)
EXTENDS Access, TLAPS

-----------------------------------------------------------------------------
\* The throttle.

\* An entry of the map is well formed after another failure, and is locked if the
\* one before was.
LEMMA FailedIs ==
    ASSUME TypeOK, NEW c \in Clients
    PROVE  /\ Failed(c) \in Entries
           /\ Kept \subseteq DOMAIN failures
           /\ Locked(c) => c \in Kept /\ Failed(c).count >= Limit /\ Failed(c).left > 0
  <1> USE ThrottleAssumption
  <1>1. Kept \subseteq DOMAIN failures /\ \A k \in DOMAIN failures : ~Stale(k) => k \in Kept
    BY DEF Kept
  <1>2. c \in DOMAIN failures => failures[c] \in Entries
    BY DEF TypeOK
  <1>3. ASSUME Locked(c) PROVE c \in Kept /\ failures[c].count >= Limit
    <2>1. c \in DOMAIN failures /\ failures[c] \in Attempts /\ failures[c].left + failures[c].age = LockFor
      BY <1>2, <1>3 DEF Locked, Entries, Attempts
    <2>2. failures[c].age <= StaleAfter
      BY <1>3, <2>1 DEF Locked, Attempts
    <2> QED BY <1>1, <1>3, <2>1, <2>2 DEF Stale, Locked, Attempts
  <1>4. ASSUME NEW a \in Entries \cup {[count |-> 0, left |-> 0, age |-> 0]},
               NEW n \in Nat, n = IF a.count < Limit THEN a.count + 1 ELSE Limit
        PROVE  /\ [count |-> n, left |-> IF n >= Limit THEN LockFor ELSE a.left, age |-> 0] \in Entries
               /\ a.count >= Limit => n = Limit
    <2>1. /\ a.count \in 0 .. Limit /\ a.left \in 0 .. LockFor
          /\ n \in 1 .. Limit /\ (n < Limit => a.left = 0)
      BY <1>4 DEF Entries, Attempts
    <2> QED BY <1>4, <2>1 DEF Entries, Attempts
  <1> DEFINE a == IF c \in Kept THEN failures[c] ELSE [count |-> 0, left |-> 0, age |-> 0]
             n == IF a.count < Limit THEN a.count + 1 ELSE Limit
  <1>5. a \in Entries \cup {[count |-> 0, left |-> 0, age |-> 0]}
    BY <1>1, <1>2
  <1>6. a.count \in Nat /\ n \in Nat
    BY <1>5 DEF Entries, Attempts
  <1>7. Failed(c) = [count |-> n, left |-> IF n >= Limit THEN LockFor ELSE a.left, age |-> 0]
    BY DEF Failed, SinceLast
  <1>8. Failed(c) \in Entries /\ (a.count >= Limit => n = Limit)
    BY <1>4, <1>5, <1>6, <1>7
  <1>9. ASSUME Locked(c) PROVE c \in Kept /\ Failed(c).count >= Limit /\ Failed(c).left > 0
    <2>1. a.count >= Limit
      BY <1>3, <1>9
    <2> HIDE DEF a, n
    <2> QED BY <1>3, <1>7, <1>8, <1>9, <2>1
  <1> QED BY <1>1, <1>8, <1>9

\* Time takes a lockout's rest away, one by one, and adds to what has passed.
LEMMA AgedIs ==
    ASSUME NEW a \in Entries
    PROVE  /\ Aged(a) \in Entries
           /\ Aged(a).count = a.count /\ Aged(a).left = Earlier(a.left)
  <1> USE ThrottleAssumption
  <1>1. a \in Attempts /\ (a.left > 0 => a.count = Limit /\ a.left + a.age = LockFor)
    BY DEF Entries
  <1>2. /\ Earlier(a.left) \in 0 .. LockFor
        /\ Earlier(a.left) > 0 => a.left > 0 /\ Earlier(a.left) = a.left - 1 /\ a.age <= StaleAfter
    BY <1>1 DEF Earlier, Attempts
  <1>3. /\ Aged(a).count = a.count /\ Aged(a).left = Earlier(a.left)
        /\ Aged(a).age = IF a.age > StaleAfter THEN a.age ELSE a.age + 1
        /\ Aged(a) \in Attempts
    <2> DEFINE older == IF a.age > StaleAfter THEN a.age ELSE a.age + 1
    <2>1. older \in 0 .. StaleAfter + 1
      BY <1>1 DEF Attempts
    <2>2. Aged(a) = [a EXCEPT !.left = Earlier(a.left), !.age = older]
      BY DEF Aged
    <2> HIDE DEF older
    <2>3. /\ Aged(a).count = a.count /\ Aged(a).left = Earlier(a.left) /\ Aged(a).age = older
          /\ Aged(a) \in Attempts
      BY <1>1, <1>2, <2>1, <2>2 DEF Attempts
    <2> QED BY <2>3 DEF older
  <1> QED BY <1>1, <1>2, <1>3 DEF Entries, Attempts

\* The two lines of panel.env.
LEMMA LineIs ==
    ASSUME env \in EnvFile
    PROVE  /\ SetLine("hash") => env' = [hash |-> env.hash + 1, secret |-> env.secret]
           /\ SetLine("secret") => env' = [hash |-> env.hash, secret |-> env.secret + 1]
  BY DEF SetLine, Line, EnvFile, Passwords
-----------------------------------------------------------------------------
\* Types.

\* A login in progress and an idle one.
LEMMA LoginType ==
    ASSUME TypeOK, NEW r \in Requests
    PROVE  /\ [login EXCEPT ![r] = None] \in [Requests -> Login \cup {None}]
           /\ login[r] # None => login[r] \in Login
  BY DEF TypeOK

\* Logging in and out keeps the shape of what it touches.
LEMMA LoginStepType ==
    ASSUME TypeOK,
           \/ \E r \in Requests, c \in Clients, tls \in BOOLEAN, pw \in Passwords \cup {Wrong} :
                 Asked(r, c, tls, pw)
           \/ \E r \in Requests : WrongPassword(r) \/ RightPassword(r)
           \/ \E c \in Clients, tls \in BOOLEAN : Logout(c, tls)
    PROVE  TypeOK'
  <1>1. ASSUME NEW r \in Requests, NEW c \in Clients, NEW tls \in BOOLEAN,
               NEW pw \in Passwords \cup {Wrong}, Asked(r, c, tls, pw)
        PROVE  TypeOK'
    <2>1. [client |-> c, tls |-> tls, pw |-> pw] \in Login
      BY DEF Login
    <2> QED BY <1>1, <2>1 DEF Asked, AfterRefusal, TypeOK
  <1>2. ASSUME NEW r \in Requests, WrongPassword(r) PROVE TypeOK'
    <2>1. login[r].client \in Clients
      BY <1>2, LoginType DEF WrongPassword, Login
    <2> DEFINE c == login[r].client
    <2>2. failures' = [k \in Kept \cup {c} |-> IF k = c THEN Failed(c) ELSE failures[k]]
      BY <1>2 DEF WrongPassword
    <2>3. \A k \in Kept \cup {c} : (IF k = c THEN Failed(c) ELSE failures[k]) \in Entries
      BY <2>1, FailedIs DEF TypeOK
    <2>4. DOMAIN failures' = Kept \cup {c}
      BY <2>2
    <2>5. failures' \in [DOMAIN failures' -> Entries] /\ DOMAIN failures' \subseteq Clients
      BY <2>1, <2>2, <2>3, <2>4, FailedIs DEF TypeOK
    <2> QED BY <1>2, <2>5, LoginType DEF WrongPassword, TypeOK
  <1>3. ASSUME NEW r \in Requests, RightPassword(r) PROVE TypeOK'
    <2> DEFINE c == login[r].client
               cookie == [key |-> panel.secret, pw |-> panel.hash, left |-> SessionTTL, secure |-> login[r].tls]
    <2>1. c \in Clients /\ login[r].tls \in BOOLEAN
      BY <1>3, LoginType DEF RightPassword, Login
    <2>2. cookie \in Cookie
      BY <2>1, SessionAssumption DEF TypeOK, EnvFile, Passwords, Cookie
    <2>3. failures' = [k \in DOMAIN failures \ {c} |-> failures[k]]
      BY <1>3 DEF RightPassword
    <2>4. failures' \in [DOMAIN failures' -> Entries] /\ DOMAIN failures' \subseteq Clients
      BY <2>3 DEF TypeOK
    <2>5. jar' = jar \/ jar' = [jar EXCEPT ![c] = cookie]
      BY <1>3 DEF RightPassword
    <2>6. jar' \in [Clients -> Cookie \cup {None}]
      BY <2>1, <2>2, <2>5 DEF TypeOK
    <2> HIDE DEF c, cookie
    <2> QED BY <1>3, <2>4, <2>6, LoginType DEF RightPassword, TypeOK
  <1>4. ASSUME NEW c \in Clients, NEW tls \in BOOLEAN, Logout(c, tls) PROVE TypeOK'
    BY <1>4 DEF Logout, TypeOK
  <1> QED BY <1>1, <1>2, <1>3, <1>4

\* Time keeps the shape of what it touches.
LEMMA TickType == TypeOK /\ Tick => TypeOK'
  <1> SUFFICES ASSUME TypeOK, Tick PROVE TypeOK'
    OBVIOUS
  <1>1. failures' \in [DOMAIN failures -> Entries] /\ DOMAIN failures' = DOMAIN failures
    BY AgedIs DEF Tick, TypeOK
  <1>2. ASSUME NEW c \in Clients PROVE jar'[c] \in Cookie \cup {None}
    <2>1. jar'[c] = IF jar[c] = None \/ jar[c].left = 0 THEN None
                    ELSE [jar[c] EXCEPT !.left = jar[c].left - 1]
      BY DEF Tick
    <2>2. ASSUME jar[c] \in Cookie, jar[c].left # 0
          PROVE  [jar[c] EXCEPT !.left = jar[c].left - 1] \in Cookie
      BY <2>2, SessionAssumption DEF Cookie
    <2> QED BY <2>1, <2>2 DEF TypeOK
  <1>3. jar' \in [Clients -> Cookie \cup {None}]
    BY <1>2 DEF Tick
  <1> QED BY <1>1, <1>3 DEF Tick, TypeOK

\* Every step keeps the shape of every variable.
LEMMA TypeStep == TypeOK /\ SecretInv /\ [Next]_vars => TypeOK'
  <1> SUFFICES ASSUME TypeOK, SecretInv, [Next]_vars PROVE TypeOK'
    OBVIOUS
  <1>1. CASE UNCHANGED vars
    BY <1>1 DEF vars, TypeOK
  <1>2. CASE SslSwitched
    BY <1>2 DEF SslSwitched, TypeOK
  <1>3. CASE HashSet
    <2>1. env' \in EnvFile
      BY <1>3, LineIs, SessionAssumption DEF HashSet, TypeOK, EnvFile, Passwords
    <2> QED BY <1>3, <2>1 DEF HashSet, TypeOK
  <1>4. CASE SecretSet
    <2>1. env' \in EnvFile
      BY <1>4, LineIs, SessionAssumption DEF SecretSet, SecretInv, TypeOK, EnvFile, Passwords
    <2> QED BY <1>4, <2>1 DEF SecretSet, TypeOK
  <1>5. CASE ScriptDies
    <2>1. half' \in BOOLEAN
      BY <1>5 DEF ScriptDies, TypeOK
    <2> QED BY <1>5, <2>1 DEF ScriptDies, TypeOK
  <1>6. CASE PanelRestarts
    <2>1. failures' \in [DOMAIN failures' -> Entries] /\ DOMAIN failures' \subseteq Clients
      BY <1>6 DEF PanelRestarts, NoFailures
    <2> QED BY <1>6, <2>1 DEF PanelRestarts, TypeOK
  <1> QED BY <1>1, <1>2, <1>3, <1>4, <1>5, <1>6, LoginStepType, TickType DEF Next

-----------------------------------------------------------------------------
\* Passwords, secrets and sessions.

\* A cookie in a browser is one that the panel has just signed, or an older one.
LEMMA CookieFrom ==
    ASSUME TypeOK, [Next]_vars, NEW c \in Clients, jar'[c] # None
    PROVE  \/ jar[c] # None /\ jar'[c].key = jar[c].key /\ jar'[c].pw = jar[c].pw
           \/ /\ jar'[c].key = panel.secret /\ jar'[c].pw = panel.hash
              /\ UNCHANGED <<env, panel, chg, half>>
  <1>1. CASE UNCHANGED jar
    BY <1>1
  <1>2. CASE Tick
    <2>1. /\ jar[c] # None
          /\ jar'[c] = [jar[c] EXCEPT !.left = jar[c].left - 1]
      BY <1>2 DEF Tick
    <2>2. jar[c] \in Cookie
      BY <2>1 DEF TypeOK
    <2> QED BY <2>1, <2>2 DEF Cookie
  <1>3. ASSUME NEW r \in Requests, RightPassword(r)
        PROVE  \/ jar'[c] = jar[c]
               \/ /\ jar'[c].key = panel.secret /\ jar'[c].pw = panel.hash
                  /\ UNCHANGED <<env, panel, chg, half>>
    BY <1>3 DEF RightPassword, TypeOK
  <1>4. ASSUME NEW d \in Clients, NEW tls \in BOOLEAN, Logout(d, tls) PROVE jar'[c] = jar[c]
    BY <1>4 DEF Logout, TypeOK
  <1> QED BY <1>1, <1>2, <1>3, <1>4
          DEF Next, vars, Asked, WrongPassword, SslSwitched, HashSet, SecretSet, ScriptDies, PanelRestarts

\* A new secret is one that nobody has; until it is there the old one opens old sessions.
LEMMA SecretStep ==
    ASSUME TypeOK, SecretInv, PairInv, [Next]_vars
    PROVE  SecretInv' /\ PairInv'
  <1>1. /\ env.hash \in Nat /\ env.secret \in Nat /\ panel.hash \in Nat /\ panel.secret \in Nat
        /\ \A c \in Clients : jar[c] # None => jar[c].key \in Nat
    BY SessionAssumption DEF TypeOK, EnvFile, Passwords, Cookie
  <1>2. CASE UNCHANGED <<env, panel, chg, half>>
    BY <1>2, CookieFrom DEF SecretInv, PairInv
  <1>3. CASE HashSet
    <2>1. env'.secret = env.secret /\ chg' = "between" /\ UNCHANGED <<jar, panel, half>>
      BY <1>3, LineIs DEF HashSet, TypeOK
    <2> QED BY <1>3, <2>1 DEF HashSet, SecretInv, PairInv
  <1>4. CASE SecretSet
    <2>1. env'.secret = env.secret + 1 /\ chg' = "restart" /\ UNCHANGED <<jar, panel>>
      BY <1>4, LineIs DEF SecretSet, TypeOK
    <2>2. SecretInv'
      BY <1>1, <2>1 DEF SecretInv
    <2>3. panel'.secret # env'.secret /\ \A c \in Clients : jar'[c] # None => jar'[c].key # env'.secret
      BY <1>1, <2>1 DEF SecretInv
    <2> QED BY <2>2, <2>3 DEF PairInv
  <1>5. CASE ScriptDies
    BY <1>5 DEF ScriptDies, SecretInv, PairInv
  <1>6. CASE PanelRestarts
    <2>1. panel' = env' /\ UNCHANGED <<jar, env, half>> /\ (chg' = "between" <=> chg = "between")
      BY <1>6 DEF PanelRestarts
    <2> QED BY <1>1, <2>1 DEF SecretInv, PairInv
  <1> QED BY <1>2, <1>3, <1>4, <1>5, <1>6
          DEF Next, vars, Asked, WrongPassword, RightPassword, Logout, Tick, SslSwitched

\* A fresh panel, with nobody signed in, satisfies the invariant.
LEMMA InvInit == Init => IInv
  <1> SUFFICES ASSUME Init PROVE IInv
    OBVIOUS
  <1>1. failures \in [DOMAIN failures -> Entries] /\ DOMAIN failures \subseteq Clients
    BY DEF Init, NoFailures
  <1>2. env \in EnvFile /\ panel \in EnvFile
    BY SessionAssumption DEF Init, EnvFile, Passwords
  <1>3. TypeOK
    BY <1>1, <1>2 DEF Init, TypeOK
  <1> QED BY <1>3 DEF Init, IInv, SecretInv, PairInv

\* The inductive invariant: the shape of the throttle's entries, and which secret goes with
\* which password while the root script is at work, dead or done.
THEOREM AccessInvariance == Spec => []IInv
  <1>1. IInv /\ [Next]_vars => IInv'
    BY TypeStep, SecretStep DEF IInv
  <1> QED BY <1>1, InvInit, PTL DEF Spec

\* Every variable keeps its shape; what is left of a lockout and what has passed since the
\* failure that caused it are its whole length.
THEOREM AccessTypeCorrect == Spec => []TypeOK
  <1>1. IInv => TypeOK
    BY DEF IInv
  <1> QED BY <1>1, AccessInvariance, PTL

\* A panel that has read a completed password change accepts no session of the old password.
THEOREM SignedOutCorrect == Spec => []SignedOut
  <1>1. IInv => SignedOut
    BY DEF IInv, PairInv, SignedOut, Accepted
  <1> QED BY <1>1, AccessInvariance, PTL

-----------------------------------------------------------------------------
\* The lockout.

\* What the end of a lockout can be.
LEMMA LockoutStep ==
    ASSUME TypeOK, Next, NEW c \in Clients, Locked(c)
    PROVE  \/ Locked(c)'
           \/ Tick /\ failures[c].left = 1
           \/ \E r \in Requests : RightPassword(r) /\ login[r].client = c
           \/ PanelRestarts
  <1>1. c \in DOMAIN failures /\ failures[c] \in Entries /\ failures[c].count >= Limit
        /\ failures[c].left > 0
    BY DEF Locked, TypeOK
  <1>2. CASE UNCHANGED failures
    BY <1>1, <1>2 DEF Locked
  <1>3. ASSUME NEW r \in Requests, WrongPassword(r) PROVE Locked(c)'
    <2> DEFINE d == login[r].client
    <2>1. d \in Clients
      BY <1>3, LoginType DEF WrongPassword, Login
    <2>2. failures' = [k \in Kept \cup {d} |-> IF k = d THEN Failed(d) ELSE failures[k]]
      BY <1>3 DEF WrongPassword
    <2>3. c \in Kept /\ Failed(c).count >= Limit /\ Failed(c).left > 0
      BY FailedIs
    <2> HIDE DEF d
    <2>4. c \in DOMAIN failures' /\ failures'[c] \in {Failed(c), failures[c]}
      BY <2>2, <2>3
    <2> QED BY <1>1, <2>3, <2>4 DEF Locked
  <1>4. ASSUME NEW r \in Requests, RightPassword(r), login[r].client # c PROVE Locked(c)'
    <2>1. c \in DOMAIN failures' /\ failures'[c] = failures[c]
      BY <1>1, <1>4 DEF RightPassword
    <2> QED BY <1>1, <2>1 DEF Locked
  <1>5. CASE Tick /\ failures[c].left # 1
    <2>1. c \in DOMAIN failures' /\ failures'[c] = Aged(failures[c])
      BY <1>1, <1>5 DEF Tick
    <2>2. failures[c].left \in Nat
      BY <1>1, ThrottleAssumption DEF Entries, Attempts
    <2> QED BY <1>1, <1>5, <2>1, <2>2, AgedIs DEF Locked, Earlier
  <1> QED BY <1>2, <1>3, <1>4, <1>5
          DEF Next, Asked, AfterRefusal, Logout, SslSwitched, HashSet, SecretSet, ScriptDies

\* A lockout lasts its time, unless the locked address itself logs in or the panel restarts.
THEOREM LockoutKeptCorrect == Spec => LockoutKept
  <1>1. IInv /\ [Next]_vars =>
          [\A c \in Clients : Locked(c) =>
              \/ Locked(c)'
              \/ Tick /\ failures[c].left = 1
              \/ \E r \in Requests : RightPassword(r) /\ login[r].client = c
              \/ PanelRestarts]_vars
    BY LockoutStep DEF IInv
  <1> QED BY <1>1, AccessInvariance, PTL DEF Spec, LockoutKept
=============================================================================
