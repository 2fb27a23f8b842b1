--------------------------- MODULE RestartBudget ---------------------------
(* What an auto restart wave promises: it restarts only the locations it   *)
(* set out to restart, none of them more often than the schedule allows,   *)
(* none again once it is done with it, and one day it is done with all.    *)
EXTENDS Naturals

CONSTANTS
    Names,      \* the location names in play
    MaxTries    \* the most a schedule allows (maxMaxTries)

VARIABLES
    left,       \* the locations the wave is not done with
    tries,      \* how many restarts each of them gets
    spent       \* how many it has had

vars == <<left, tries, spent>>

Init ==
    /\ left = {}
    /\ tries \in 1 .. MaxTries
    /\ spent = [n \in Names |-> 0]

Start(S, k) ==
    /\ left = {}
    /\ left' = S /\ tries' = k
    /\ spent' = [n \in Names |-> 0]

Restart(n) ==
    /\ n \in left /\ spent[n] < tries
    /\ spent' = [spent EXCEPT ![n] = @ + 1]
    /\ UNCHANGED <<left, tries>>

\* One restart more, after which the wave is done with the location.
RestartLast(n) ==
    /\ n \in left /\ spent[n] < tries
    /\ spent' = [spent EXCEPT ![n] = @ + 1]
    /\ left' = left \ {n}
    /\ UNCHANGED tries

Finish(n) ==
    /\ n \in left
    /\ left' = left \ {n}
    /\ UNCHANGED <<tries, spent>>

Next ==
    \/ \E S \in SUBSET Names, k \in 1 .. MaxTries : Start(S, k)
    \/ \E n \in Names : Restart(n) \/ RestartLast(n) \/ Finish(n)

Spec == Init /\ [][Next]_vars

\* A wave comes to an end.
Ends == left # {} ~> left = {}
=============================================================================
