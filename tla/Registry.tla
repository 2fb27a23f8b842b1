------------------------------ MODULE Registry ------------------------------
(* The registry as everything beside its writers may see it: rows join it  *)
(* that clash with none, all rows of one name leave it, and nothing else   *)
(* ever happens to it.  Locations implements this; Xui takes the changes   *)
(* it reacts to from here.                                                 *)
EXTENDS Naturals, FiniteSets

CONSTANTS
    Names,      \* the location names in play
    Ports       \* SOCKS_PORT_RANGE

VARIABLE registry   \* tunnels.json

Row == [name : Names, port : Ports]

\* What tunnels.json may hold: no two rows share a name or a port.
Registries == {rows \in SUBSET Row :
                  \A a, b \in rows : a.name = b.name \/ a.port = b.port => a = b}

Init == registry \in Registries

\* A backup's locations are saved in one go.
Import ==
    /\ registry' \in Registries
    /\ registry \subseteq registry' /\ registry' # registry

\* handleAdd saves its one location.
Add == Import /\ Cardinality(registry' \ registry) = 1

\* The remove action saves the registry without a name, which need not be there.
Remove(n) == registry' = {e \in registry : e.name # n}

Next ==
    \/ Import
    \/ \E n \in Names : Remove(n)

Spec == Init /\ [][Next]_registry
=============================================================================
