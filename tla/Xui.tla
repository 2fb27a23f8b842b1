-------------------------------- MODULE Xui --------------------------------
(***************************************************************************)
(* The 3x-ui integration: regionhop keeps one SOCKS outbound per location  *)
(* in the Xray config of a 3x-ui panel.  Every add and remove, the start   *)
(* of the panel, the settings form and the sync button run xuiSync, which  *)
(* reads 3x-ui's whole config, merges the outbounds and writes the config  *)
(* back, while the admin of 3x-ui edits it too.                            *)
(***************************************************************************)
EXTENDS Naturals, Sequences, FiniteSets

CONSTANTS
    Names,          \* the location names in play, and the tags made of them
    Ports,          \* the SOCKS ports in play
    Others,         \* tags of outbounds that are not regionhop's
    Threads,        \* goroutines that sync or serve the settings form
    Free,           \* xuiMu is not held
    Faults,         \* what may go wrong: a subset of FaultKinds
    MaxOutbounds    \* bound: outbounds in 3x-ui's config at the start

FaultKinds == {"reach", "read", "save", "crash"}

ASSUME XuiFaultsAssumption == Faults \subseteq FaultKinds
ASSUME XuiTagsAssumption == Names \cap Others = {} /\ 0 \notin Ports /\ Free \notin Threads
ASSUME XuiBoundAssumption == MaxOutbounds \in Nat /\ IsFiniteSet(Names)

VARIABLES
    reg,        \* the registry: a set of rows of name and port
    owes,       \* an xuiSyncAsync is still to be called, for a saved registry or at startup
    outbounds,  \* the outbounds in 3x-ui's config, the first of which is its default route
    set,        \* xui.json
    xmu,        \* the thread that holds xuiMu, or Free
    th,         \* the threads: program counter and local variables
    untold,     \* auxiliary: 3x-ui may differ and nobody was told
    edited      \* auxiliary: 3x-ui's admin has saved since a sync last read its config

vars == <<reg, owes, outbounds, set, xmu, th, untold, edited>>

\* The registry and how it changes are those of Registry, which Locations implements.
Reg == INSTANCE Registry WITH registry <- reg

Row == Reg!Row
Registries == Reg!Registries

\* An outbound: regionhop's has a location's tag and a loopback SOCKS port.
Outbound == [tag : Names, port : Ports] \cup [tag : Others, port : {0}]

\* The address and the token are left out: a wrong one is a refusal by 3x-ui.
XuiSettings == [enabled : BOOLEAN, error : BOOLEAN]

Idle == [pc |-> "idle", s |-> [enabled |-> FALSE, error |-> FALSE],
         want |-> {}, read |-> <<>>]

Ours(o) == o.tag \in Names

TagsOf(seq) == {seq[i].tag : i \in DOMAIN seq}

\* How many numbers of a finite set are i or less, and its k-th smallest number.
Rank(S, i) == Cardinality({j \in S : j <= i})
Nth(S, k) == CHOOSE i \in S : Rank(S, i) = k

\* The items of a sequence that are at some positions, in their order.
Picked(seq, S) == [k \in 1 .. Cardinality(S) |-> seq[Nth(S, k)]]

\* What 3x-ui's config may be when the panel starts: outbounds of locations that
\* are long gone, or twice there, but no two outbounds of others with one tag.
Init ==
    /\ reg \in Registries
    /\ owes = TRUE
    /\ \E k \in 0 .. MaxOutbounds : outbounds \in [1 .. k -> Outbound]
    /\ \A i, j \in DOMAIN outbounds :
          outbounds[i] = outbounds[j] /\ ~Ours(outbounds[i]) => i = j
    /\ set \in XuiSettings
    /\ xmu = Free
    /\ th = [t \in Threads |-> Idle]
    /\ untold = FALSE
    /\ edited = FALSE

-----------------------------------------------------------------------------
(* mergeOutbounds                                                          *)

\* The outbound that a location should have.
Outof(e) == [tag |-> e.name, port |-> e.port]

\* Others' outbounds are kept, ours when a location wants it and it is the first.
Keeps(seq, want, i) ==
    Ours(seq[i]) =>
        /\ \E e \in want : e.name = seq[i].tag
        /\ \A j \in 1 .. i - 1 : seq[j].tag # seq[i].tag

\* The same outbound as it should be.
Righted(o, want) ==
    IF \E e \in want : e.name = o.tag
    THEN Outof(CHOOSE e \in want : e.name = o.tag) ELSE o

KeptAt(seq, want) == {i \in DOMAIN seq : Keeps(seq, want, i)}

Kept(seq, want) ==
    LET kept == Picked(seq, KeptAt(seq, want))
    IN  [k \in DOMAIN kept |-> Righted(kept[k], want)]

MutantAppendAll(seq, want) == {Outof(e) : e \in want}

\* The outbounds of the locations that have none.
Missing(seq, want) == {Outof(e) : e \in {e \in want : e.name \notin TagsOf(seq)}}

\* The sequences that hold each element of a finite set once.
Orders(S) ==
    {m \in [1 .. Cardinality(S) -> S] : \A i, j \in 1 .. Cardinality(S) : m[i] = m[j] => i = j}

MutantInsertFirst(seq, want) == {m \o Kept(seq, want) : m \in Orders(Missing(seq, want))}

\* The merged outbounds: the missing ones come last, in the order of a map.
Merged(seq, want) == {Kept(seq, want) \o m : m \in Orders(Missing(seq, want))}

Changed(seq, want) == Kept(seq, want) # seq \/ Missing(seq, want) # {}

-----------------------------------------------------------------------------
(* Where syncs come from.                                                  *)

\* handleAdd or the remove action has saved the registry, under a.mu.
RegistrySaved ==
    /\ ~owes
    /\ Reg!Add \/ \E n \in Names : Reg!Remove(n)
    /\ reg' # reg
    /\ owes' = TRUE
    /\ UNCHANGED <<outbounds, set, xmu, th, untold, edited>>

\* handleBackupImport has saved the registry: nothing syncs.
Imported ==
    /\ ~owes
    /\ Reg!Import
    /\ untold' = TRUE
    /\ UNCHANGED <<owes, outbounds, set, xmu, th, edited>>

\* xuiSyncAsync.
SyncAsync(t) ==
    /\ owes /\ th[t].pc = "idle"
    /\ owes' = FALSE
    /\ th' = [th EXCEPT ![t].pc = "wait"]
    /\ UNCHANGED <<reg, outbounds, set, xmu, untold, edited>>

\* handleXUISync.
SyncButton(t) ==
    /\ th[t].pc = "idle"
    /\ th' = [th EXCEPT ![t].pc = "wait"]
    /\ UNCHANGED <<reg, owes, outbounds, set, xmu, untold, edited>>

\* handleXUI: the form on top of the settings as they are, read without xuiMu.
FormLoad(t, on) ==
    /\ th[t].pc = "idle"
    /\ th' = [th EXCEPT ![t].pc = "save", ![t].s = [set EXCEPT !.enabled = on]]
    /\ UNCHANGED <<reg, owes, outbounds, set, xmu, untold, edited>>

\* Lock, save, unlock, and sync when it is on.
FormSave(t) ==
    /\ th[t].pc = "save" /\ xmu = Free
    /\ \/ /\ set' = th[t].s
          /\ th' = [th EXCEPT ![t] = IF th[t].s.enabled THEN [Idle EXCEPT !.pc = "wait"] ELSE Idle]
       \/ "save" \in Faults /\ UNCHANGED set /\ th' = [th EXCEPT ![t] = Idle]
    /\ UNCHANGED <<reg, owes, outbounds, xmu, untold, edited>>

-----------------------------------------------------------------------------
(* xuiSync and xuiApply                                                    *)

MutantAcquireUnlocked(t) == xmu' = t

\* xuiMu.Lock()
Acquire(t) == xmu = Free /\ xmu' = t

\* Lock, load the settings, read the registry next; nothing to do while it is off.
SyncBegin(t) ==
    /\ th[t].pc = "wait"
    /\ IF set.enabled
       THEN /\ Acquire(t)
            /\ th' = [th EXCEPT ![t].pc = "list", ![t].s = [set EXCEPT !.error = FALSE]]
       ELSE xmu = Free /\ UNCHANGED xmu /\ th' = [th EXCEPT ![t] = Idle]
    /\ UNCHANGED <<reg, owes, outbounds, set, untold, edited>>

\* The settings to save once xuiApply has returned, without and with an error.
Done(t) == [Idle EXCEPT !.pc = "record", !.s = th[t].s]
Failed(t) == [Done(t) EXCEPT !.s.error = TRUE]

SyncList(t) ==
    /\ th[t].pc = "list"
    /\ \/ /\ th' = [th EXCEPT ![t].pc = "get", ![t].want = reg]
          /\ untold' = FALSE
       \/ "read" \in Faults /\ th' = [th EXCEPT ![t] = Failed(t)] /\ UNCHANGED untold
    /\ UNCHANGED <<reg, owes, outbounds, set, xmu, edited>>

\* xuiGetConfig; a config that is as it should be is not written.
SyncGet(t) ==
    /\ th[t].pc = "get"
    /\ \/ /\ th' = [th EXCEPT ![t] = IF Changed(outbounds, @.want)
                                     THEN [@ EXCEPT !.pc = "post", !.read = outbounds]
                                     ELSE Done(t)]
          /\ edited' = FALSE
       \/ "reach" \in Faults /\ th' = [th EXCEPT ![t] = Failed(t)] /\ UNCHANGED edited
    /\ UNCHANGED <<reg, owes, outbounds, set, xmu, untold>>

\* The whole config goes back.  An error may come after it was taken.
SyncPost(t) ==
    /\ th[t].pc = "post"
    /\ \/ /\ outbounds' \in Merged(th[t].read, th[t].want)
          /\ \/ th' = [th EXCEPT ![t] = Done(t)]
             \/ "reach" \in Faults /\ th' = [th EXCEPT ![t] = Failed(t)]
       \/ "reach" \in Faults /\ th' = [th EXCEPT ![t] = Failed(t)] /\ UNCHANGED outbounds
    /\ UNCHANGED <<reg, owes, set, xmu, untold, edited>>

\* The result is saved, if it can be, and xuiMu unlocked.
SyncRecord(t) ==
    /\ th[t].pc = "record"
    /\ \/ set' = th[t].s /\ UNCHANGED untold
       \/ "save" \in Faults /\ UNCHANGED set /\ untold' = TRUE
    /\ xmu' = Free
    /\ th' = [th EXCEPT ![t] = Idle]
    /\ UNCHANGED <<reg, owes, outbounds, edited>>

-----------------------------------------------------------------------------
\* 3x-ui's own admin adds an outbound, anywhere in the list, or deletes one, at
\* any time: xuiMu is regionhop's, and 3x-ui has no lock to offer.
OthersAdded(o, i) ==
    /\ o \notin TagsOf(outbounds) /\ Len(outbounds) < MaxOutbounds
    /\ outbounds' = SubSeq(outbounds, 1, i) \o <<[tag |-> o, port |-> 0]>>
                        \o SubSeq(outbounds, i + 1, Len(outbounds))
    /\ edited' = TRUE
    /\ UNCHANGED <<reg, owes, set, xmu, th, untold>>

OthersDropped(o) ==
    /\ o \in TagsOf(outbounds)
    /\ outbounds' = Picked(outbounds, {i \in DOMAIN outbounds : outbounds[i].tag # o})
    /\ edited' = TRUE
    /\ UNCHANGED <<reg, owes, set, xmu, th, untold>>

\* The panel dies and starts again: main syncs.
PanelRestarts ==
    /\ "crash" \in Faults
    /\ xmu' = Free /\ th' = [t \in Threads |-> Idle]
    /\ owes' = TRUE
    /\ UNCHANGED <<reg, outbounds, set, untold, edited>>

-----------------------------------------------------------------------------
SyncStep(t) == SyncList(t) \/ SyncGet(t) \/ SyncPost(t) \/ SyncRecord(t)

Next ==
    \/ RegistrySaved \/ Imported
    \/ \E t \in Threads :
          \/ SyncAsync(t) \/ SyncButton(t) \/ FormSave(t) \/ SyncBegin(t) \/ SyncStep(t)
          \/ \E on \in BOOLEAN : FormLoad(t, on)
    \/ \E o \in Others : OthersDropped(o) \/ \E i \in 0 .. Len(outbounds) : OthersAdded(o, i)
    \/ PanelRestarts

Spec == Init /\ [][Next]_vars

-----------------------------------------------------------------------------
(* Properties.                                                             *)

\* The most outbounds there can be: syncs add one for each location at most.
MostOutbounds == MaxOutbounds + Cardinality(Names)

\* The shape of every variable; 3x-ui's config does not grow from sync to sync.
TypeOK ==
    /\ reg \in Registries
    /\ owes \in BOOLEAN
    /\ outbounds \in Seq(Outbound) /\ Len(outbounds) <= MostOutbounds
    /\ set \in XuiSettings
    /\ xmu \in Threads \cup {Free}
    /\ th \in [Threads -> [pc : {"idle", "save", "wait", "list", "get", "post", "record"},
                           s : XuiSettings, want : Registries, read : Seq(Outbound)]]
    /\ untold \in BOOLEAN /\ edited \in BOOLEAN

\* Exactly one outbound for each location that wants one, with its port, and no other of ours.
SyncedTo(seq, want) ==
    /\ \A i \in DOMAIN seq : Ours(seq[i]) => \E e \in want : seq[i] = Outof(e)
    /\ \A e \in want : Cardinality({i \in DOMAIN seq : seq[i].tag = e.name}) = 1

InSync == SyncedTo(outbounds, reg)

\* No sync is under way or to come.
Quiet == ~owes /\ \A t \in Threads : th[t].pc \in {"idle", "save"}

\* When all is quiet and the last sync reported no error, 3x-ui has exactly the
\* outbounds of the current locations, in whatever order syncs, forms, registry
\* changes, failures and panel restarts came (xuiSync reads the registry under
\* xuiMu, after the change that called it).
SyncedOrSaid == Quiet /\ set.enabled /\ ~set.error /\ ~untold => InSync

\* Where the outbounds of others are, and these.
OthersAt(seq) == {i \in DOMAIN seq : ~Ours(seq[i])}
OthersOf(seq) == Picked(seq, OthersAt(seq))

\* "Only outbounds with that tag prefix are ever touched", and none is "inserted
\* first, since the first outbound is Xray's default route" (xui.go): the outbounds of
\* others survive a sync.  Where their admin saved between the sync's read and its
\* write, that edit is lost, but no more than that: they are what the sync read.
OthersUntouched ==
    [][\A t \in Threads : SyncPost(t) =>
          \/ UNCHANGED outbounds
          \/ LET before == IF edited THEN th[t].read ELSE outbounds
             IN  /\ OthersOf(outbounds') = OthersOf(before)
                 /\ before # <<>> /\ ~Ours(before[1]) => outbounds'[1] = before[1]]_vars

-----------------------------------------------------------------------------
(* The inductive invariant behind these properties (Xui_proof).            *)

\* One thread at a time is in xuiApply, or about to save what came of it.
MutexInv == \A t \in Threads : th[t].pc \in {"list", "get", "post", "record"} <=> xmu = t

\* Syncs add none to the outbounds of others.
BoundInv ==
    /\ Cardinality(OthersAt(outbounds)) <= MaxOutbounds
    /\ \A t \in Threads : Cardinality(OthersAt(th[t].read)) <= MaxOutbounds

\* A sync is still to read the registry, or nobody was told of a difference.
Owed == owes \/ \E t \in Threads : th[t].pc = "wait"
Behind == Owed \/ untold

\* What a sync that is under way knows: the registry as it is, until it posts that, and then
\* 3x-ui is in step; unless another sync is to come.
SyncInv ==
    /\ xmu = Free /\ set.enabled /\ ~set.error => Behind \/ InSync
    /\ \A t \in Threads :
          /\ th[t].pc \in {"get", "post"} => Behind \/ th[t].want = reg
          /\ th[t].pc = "record" /\ ~th[t].s.error => Behind \/ InSync

\* What a sync is about to merge into is what 3x-ui has, unless somebody saved in between.
ReadInv == \A t \in Threads : th[t].pc = "post" => edited \/ th[t].read = outbounds

IInv == TypeOK /\ MutexInv /\ BoundInv /\ SyncInv /\ ReadInv
=============================================================================
