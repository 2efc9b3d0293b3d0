-------------------------------- MODULE Upgrade --------------------------------
(***************************************************************************)
(* The upgrade that RegisterUpgradeHandlers of examples/wasmd/app and      *)
(* examples/simd/app prepares, over the restarts it takes: the binary from *)
(* before stops at the height of the plan and leaves upgrade info on disk, *)
(* the binary of this repository finds it at start, adds its new stores as *)
(* it loads the last version, and runs the migrations in the next block.   *)
(*                                                                         *)
(* One node is modelled, which its operator may stop at any moment and     *)
(* start with either binary and any heights to skip.  x/upgrade and the    *)
(* root store (external) are modelled as far as they take part; the plan   *)
(* always has the name of the handler, and migrations succeed (what they   *)
(* do when they fail is in BlockTracing).                                  *)
(***************************************************************************)
EXTENDS Naturals, FiniteSets

CONSTANTS
    MaxHeight,     \* of the chain
    MaxStops       \* of the node by its operator or a crash, and of starts not advised

ASSUME UpgradeAssumption == MaxHeight \in Nat /\ MaxStops \in Nat

VARIABLES
    db,        \* what was committed: version, stores, plan (its height or 0), and
               \* whether and how often the upgrade was applied
    info,      \* upgrade info on disk: a height, or 0
    node,      \* in memory: the binary, heights to skip, stores added while
               \* loading, whether DowngradeVerified
    block,     \* the state of the block in progress
    stops

vars == <<db, info, node, block, stops>>

Binaries == {"old", "new"}
StoresBefore == {"bank", "upgrade"}

\* Mutant: one of the new stores is forgotten.
AddedNotCrisis == {"consensus"}

\* The new stores, for the store loader.
Added == {"consensus", "crisis"}

\* The stores that the app mounts.
Mounted(binary) == StoresBefore \cup (IF binary = "new" THEN {"consensus", "crisis"} ELSE {})

Heights == 1..MaxHeight
States == [version: 0..MaxHeight, stores: SUBSET Mounted("new"), plan: 0..MaxHeight,
           done: BOOLEAN, migrations: Nat]
Nodes == [up: BOOLEAN, binary: Binaries, skip: SUBSET Heights, adding: SUBSET Mounted("new"),
          verified: BOOLEAN]
Stopped == [up |-> FALSE, binary |-> "old", skip |-> {}, adding |-> {}, verified |-> FALSE]
NoBlock == [version |-> 0, stores |-> {}, plan |-> 0, done |-> FALSE, migrations |-> 0]

Init ==
    /\ db = [version |-> 0, stores |-> StoresBefore, plan |-> 0, done |-> FALSE,
             migrations |-> 0]
    /\ info = 0
    /\ node = Stopped
    /\ block = NoBlock
    /\ stops = 0

-----------------------------------------------------------------------------
(* NewWasmApp *)

\* The handler is part of the new binary only.
HasHandler(binary) == binary = "new"

\* Mutant: heights to skip are not looked at.
StoreLoaderSetSkipped(binary, skip) == HasHandler(binary) /\ info # 0

\* The upgrade info is about this upgrade, which is not to be skipped.
StoreLoaderSet(binary, skip) == HasHandler(binary) /\ info # 0 /\ info \notin skip

\* UpgradeStoreLoader (external): only for the block of the upgrade itself.
UpgradeStoreLoader(binary, skip) ==
    IF StoreLoaderSet(binary, skip) /\ info = db.version + 1 THEN Added ELSE {}

\* Mutant: errors of loading are ignored.
LoadedAlways(binary, skip) == TRUE

\* LoadLatestVersion: stores without a committed version must have been added,
\* otherwise the process exits.
Loaded(binary, skip) ==
    Mounted(binary) \subseteq db.stores \cup UpgradeStoreLoader(binary, skip)

NewApp(binary, skip) ==
    /\ ~node.up
    /\ Loaded(binary, skip)
    /\ node' = [up |-> TRUE, binary |-> binary, skip |-> skip,
                adding |-> UpgradeStoreLoader(binary, skip), verified |-> FALSE]
    /\ UNCHANGED <<db, info, block>>

\* What operators are told: the old binary, until it says that an upgrade is needed.
Advised == IF db.done \/ info = db.version + 1 THEN "new" ELSE "old"

StartAdvised == NewApp(Advised, {}) /\ UNCHANGED stops

StartOther(binary, skip) ==
    /\ stops < MaxStops
    /\ stops' = stops + 1
    /\ NewApp(binary, skip)

Stop ==
    /\ node.up
    /\ stops < MaxStops
    /\ stops' = stops + 1
    /\ node' = Stopped
    /\ block' = NoBlock
    /\ UNCHANGED <<db, info>>

-----------------------------------------------------------------------------
(* A block *)

NextHeight == db.version + 1
ShouldExecute == db.plan # 0 /\ db.plan <= NextHeight
Skipped == NextHeight \in node.skip

\* Downgrade: the handler of an upgrade that was applied is missing.
WrongApp ==
    /\ ~node.verified /\ (~ShouldExecute \/ Skipped)
    /\ db.done /\ ~HasHandler(node.binary)

UpgradeNeeded == ShouldExecute /\ ~Skipped /\ ~HasHandler(node.binary)
UpdatedBeforeTrigger == db.plan # 0 /\ ~ShouldExecute /\ HasHandler(node.binary)

\* The begin blocker of x/upgrade, the first of all, panics and the node stops.
BeginBlockPanics ==
    /\ node.up /\ block = NoBlock /\ db.version < MaxHeight
    /\ WrongApp \/ UpgradeNeeded \/ UpdatedBeforeTrigger
    /\ info' = IF UpgradeNeeded /\ ~WrongApp THEN NextHeight ELSE info
    /\ node' = Stopped
    /\ UNCHANGED <<db, block, stops>>

\* The upgrade handler: parameters and modules are migrated.
UpgradeHandler(st) == [st EXCEPT !.migrations = @ + 1]

ApplyUpgrade(st) == [UpgradeHandler(st) EXCEPT !.plan = 0, !.done = TRUE]

BeginBlock ==
    /\ node.up /\ block = NoBlock /\ db.version < MaxHeight
    /\ ~(WrongApp \/ UpgradeNeeded \/ UpdatedBeforeTrigger)
    /\ LET st == [db EXCEPT !.version = NextHeight] IN
       block' = CASE ~ShouldExecute -> st
                  [] ShouldExecute /\ Skipped -> [st EXCEPT !.plan = 0]
                  [] OTHER -> ApplyUpgrade(st)
    /\ node' = [node EXCEPT !.verified = TRUE]
    /\ UNCHANGED <<db, info, stops>>

\* A proposal schedules or cancels the upgrade.
Schedule(h) ==
    /\ block # NoBlock
    /\ block.plan = 0 /\ ~block.done /\ h > block.version
    /\ block' = [block EXCEPT !.plan = h]
    /\ UNCHANGED <<db, info, node, stops>>

Cancel ==
    /\ block # NoBlock
    /\ block.plan # 0
    /\ block' = [block EXCEPT !.plan = 0]
    /\ UNCHANGED <<db, info, node, stops>>

\* With the state, stores that were added while loading are committed.
Commit ==
    /\ block # NoBlock
    /\ db' = [block EXCEPT !.stores = @ \cup node.adding]
    /\ node' = [node EXCEPT !.adding = {}]
    /\ block' = NoBlock
    /\ UNCHANGED <<info, stops>>

AtEnd == db.version = MaxHeight /\ UNCHANGED vars

Next ==
    \/ StartAdvised
    \/ \E binary \in Binaries, skip \in SUBSET Heights :
          Cardinality(skip) <= 1 /\ StartOther(binary, skip)
    \/ Stop
    \/ BeginBlock \/ BeginBlockPanics \/ Commit
    \/ \E h \in Heights : Schedule(h)
    \/ Cancel
    \/ AtEnd

\* Operators start the binary they are told to, and a node that runs makes blocks.
Fairness ==
    /\ WF_vars(StartAdvised)
    /\ WF_vars(BeginBlock \/ BeginBlockPanics)
    /\ WF_vars(Commit)

Spec == Init /\ [][Next]_vars /\ Fairness

-----------------------------------------------------------------------------
(* Properties *)

\* A node that runs has every store that its binary mounts.
TypeOK ==
    /\ db \in States
    /\ info \in 0..MaxHeight
    /\ node \in Nodes
    /\ node.up => Mounted(node.binary) \subseteq db.stores \cup node.adding
    /\ block = NoBlock \/ block \in States
    /\ stops \in 0..MaxStops

\* What is committed has the new stores exactly when it has gone through the
\* migrations that fill them, once, whatever was stopped, started and skipped in
\* between.
MigratedWithStores ==
    /\ db.done <=> Added \subseteq db.stores
    /\ db.done => db.migrations = 1
    /\ ~db.done => db.migrations = 0 /\ db.stores = StoresBefore

\* The chain goes on, through the upgrade or past it, if operators do as they are
\* told: the binary they are told to start finds its stores every time.
ChainGoesOn == <>(db.version = MaxHeight)
=============================================================================
