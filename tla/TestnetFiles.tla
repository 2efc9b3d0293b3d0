----------------------------- MODULE TestnetFiles -----------------------------
(***************************************************************************)
(* "testnet init-files" of the example binaries: initTestnetFiles,         *)
(* initGenFiles and collectGenFiles of cmd/wasmd/testnet.go, and of simd,  *)
(* which is the same without a single host.  The command may be run again  *)
(* in the same output directory, with other arguments, and may fail at     *)
(* every step; what the earlier runs left behind is read by the later.     *)
(* GenAppStateFromConfig of x/genutil is external.                         *)
(***************************************************************************)
EXTENDS Integers, FiniteSets, Functions

CONSTANTS
    MaxValidators,
    StartBytes,      \* last bytes of starting IP addresses
    SingleHosts,     \* values of --single-host: simd has no such flag
    MaxRuns, MaxFailures

ASSUME BoundsAssumption ==
    /\ MaxValidators \in Nat /\ MaxRuns \in Nat /\ MaxFailures \in Nat
    /\ StartBytes \subseteq 0..255
    /\ SingleHosts \subseteq BOOLEAN

VARIABLES
    run,        \* how often the command was started
    args,       \* initArgs of the present run
    phase,      \* what the run is doing
    i,          \* loop variable of the present phase
    accounts,   \* genAccounts and genBalances
    appState,   \* the canonical application state, NoState before there is one
    files,      \* the output directory
    failures    \* steps that failed

vars == <<run, args, phase, i, accounts, appState, files, failures>>

Nodes == 0..(MaxValidators - 1)
Args == [numValidators: 0..MaxValidators, singleMachine: SingleHosts,
         ip: {"starting", "external", "invalid"}, start: StartBytes]
NoArgs == [numValidators |-> 0, singleMachine |-> FALSE, ip |-> "starting", start |-> 0]

\* Every run makes new accounts, the keys of a node's validator are kept.
Accounts == Nodes \X (1..MaxRuns)
NoState == [accounts |-> {}, gentxs |-> {}]

Empty == [k \in {} |-> {}]
NoFiles == [dirs |-> {}, seeds |-> {}, gentxs |-> Empty, app |-> Empty, genesis |-> Empty, config |-> Empty]

Init ==
    /\ run = 0
    /\ args = NoArgs
    /\ phase = "idle"
    /\ i = 0
    /\ accounts = {}
    /\ appState = NoState
    /\ files = NoFiles
    /\ failures = 0

-----------------------------------------------------------------------------
(* Addresses and ports *)

\* Mutant: the same ports for all.
portOffsetNone(n, a) == 0

portOffset(n, a) == IF a.singleMachine THEN n ELSE 0

\* Mutant: the port of the peers is the one that collides with rpc ports.
p2pPortStartRPC(a) == 26656

p2pPortStart(a) == IF a.singleMachine THEN 16656 ELSE 26656

AppPorts(n, a) == {1317 + portOffset(n, a), 9090 + portOffset(n, a), 8090 + portOffset(n, a)}

Listen(n, a) == [rpc |-> 26657 + portOffset(n, a), p2p |-> p2pPortStart(a) + portOffset(n, a)]

\* Mutant: the address of another node is not derived from the first.
calculateIPShared(start, n) == start

\* The last byte of the address is incremented n times.
calculateIP(start, n) == (start + n) % 256

\* The external address is the same for all nodes.
getIP(n, a) == IF a.ip = "starting" THEN calculateIP(a.start, n) ELSE -1

Memo(n, a) == [node |-> n, host |-> getIP(n, a), port |-> p2pPortStart(a) + portOffset(n, a)]

-----------------------------------------------------------------------------
(* The command *)

Start ==
    /\ phase = "idle" /\ run < MaxRuns
    /\ run' = run + 1
    /\ args' \in Args
    /\ phase' = "prepare"
    /\ i' = 0 /\ accounts' = {} /\ appState' = NoState
    /\ UNCHANGED <<files, failures>>

With(f, n, content) == [k \in DOMAIN f \cup {n} |-> IF k = n THEN content ELSE f[k]]

Looping(ph) == phase = ph /\ i < args.numValidators

\* The directory, the address and the keys of the validator.
PrepareNode ==
    /\ Looping("prepare")
    /\ args.ip # "invalid"
    /\ files' = [files EXCEPT !.dirs = @ \cup {i}]
    /\ phase' = "key"
    /\ UNCHANGED <<run, args, i, accounts, appState, failures>>

\* The account, a new one even if the keyring has a key of that name.
SaveKey ==
    /\ phase = "key"
    /\ accounts' = accounts \cup {<<i, run>>}
    /\ phase' = "gentx"
    /\ UNCHANGED <<run, args, i, appState, files, failures>>

\* Mutant: a key of an earlier run is not overwritten and signs the gentx.
GentxOldKey == [account |-> <<i, 1>>, memo |-> Memo(i, args)]

Gentx == [account |-> <<i, run>>, memo |-> Memo(i, args)]

\* The seed words, the gentx and app.toml.
WriteNode ==
    /\ phase = "gentx"
    /\ files' = [files EXCEPT !.seeds = @ \cup {i},
                              !.gentxs = With(@, i, Gentx),
                              !.app = With(@, i, AppPorts(i, args))]
    /\ i' = i + 1
    /\ phase' = "prepare"
    /\ UNCHANGED <<run, args, accounts, appState, failures>>

StartGenesis ==
    /\ phase = "prepare" /\ i = args.numValidators
    /\ phase' = "genesis" /\ i' = 0
    /\ UNCHANGED <<run, args, accounts, appState, files, failures>>

\* initGenFiles: accounts and balances, no gentxs yet.
InitGenFile ==
    /\ Looping("genesis")
    /\ files' = [files EXCEPT !.genesis = With(@, i, [accounts |-> accounts, gentxs |-> {}])]
    /\ i' = i + 1
    /\ UNCHANGED <<run, args, phase, accounts, appState, failures>>

StartCollect ==
    /\ phase = "genesis" /\ i = args.numValidators
    /\ phase' = "collect" /\ i' = 0
    /\ UNCHANGED <<run, args, accounts, appState, files, failures>>

\* CollectTxs reads whatever is in the directory, and wants the balance of every
\* account.
Collectable == \A n \in DOMAIN files.gentxs : files.gentxs[n].account \in files.genesis[i].accounts

Peers == {files.gentxs[n].memo : n \in DOMAIN files.gentxs \ {i}}

\* Mutant: the test for nil is inverted.
CanonicalInverted(nodeAppState) == IF appState # NoState THEN nodeAppState ELSE appState

Canonical(nodeAppState) == IF appState = NoState THEN nodeAppState ELSE appState

\* collectGenFiles: the configuration is written on the way, and the genesis file
\* is overwritten with the canonical state.
CollectGenFile ==
    /\ Looping("collect")
    /\ Collectable
    /\ LET nodeAppState == [files.genesis[i] EXCEPT !.gentxs = Range(files.gentxs)] IN
       /\ appState' = Canonical(nodeAppState)
       /\ files' = [files EXCEPT
                       !.genesis = With(@, i, appState'),
                       !.config = With(@, i, [listen |-> Listen(i, args), peers |-> Peers])]
    /\ i' = i + 1
    /\ UNCHANGED <<run, args, phase, accounts, failures>>

Succeed ==
    /\ phase = "collect" /\ i = args.numValidators
    /\ phase' = "ok"
    /\ UNCHANGED <<run, args, i, accounts, appState, files, failures>>

\* Errors of the first steps remove the output directory, later ones leave it.
FailRemoving ==
    /\ \/ Looping("prepare") /\ args.ip = "invalid" /\ UNCHANGED failures
       \/ /\ Looping("prepare") \/ phase = "key"
          /\ failures < MaxFailures /\ failures' = failures + 1
    /\ files' = NoFiles
    /\ phase' = "failed"
    /\ UNCHANGED <<run, args, i, accounts, appState>>

\* What the failing step had to write may be there or not.
FailLeaving ==
    /\ phase \in {"key", "gentx"} \/ Looping("genesis") \/ Looping("collect")
    /\ failures < MaxFailures /\ failures' = failures + 1
    /\ \/ UNCHANGED files
       \/ phase = "gentx" /\ files' = [files EXCEPT !.seeds = @ \cup {i}]
       \/ phase = "gentx" /\ files' = [files EXCEPT !.seeds = @ \cup {i}, !.gentxs = With(@, i, Gentx)]
       \/ /\ phase = "collect" /\ Collectable
          /\ files' = [files EXCEPT !.config = With(@, i, [listen |-> Listen(i, args), peers |-> Peers])]
    /\ phase' = "failed"
    /\ UNCHANGED <<run, args, i, accounts, appState>>

\* A gentx of another run is in the way.
FailCollecting ==
    /\ Looping("collect")
    /\ ~Collectable
    /\ phase' = "failed"
    /\ UNCHANGED <<run, args, i, accounts, appState, files, failures>>

Again ==
    /\ phase \in {"ok", "failed"} /\ run < MaxRuns
    /\ phase' = "idle"
    /\ UNCHANGED <<run, args, i, accounts, appState, files, failures>>

Finished == phase \in {"ok", "failed"} /\ run = MaxRuns /\ UNCHANGED vars

\* The command of simd does the same, always without a single host.
initTestnetFiles ==
    \/ PrepareNode \/ SaveKey \/ WriteNode \/ StartGenesis \/ StartCollect \/ Succeed
    \/ FailRemoving \/ FailLeaving

Next ==
    \/ Start \/ initTestnetFiles \/ InitGenFile \/ CollectGenFile \/ FailCollecting
    \/ Again \/ Finished

Spec == Init /\ [][Next]_vars

-----------------------------------------------------------------------------
(* Properties *)

Memos == [node: Nodes, host: -1..255, port: Nat]
Gentxs == [account: Accounts, memo: Memos]
AppStates == [accounts: SUBSET Accounts, gentxs: SUBSET Gentxs]
Partial(f, T) == DOMAIN f \subseteq Nodes /\ \A n \in DOMAIN f : f[n] \in T

TypeOK ==
    /\ run \in 0..MaxRuns
    /\ args \in Args \cup {NoArgs}
    /\ phase \in {"idle", "prepare", "key", "gentx", "genesis", "collect", "ok", "failed"}
    /\ i \in 0..args.numValidators
    /\ accounts \in SUBSET Accounts
    /\ appState.accounts \subseteq Accounts /\ \A g \in appState.gentxs : g \in Gentxs
    /\ files.dirs \subseteq Nodes /\ files.seeds \subseteq files.dirs
    /\ Partial(files.gentxs, Gentxs) /\ DOMAIN files.gentxs \subseteq files.seeds
    /\ Partial(files.app, SUBSET Nat)
    /\ DOMAIN files.genesis \subseteq DOMAIN files.app
    /\ DOMAIN files.config \subseteq DOMAIN files.genesis
    /\ failures \in 0..MaxFailures

Validators == 0..(args.numValidators - 1)
Succeeded == phase = "ok"

\* testnet.go:485 "they should not differ": the nodes of a testnet start from
\* the same state, with the account and the gentx of every validator of this
\* run and of nobody else, whatever was in the directory before.
GenesesAgree ==
    Succeeded => \A n \in Validators :
        /\ files.genesis[n].accounts = {<<m, run>> : m \in Validators}
        /\ files.genesis[n].gentxs = {files.gentxs[m] : m \in Validators}

\* Every node knows the addresses of the others: one for each, with the port
\* that node listens on, and no two the same.
PeersConnect ==
    Succeeded => \A n \in Validators :
        LET peers == files.config[n].peers IN
        /\ {p.node : p \in peers} = Validators \ {n}
        /\ \A p \in peers : p.port = files.config[p.node].listen.p2p
        /\ args.singleMachine \/ args.ip = "starting" =>
            \A p, q \in peers : p # q => <<p.host, p.port>> # <<q.host, q.port>>

\* testnet.go:173 "Cluster runs on a single host machine with different ports":
\* no port is used twice, by one node or by two.
Sockets(n) == <<files.app[n], {files.config[n].listen.rpc}, {files.config[n].listen.p2p}>>

SingleHostPorts ==
    Succeeded /\ args.singleMachine =>
        \A m, n \in Validators : \A s, t \in 1..3 :
            <<m, s>> # <<n, t>> => Sockets(m)[s] \cap Sockets(n)[t] = {}

\* What a run finds in its way is of a run with more validators: the command can
\* always be repeated, after success or failure, with as many as before.
OnlyLargerRunsBlock ==
    Looping("collect") /\ ~Collectable => \E n \in DOMAIN files.gentxs : n >= args.numValidators
=============================================================================
