--------------------------- MODULE TestnetFilesProofs ---------------------------
(***************************************************************************)
(* What a run of init-files that succeeds has written, whatever runs were  *)
(* before it in the same directory, whichever of their steps failed, and   *)
(* for every number of validators for which the addresses and the ports    *)
(* suffice.                                                                *)
(***************************************************************************)
EXTENDS TestnetFiles, TLAPS

-----------------------------------------------------------------------------
(* The inductive invariant *)

\* The first nodes of the run.
Before(n) == 0..(n - 1)

NewAccounts(n) == {<<m, run>> : m \in Before(n)}

\* The gentxs and app.toml files of the first nodes are those of this run.
Written(n) ==
    \A m \in Before(n) :
        /\ m \in DOMAIN files.gentxs
        /\ files.gentxs[m] = [account |-> <<m, run>>, memo |-> Memo(m, args)]
        /\ m \in DOMAIN files.app /\ files.app[m] = AppPorts(m, args)

\* A genesis file without gentxs, as initGenFiles writes it, and the one that
\* collectGenFiles makes of it.
FirstState == [accounts |-> NewAccounts(args.numValidators), gentxs |-> {}]

LastState == [accounts |-> NewAccounts(args.numValidators),
              gentxs |-> {files.gentxs[m] : m \in Validators}]

HasGenesis(n, state) == n \in DOMAIN files.genesis /\ files.genesis[n] = state

\* The first nodes have their configuration and the canonical state; nothing
\* but the gentxs of this run was in their way.
Collected(n) ==
    /\ n # 0 => appState = LastState /\ DOMAIN files.gentxs = Validators
    /\ \A m \in Before(n) :
          /\ HasGenesis(m, LastState)
          /\ m \in DOMAIN files.config
          /\ files.config[m] = [listen |-> Listen(m, args),
                                peers |-> {files.gentxs[k].memo : k \in Validators \ {m}}]

FilesShape ==
    files = [dirs |-> files.dirs, seeds |-> files.seeds, gentxs |-> files.gentxs,
             app |-> files.app, genesis |-> files.genesis, config |-> files.config]

\* A gentx is signed by the account of its node, in this run or an earlier one.
OwnGentxs ==
    \A n \in DOMAIN files.gentxs :
        n \in Nodes /\ \E r \in Nat : files.gentxs[n].account = <<n, r>>

FilesTypes ==
    /\ run \in Nat /\ args \in Args \cup {NoArgs}
    /\ phase \in {"idle", "prepare", "key", "gentx", "genesis", "collect", "ok", "failed"}
    /\ i \in 0..args.numValidators
    /\ FilesShape /\ OwnGentxs

Prepared ==
    phase \in {"prepare", "key", "gentx"} =>
        /\ Written(i) /\ appState = NoState
        /\ accounts = NewAccounts(IF phase = "gentx" THEN i + 1 ELSE i)
        /\ phase # "prepare" => i < args.numValidators

AllWritten ==
    phase \in {"genesis", "collect", "ok"} =>
        Written(args.numValidators) /\ accounts = NewAccounts(args.numValidators)

GenesisWritten ==
    phase = "genesis" =>
        appState = NoState /\ \A m \in Before(i) : HasGenesis(m, FirstState)

Collecting ==
    /\ phase = "collect" =>
        /\ i = 0 => appState = NoState
        /\ Collected(i)
        /\ \A m \in i..(args.numValidators - 1) : HasGenesis(m, FirstState)
    /\ phase = "ok" => Collected(args.numValidators)

FilesInv == FilesTypes /\ Prepared /\ AllWritten /\ GenesisWritten /\ Collecting

-----------------------------------------------------------------------------
(* The steps *)

LEMMA ArgsFacts ==
    ASSUME FilesTypes
    PROVE  /\ args.numValidators \in Nat /\ args.numValidators <= MaxValidators
           /\ args.start \in 0..255 /\ args.singleMachine \in BOOLEAN
           /\ i \in Nat /\ i <= args.numValidators /\ MaxValidators \in Nat
           /\ \A m \in 0..(args.numValidators - 1) : m \in Nodes
<1>1. /\ args.numValidators \in 0..MaxValidators /\ args.start \in 0..255
      /\ args.singleMachine \in BOOLEAN /\ MaxValidators \in Nat
  <2>1. \A a \in Args : /\ a.numValidators \in 0..MaxValidators /\ a.start \in 0..255
                         /\ a.singleMachine \in BOOLEAN
    BY BoundsAssumption DEF Args
  <2>2. /\ NoArgs.numValidators = 0 /\ NoArgs.start = 0 /\ NoArgs.singleMachine \in BOOLEAN
        /\ 0 \in 0..MaxValidators /\ 0 \in 0..255 /\ MaxValidators \in Nat
    BY BoundsAssumption DEF NoArgs
  <2>3. args \in Args \/ args = NoArgs
    BY DEF FilesTypes
  <2>4. QED  BY <2>1, <2>2, <2>3
<1>2. QED  BY <1>1 DEF FilesTypes, Nodes

LEMMA WithIs ==
    ASSUME NEW f, NEW n, NEW content
    PROVE  /\ DOMAIN With(f, n, content) = DOMAIN f \cup {n}
           /\ With(f, n, content)[n] = content
           /\ \A k \in DOMAIN f : k # n => With(f, n, content)[k] = f[k]
  BY DEF With

\* What is not written to the directory stays.
LEMMA DirsWritten ==
    ASSUME FilesShape, NEW d,
           files' = [files EXCEPT !.dirs = d]
    PROVE  /\ FilesShape'
           /\ files'.gentxs = files.gentxs
           /\ files'.app = files.app
           /\ files'.genesis = files.genesis
           /\ files'.config = files.config
  BY DEF FilesShape

LEMMA SeedsWritten ==
    ASSUME FilesShape, NEW s,
           files' = [files EXCEPT !.seeds = s]
    PROVE  /\ FilesShape'
           /\ files'.gentxs = files.gentxs
           /\ files'.app = files.app
           /\ files'.genesis = files.genesis
           /\ files'.config = files.config
  BY DEF FilesShape

LEMMA GentxWritten ==
    ASSUME FilesShape, NEW s, NEW g,
           files' = [files EXCEPT !.seeds = s, !.gentxs = g]
    PROVE  /\ FilesShape'
           /\ files'.gentxs = g
           /\ files'.app = files.app
           /\ files'.genesis = files.genesis
           /\ files'.config = files.config
  BY DEF FilesShape

LEMMA NodeWritten ==
    ASSUME FilesShape, NEW s, NEW g, NEW a,
           files' = [files EXCEPT !.seeds = s, !.gentxs = g, !.app = a]
    PROVE  /\ FilesShape'
           /\ files'.gentxs = g
           /\ files'.app = a
           /\ files'.genesis = files.genesis
           /\ files'.config = files.config
  BY DEF FilesShape

LEMMA GenesisOnly ==
    ASSUME FilesShape, NEW h,
           files' = [files EXCEPT !.genesis = h]
    PROVE  /\ FilesShape'
           /\ files'.gentxs = files.gentxs
           /\ files'.app = files.app
           /\ files'.genesis = h
           /\ files'.config = files.config
  BY DEF FilesShape

LEMMA ConfigOnly ==
    ASSUME FilesShape, NEW c,
           files' = [files EXCEPT !.config = c]
    PROVE  /\ FilesShape'
           /\ files'.gentxs = files.gentxs
           /\ files'.app = files.app
           /\ files'.genesis = files.genesis
           /\ files'.config = c
  BY DEF FilesShape

LEMMA NodeCollected ==
    ASSUME FilesShape, NEW h, NEW c,
           files' = [files EXCEPT !.genesis = h, !.config = c]
    PROVE  /\ FilesShape'
           /\ files'.gentxs = files.gentxs
           /\ files'.app = files.app
           /\ files'.genesis = h
           /\ files'.config = c
  BY DEF FilesShape

LEMMA InitFilesInv == Init => FilesInv
<1> SUFFICES ASSUME Init PROVE FilesInv
  OBVIOUS
<1>1. FilesTypes
  <2>1. NoArgs.numValidators = 0 /\ DOMAIN NoFiles.gentxs = {}
    BY DEF NoArgs, NoFiles, Empty
  <2>2. FilesShape
    BY DEF Init, FilesShape, NoFiles
  <2>3. QED  BY <2>1, <2>2 DEF Init, FilesTypes, OwnGentxs
<1>2. QED
  BY <1>1 DEF Init, FilesInv, Prepared, AllWritten, GenesisWritten, Collecting

\* The phases in which nothing is known but the shape of what is there.
LEMMA StoppedInv ==
    ASSUME FilesTypes', phase' \in {"idle", "failed"}
    PROVE  FilesInv'
  BY DEF FilesInv, Prepared, AllWritten, GenesisWritten, Collecting

\* Steps that leave the directory alone.
LEMMA TypesStay ==
    ASSUME FilesTypes, UNCHANGED <<run, args, files>>,
           phase' \in {"idle", "prepare", "key", "gentx", "genesis", "collect", "ok", "failed"},
           i' \in 0..args.numValidators
    PROVE  FilesTypes'
  BY DEF FilesTypes, FilesShape, OwnGentxs

LEMMA WrittenStays ==
    ASSUME NEW n \in Nat, Written(n), UNCHANGED <<run, args>>,
           \A m \in Before(n) :
              /\ m \in DOMAIN files'.gentxs /\ files'.gentxs[m] = files.gentxs[m]
              /\ m \in DOMAIN files'.app /\ files'.app[m] = files.app[m]
    PROVE  Written(n)'
  BY DEF Written, Memo, getIP, portOffset, p2pPortStart, AppPorts

LEMMA StartInv ==
    ASSUME FilesInv, Start
    PROVE  FilesInv'
<1>1. /\ run' = run + 1 /\ args' \in Args /\ phase' = "prepare" /\ i' = 0
      /\ accounts' = {} /\ appState' = NoState /\ files' = files
  BY DEF Start
<1>2. args'.numValidators \in Nat
  BY <1>1, BoundsAssumption DEF Args
<1>3. FilesTypes'
  BY <1>1, <1>2 DEF FilesInv, FilesTypes, FilesShape, OwnGentxs
<1>4. Before(0) = {}
  BY DEF Before
<1>5. Prepared'
  BY <1>1, <1>4 DEF Prepared, Written, NewAccounts
<1>6. QED
  BY <1>1, <1>3, <1>5 DEF FilesInv, AllWritten, GenesisWritten, Collecting

LEMMA PrepareNodeInv ==
    ASSUME FilesInv, PrepareNode
    PROVE  FilesInv'
<1>1. /\ phase = "prepare" /\ i < args.numValidators /\ phase' = "key"
      /\ UNCHANGED <<run, args, i, accounts, appState>>
      /\ files' = [files EXCEPT !.dirs = @ \cup {i}]
  BY DEF PrepareNode, Looping
<1>2. /\ FilesShape' /\ files'.gentxs = files.gentxs /\ files'.app = files.app
      /\ FilesTypes /\ i \in Nat
  <2>1. FilesTypes /\ FilesShape /\ i \in Nat
    BY ArgsFacts DEF FilesInv, FilesTypes
  <2>2. QED  BY <1>1, <2>1, DirsWritten
<1>3. FilesTypes'
  BY <1>1, <1>2 DEF FilesTypes, OwnGentxs
<1>4. Written(i) /\ accounts = NewAccounts(i) /\ appState = NoState
  BY <1>1 DEF FilesInv, Prepared
<1>5. Written(i)'
  BY <1>1, <1>2, <1>4 DEF Written, Memo, getIP, portOffset, p2pPortStart, AppPorts
<1>6. Prepared'
  BY <1>1, <1>4, <1>5 DEF Prepared, NewAccounts
<1>7. QED
  BY <1>1, <1>3, <1>6 DEF FilesInv, AllWritten, GenesisWritten, Collecting

LEMMA SaveKeyInv ==
    ASSUME FilesInv, SaveKey
    PROVE  FilesInv'
<1>1. /\ phase = "key" /\ phase' = "gentx" /\ accounts' = accounts \cup {<<i, run>>}
      /\ UNCHANGED <<run, args, i, appState, files>>
  BY DEF SaveKey
<1>2. FilesTypes' /\ i \in Nat
  BY <1>1, ArgsFacts, TypesStay DEF FilesInv, FilesTypes
<1>3. Written(i) /\ accounts = NewAccounts(i) /\ appState = NoState /\ i < args.numValidators
  BY <1>1 DEF FilesInv, Prepared
<1>4. Written(i)'
  BY <1>1, <1>3 DEF Written, Memo, getIP, portOffset, p2pPortStart, AppPorts
<1>5. accounts' = NewAccounts(i + 1)
  <2>1. Before(i + 1) = Before(i) \cup {i}
    BY <1>2 DEF Before
  <2>2. QED  BY <1>1, <1>3, <2>1 DEF NewAccounts
<1>6. Prepared'
  BY <1>1, <1>3, <1>4, <1>5 DEF Prepared, NewAccounts
<1>7. QED
  BY <1>1, <1>2, <1>6 DEF FilesInv, AllWritten, GenesisWritten, Collecting

LEMMA WriteNodeInv ==
    ASSUME FilesInv, WriteNode
    PROVE  FilesInv'
<1>1. /\ phase = "gentx" /\ phase' = "prepare" /\ i' = i + 1
      /\ UNCHANGED <<run, args, accounts, appState>>
      /\ files' = [files EXCEPT !.seeds = @ \cup {i}, !.gentxs = With(@, i, Gentx),
                                !.app = With(@, i, AppPorts(i, args))]
  BY DEF WriteNode
<1>2. /\ FilesTypes /\ FilesShape /\ i \in Nat /\ args.numValidators \in Nat /\ run \in Nat
      /\ i < args.numValidators /\ Written(i)
      /\ accounts = NewAccounts(i + 1) /\ appState = NoState
  BY <1>1, ArgsFacts DEF FilesInv, FilesTypes, Prepared
<1>3. /\ FilesShape' /\ files'.gentxs = With(files.gentxs, i, Gentx)
      /\ files'.app = With(files.app, i, AppPorts(i, args))
  BY <1>1, <1>2, NodeWritten
<1>4. /\ DOMAIN files'.gentxs = DOMAIN files.gentxs \cup {i} /\ files'.gentxs[i] = Gentx
      /\ \A k \in DOMAIN files.gentxs : k # i => files'.gentxs[k] = files.gentxs[k]
      /\ DOMAIN files'.app = DOMAIN files.app \cup {i} /\ files'.app[i] = AppPorts(i, args)
      /\ \A k \in DOMAIN files.app : k # i => files'.app[k] = files.app[k]
  <2>1. /\ DOMAIN With(files.gentxs, i, Gentx) = DOMAIN files.gentxs \cup {i}
        /\ With(files.gentxs, i, Gentx)[i] = Gentx
        /\ \A k \in DOMAIN files.gentxs : k # i =>
              With(files.gentxs, i, Gentx)[k] = files.gentxs[k]
    BY DEF With
  <2>2. /\ DOMAIN With(files.app, i, AppPorts(i, args)) = DOMAIN files.app \cup {i}
        /\ With(files.app, i, AppPorts(i, args))[i] = AppPorts(i, args)
        /\ \A k \in DOMAIN files.app : k # i =>
              With(files.app, i, AppPorts(i, args))[k] = files.app[k]
    BY DEF With
  <2>3. QED  BY <1>3, <2>1, <2>2
<1>5. OwnGentxs'
  <2>1. i \in Nodes
    BY <1>2, ArgsFacts
  <2>2. Gentx.account = <<i, run>>
    BY DEF Gentx
  <2>3. QED  BY <1>2, <1>4, <2>1, <2>2 DEF FilesTypes, OwnGentxs
<1>6. FilesTypes'
  BY <1>1, <1>2, <1>3, <1>5 DEF FilesTypes
<1>7. Written(i)'
  <2>1. \A m \in Before(i + 1) : m = i \/ (m \in Before(i) /\ m # i)
    BY <1>2 DEF Before
  <2>2. Gentx = [account |-> <<i, run>>, memo |-> Memo(i, args)]
    BY DEF Gentx
  <2>3. ASSUME NEW m \in Before(i + 1)
        PROVE  /\ m \in DOMAIN files'.gentxs
               /\ files'.gentxs[m] = [account |-> <<m, run>>, memo |-> Memo(m, args)]
               /\ m \in DOMAIN files'.app /\ files'.app[m] = AppPorts(m, args)
    <3>1. CASE m = i
      BY <1>4, <2>2, <3>1
    <3>2. CASE m \in Before(i) /\ m # i
      BY <1>2, <1>4, <3>2 DEF Written
    <3>3. QED  BY <2>1, <3>1, <3>2
  <2>4. \A m \in Before(i') :
           /\ m \in DOMAIN files'.gentxs
           /\ files'.gentxs[m] = [account |-> <<m, run'>>, memo |-> Memo(m, args')]
           /\ m \in DOMAIN files'.app /\ files'.app[m] = AppPorts(m, args')
    BY <1>1, <2>3
  <2>5. QED  BY <2>4 DEF Written
<1>8. Prepared'
  BY <1>1, <1>2, <1>7 DEF Prepared, NewAccounts
<1>9. QED
  BY <1>1, <1>6, <1>8 DEF FilesInv, AllWritten, GenesisWritten, Collecting

LEMMA StartGenesisInv ==
    ASSUME FilesInv, StartGenesis
    PROVE  FilesInv'
<1>1. /\ phase = "prepare" /\ i = args.numValidators /\ phase' = "genesis" /\ i' = 0
      /\ UNCHANGED <<run, args, accounts, appState, files>>
  BY DEF StartGenesis
<1>2. FilesTypes'
  BY <1>1, ArgsFacts, TypesStay DEF FilesInv, FilesTypes
<1>3. Written(i) /\ accounts = NewAccounts(i) /\ appState = NoState
  BY <1>1 DEF FilesInv, Prepared
<1>4. AllWritten'
  BY <1>1, <1>3 DEF AllWritten, Written, NewAccounts
<1>5. Before(0) = {}
  BY DEF Before
<1>6. GenesisWritten'
  BY <1>1, <1>3, <1>5 DEF GenesisWritten
<1>7. QED
  BY <1>1, <1>2, <1>4, <1>6 DEF FilesInv, Prepared, Collecting

LEMMA InitGenFileInv ==
    ASSUME FilesInv, InitGenFile
    PROVE  FilesInv'
<1> DEFINE state == [accounts |-> accounts, gentxs |-> {}]
<1>1. /\ phase = "genesis" /\ i < args.numValidators /\ i' = i + 1
      /\ UNCHANGED <<run, args, phase, accounts, appState>>
      /\ files' = [files EXCEPT !.genesis = With(@, i, state)]
  BY DEF InitGenFile, Looping
<1> HIDE DEF state
<1>2. /\ FilesTypes /\ FilesShape /\ i \in Nat /\ args.numValidators \in Nat
  BY ArgsFacts DEF FilesInv, FilesTypes
<1>3. /\ FilesShape' /\ files'.gentxs = files.gentxs /\ files'.app = files.app
      /\ files'.genesis = With(files.genesis, i, state)
  BY <1>1, <1>2, GenesisOnly
<1>4. FilesTypes'
  BY <1>1, <1>2, <1>3 DEF FilesTypes, OwnGentxs
<1>5. /\ Written(args.numValidators) /\ accounts = NewAccounts(args.numValidators)
      /\ appState = NoState /\ \A m \in Before(i) : HasGenesis(m, FirstState)
  BY <1>1 DEF FilesInv, AllWritten, GenesisWritten
<1>6. AllWritten'
  BY <1>1, <1>3, <1>5 DEF AllWritten, Written, NewAccounts
<1>7. state = FirstState /\ FirstState' = FirstState
  BY <1>1, <1>5 DEF state, FirstState, NewAccounts
<1>8. \A m \in Before(i + 1) : m = i \/ (m \in Before(i) /\ m # i)
  BY <1>2 DEF Before
<1>9. \A m \in Before(i + 1) :
         m \in DOMAIN files'.genesis /\ files'.genesis[m] = FirstState
  BY <1>3, <1>5, <1>7, <1>8 DEF HasGenesis, With
<1>10. GenesisWritten'
  BY <1>1, <1>5, <1>7, <1>9 DEF GenesisWritten, HasGenesis
<1>11. QED
  BY <1>1, <1>4, <1>6, <1>10 DEF FilesInv, Prepared, Collecting

LEMMA StartCollectInv ==
    ASSUME FilesInv, StartCollect
    PROVE  FilesInv'
<1>1. /\ phase = "genesis" /\ i = args.numValidators /\ phase' = "collect" /\ i' = 0
      /\ UNCHANGED <<run, args, accounts, appState, files>>
  BY DEF StartCollect
<1>2. FilesTypes' /\ args.numValidators \in Nat
  BY <1>1, ArgsFacts, TypesStay DEF FilesInv, FilesTypes
<1>3. /\ Written(args.numValidators) /\ accounts = NewAccounts(args.numValidators)
      /\ appState = NoState /\ \A m \in Before(i) : HasGenesis(m, FirstState)
  BY <1>1 DEF FilesInv, AllWritten, GenesisWritten
<1>4. AllWritten'
  BY <1>1, <1>3 DEF AllWritten, Written, NewAccounts
<1>5. Before(0) = {} /\ 0..(args.numValidators - 1) = Before(i)
  BY <1>1 DEF Before
<1>6. Collected(0)'
  BY <1>1, <1>5 DEF Collected
<1>7. \A m \in 0..(args.numValidators - 1) : HasGenesis(m, FirstState)'
  BY <1>1, <1>3, <1>5 DEF HasGenesis, FirstState, NewAccounts
<1>8. Collecting'
  BY <1>1, <1>3, <1>6, <1>7 DEF Collecting
<1>9. QED
  BY <1>1, <1>2, <1>4, <1>8 DEF FilesInv, Prepared, GenesisWritten

\* If CollectTxs accepts the gentxs, they are those of this run.
LEMMA CollectableGentxs ==
    ASSUME FilesInv, phase = "collect", i < args.numValidators, Collectable
    PROVE  /\ DOMAIN files.gentxs = Validators
           /\ [files.genesis[i] EXCEPT !.gentxs = Range(files.gentxs)] = LastState
<1>1. /\ i \in Nat /\ args.numValidators \in Nat /\ Written(args.numValidators)
      /\ \A m \in i..(args.numValidators - 1) : HasGenesis(m, FirstState)
      /\ OwnGentxs
  BY ArgsFacts DEF FilesInv, FilesTypes, AllWritten, Collecting
<1>2. files.genesis[i] = FirstState
  BY <1>1 DEF HasGenesis
<1>3. \A n \in DOMAIN files.gentxs : n \in Validators
  <2>1. ASSUME NEW n \in DOMAIN files.gentxs
        PROVE  n \in Validators
    <3>1. files.gentxs[n].account \in NewAccounts(args.numValidators)
      BY <1>2 DEF Collectable, FirstState
    <3>2. PICK m \in Before(args.numValidators) : files.gentxs[n].account = <<m, run>>
      BY <3>1 DEF NewAccounts
    <3>3. PICK r \in Nat : files.gentxs[n].account = <<n, r>>
      BY <1>1 DEF OwnGentxs
    <3>4. n = m
      BY <3>2, <3>3
    <3>5. QED  BY <3>4 DEF Before, Validators
  <2>2. QED  BY <2>1
<1>4. \A n \in Validators : n \in DOMAIN files.gentxs
  BY <1>1 DEF Written, Before, Validators
<1>5. DOMAIN files.gentxs = Validators
  BY <1>3, <1>4
<1>6. Range(files.gentxs) = {files.gentxs[m] : m \in Validators}
  BY <1>5 DEF Range
<1>7. QED  BY <1>2, <1>5, <1>6 DEF FirstState, LastState

LEMMA CollectGenFileInv ==
    ASSUME FilesInv, CollectGenFile
    PROVE  FilesInv'
<1> DEFINE N == args.numValidators
           config == [listen |-> Listen(i, args), peers |-> Peers]
<1>1. /\ phase = "collect" /\ i < N /\ Collectable /\ i' = i + 1
      /\ UNCHANGED <<run, args, phase, accounts>>
      /\ appState' = Canonical([files.genesis[i] EXCEPT !.gentxs = Range(files.gentxs)])
      /\ files' = [files EXCEPT !.genesis = With(@, i, appState'), !.config = With(@, i, config)]
  BY DEF CollectGenFile, Looping
<1>2. /\ FilesTypes /\ FilesShape /\ i \in Nat /\ N \in Nat
      /\ Written(N) /\ accounts = NewAccounts(N)
      /\ i = 0 => appState = NoState
      /\ Collected(i)
      /\ \A m \in i..(N - 1) : HasGenesis(m, FirstState)
  BY <1>1, ArgsFacts DEF FilesInv, FilesTypes, AllWritten, Collecting
<1>3. /\ DOMAIN files.gentxs = Validators
      /\ [files.genesis[i] EXCEPT !.gentxs = Range(files.gentxs)] = LastState
  BY <1>1, CollectableGentxs
<1>4. appState' = LastState
  <2>1. i # 0 => appState = LastState
    BY <1>2 DEF Collected
  <2>2. QED  BY <1>1, <1>2, <1>3, <2>1 DEF Canonical
<1> HIDE DEF config
<1>5. /\ FilesShape' /\ files'.gentxs = files.gentxs /\ files'.app = files.app
      /\ files'.genesis = With(files.genesis, i, LastState)
      /\ files'.config = With(files.config, i, config)
  BY <1>1, <1>2, <1>4, NodeCollected
<1>6. FilesTypes'
  BY <1>1, <1>2, <1>5 DEF FilesTypes, OwnGentxs
<1>7. AllWritten'
  BY <1>1, <1>2, <1>5 DEF AllWritten, Written, NewAccounts
<1>8. /\ FirstState' = FirstState /\ LastState' = LastState /\ Validators' = Validators
  BY <1>1, <1>5 DEF FirstState, LastState, NewAccounts, Validators
<1>9. config = [listen |-> Listen(i, args),
                peers |-> {files.gentxs[k].memo : k \in Validators \ {i}}]
  BY <1>3 DEF config, Peers
<1>10. /\ \A m \in Before(i + 1) : m = i \/ (m \in Before(i) /\ m # i)
       /\ \A m \in (i + 1)..(N - 1) : m \in i..(N - 1) /\ m # i
  BY <1>2 DEF Before
<1>11. \A m \in Before(i + 1) :
          /\ HasGenesis(m, LastState)'
          /\ m \in DOMAIN files'.config
          /\ files'.config[m] = [listen |-> Listen(m, args),
                                 peers |-> {files.gentxs[k].memo : k \in Validators \ {m}}]
  <2>1. ASSUME NEW m \in Before(i + 1)
        PROVE  /\ m \in DOMAIN files'.genesis /\ files'.genesis[m] = LastState
               /\ m \in DOMAIN files'.config
               /\ files'.config[m] = [listen |-> Listen(m, args),
                                      peers |-> {files.gentxs[k].memo : k \in Validators \ {m}}]
    <3>1. CASE m = i
      BY <1>5, <1>9, <3>1 DEF With
    <3>2. CASE m \in Before(i) /\ m # i
      <4>1. /\ m \in DOMAIN files.genesis /\ files.genesis[m] = LastState
            /\ m \in DOMAIN files.config
            /\ files.config[m] = [listen |-> Listen(m, args),
                                  peers |-> {files.gentxs[k].memo : k \in Validators \ {m}}]
        BY <1>2, <3>2 DEF Collected, HasGenesis
      <4>2. /\ m \in DOMAIN files'.genesis /\ files'.genesis[m] = files.genesis[m]
            /\ m \in DOMAIN files'.config /\ files'.config[m] = files.config[m]
        BY <1>5, <3>2, <4>1 DEF With
      <4>3. QED  BY <4>1, <4>2
    <3>3. QED  BY <1>10, <3>1, <3>2
  <2>2. QED  BY <1>8, <2>1 DEF HasGenesis
<1>12. Collected(i)'
  <2>1. appState' = LastState' /\ DOMAIN files'.gentxs = Validators'
    BY <1>3, <1>4, <1>5, <1>8
  <2>2. \A m \in Before(i') :
           /\ HasGenesis(m, LastState)'
           /\ m \in DOMAIN files'.config
           /\ files'.config[m] = [listen |-> Listen(m, args'),
                                  peers |-> {files'.gentxs[k].memo : k \in Validators' \ {m}}]
    BY <1>1, <1>5, <1>8, <1>11
  <2>3. QED  BY <2>1, <2>2 DEF Collected
<1>13. \A m \in (i + 1)..(N - 1) : HasGenesis(m, FirstState)'
  BY <1>2, <1>5, <1>8, <1>10 DEF HasGenesis, With
<1>14. Collecting'
  <2>1. i' # 0 /\ phase' = "collect" /\ args' = args
    BY <1>1, <1>2
  <2>2. \A m \in i'..(args'.numValidators - 1) : HasGenesis(m, FirstState)'
    BY <1>1, <1>13
  <2>3. QED  BY <1>12, <2>1, <2>2 DEF Collecting
<1>15. QED
  BY <1>1, <1>6, <1>7, <1>14 DEF FilesInv, Prepared, GenesisWritten

LEMMA SucceedInv ==
    ASSUME FilesInv, Succeed
    PROVE  FilesInv'
<1>1. /\ phase = "collect" /\ i = args.numValidators /\ phase' = "ok"
      /\ UNCHANGED <<run, args, i, accounts, appState, files>>
  BY DEF Succeed
<1>2. FilesTypes'
  BY <1>1, TypesStay DEF FilesInv, FilesTypes
<1>3. /\ Written(args.numValidators) /\ accounts = NewAccounts(args.numValidators)
      /\ Collected(args.numValidators)
  BY <1>1 DEF FilesInv, AllWritten, Collecting
<1>4. AllWritten'
  BY <1>1, <1>3 DEF AllWritten, Written, NewAccounts
<1>5. Collected(args.numValidators)'
  BY <1>1, <1>3 DEF Collected, HasGenesis, LastState, NewAccounts, Validators
<1>6. QED
  BY <1>1, <1>2, <1>4, <1>5 DEF FilesInv, Prepared, GenesisWritten, Collecting

\* A step fails: what is left behind is of the right shape.
LEMMA FailingInv ==
    ASSUME FilesInv, FailRemoving \/ FailLeaving \/ FailCollecting
    PROVE  FilesInv'
<1>1. /\ phase' = "failed" /\ UNCHANGED <<run, args, i>>
  BY DEF FailRemoving, FailLeaving, FailCollecting
<1>2. FilesTypes /\ FilesShape /\ OwnGentxs /\ run \in Nat
  BY DEF FilesInv, FilesTypes
<1>3. CASE files' = files
  BY <1>1, <1>2, <1>3, StoppedInv DEF FilesTypes, FilesShape, OwnGentxs
<1>4. CASE files' = NoFiles
  <2>1. NoFiles.gentxs = Empty /\ DOMAIN Empty = {}
    BY DEF NoFiles, Empty
  <2>2. FilesShape' /\ OwnGentxs'
    BY <1>4, <2>1 DEF NoFiles, FilesShape, OwnGentxs
  <2>3. QED  BY <1>1, <1>2, <2>2, StoppedInv DEF FilesTypes
<1>5. ASSUME FilesShape', files'.gentxs = files.gentxs
      PROVE  FilesInv'
  BY <1>1, <1>2, <1>5, StoppedInv DEF FilesTypes, OwnGentxs
<1>6. CASE files' = [files EXCEPT !.seeds = @ \cup {i}]
  BY <1>2, <1>5, <1>6, SeedsWritten
<1>7. CASE files' = [files EXCEPT !.config = With(@, i, [listen |-> Listen(i, args), peers |-> Peers])]
  BY <1>2, <1>5, <1>7, ConfigOnly
<1>8. ASSUME phase = "gentx",
             files' = [files EXCEPT !.seeds = @ \cup {i}, !.gentxs = With(@, i, Gentx)]
      PROVE  FilesInv'
  <2>1. FilesShape' /\ files'.gentxs = With(files.gentxs, i, Gentx)
    BY <1>2, <1>8, GentxWritten
  <2>2. /\ DOMAIN files'.gentxs = DOMAIN files.gentxs \cup {i} /\ files'.gentxs[i] = Gentx
        /\ \A k \in DOMAIN files.gentxs : k # i => files'.gentxs[k] = files.gentxs[k]
    BY <2>1 DEF With
  <2>3. i \in Nodes
    <3>1. i < args.numValidators
      BY <1>8 DEF FilesInv, Prepared
    <3>2. QED  BY <1>2, <3>1, ArgsFacts
  <2>4. Gentx.account = <<i, run>>
    BY DEF Gentx
  <2>5. OwnGentxs'
    BY <1>2, <2>2, <2>3, <2>4 DEF OwnGentxs
  <2>6. QED  BY <1>1, <1>2, <2>1, <2>5, StoppedInv DEF FilesTypes
<1>9. QED
  BY <1>3, <1>4, <1>6, <1>7, <1>8 DEF FailRemoving, FailLeaving, FailCollecting

LEMMA NextFilesInv == FilesInv /\ [Next]_vars => FilesInv'
<1> SUFFICES ASSUME FilesInv, [Next]_vars PROVE FilesInv'
  OBVIOUS
<1>1. CASE UNCHANGED vars
  BY <1>1 DEF vars, FilesInv, FilesTypes, FilesShape, OwnGentxs, Prepared, AllWritten,
              GenesisWritten, Collecting, Written, NewAccounts, Collected, HasGenesis, LastState,
              FirstState, Validators
<1>2. CASE Again
  <2>1. /\ phase' = "idle" /\ UNCHANGED <<run, args, i, files>>
    BY <1>2 DEF Again
  <2>2. FilesTypes'
    BY <2>1, TypesStay DEF FilesInv, FilesTypes
  <2>3. QED  BY <2>1, <2>2, StoppedInv
<1>3. CASE FailRemoving \/ FailLeaving \/ FailCollecting
  BY <1>3, FailingInv
<1>4. QED
  BY <1>1, <1>2, <1>3, StartInv, PrepareNodeInv, SaveKeyInv, WriteNodeInv, StartGenesisInv,
     InitGenFileInv, StartCollectInv, CollectGenFileInv, SucceedInv
     DEF Next, initTestnetFiles, Finished

LEMMA FilesAlways == Spec => []FilesInv
  BY InitFilesInv, NextFilesInv, PTL DEF Spec

-----------------------------------------------------------------------------
(* The theorems *)

\* The nodes of a test network start from one state, with the account and the
\* gentx of every validator of this run and of nobody else, whatever earlier runs
\* left in the directory (initGenFiles and collectGenFiles of testnet.go).
THEOREM OneGenesis == Spec => []GenesesAgree
<1>1. FilesInv => GenesesAgree
  <2> SUFFICES ASSUME FilesInv, Succeeded, NEW n \in Validators
               PROVE  /\ files.genesis[n].accounts = {<<m, run>> : m \in Validators}
                      /\ files.genesis[n].gentxs = {files.gentxs[m] : m \in Validators}
    BY DEF GenesesAgree
  <2>1. files.genesis[n] = LastState
    BY DEF FilesInv, Collecting, Collected, HasGenesis, Succeeded, Before, Validators
  <2>2. Before(args.numValidators) = Validators
    BY DEF Before, Validators
  <2>3. QED  BY <2>1, <2>2 DEF LastState, NewAccounts
<1>2. QED  BY <1>1, FilesAlways, PTL

\* The gentx that makes a run fail is of a node that this run does not have: the
\* command can be repeated with as many validators as before.
THEOREM LargerRunsBlock == Spec => []OnlyLargerRunsBlock
<1>1. FilesInv => OnlyLargerRunsBlock
  <2> SUFFICES ASSUME FilesInv, Looping("collect"), ~Collectable
               PROVE  \E n \in DOMAIN files.gentxs : n >= args.numValidators
    BY DEF OnlyLargerRunsBlock
  <2>1. /\ phase = "collect" /\ i < args.numValidators /\ i \in Nat
        /\ args.numValidators \in Nat /\ MaxValidators \in Nat
        /\ Written(args.numValidators) /\ HasGenesis(i, FirstState) /\ OwnGentxs
    BY ArgsFacts DEF FilesInv, FilesTypes, AllWritten, Collecting, Looping
  <2>2. PICK n \in DOMAIN files.gentxs :
           files.gentxs[n].account \notin NewAccounts(args.numValidators)
    BY <2>1 DEF Collectable, HasGenesis, FirstState
  <2>3. n \notin Before(args.numValidators)
    <3>1. ASSUME n \in Before(args.numValidators)
          PROVE  files.gentxs[n].account \in NewAccounts(args.numValidators)
      <4>1. files.gentxs[n] = [account |-> <<n, run>>, memo |-> Memo(n, args)]
        BY <2>1, <3>1 DEF Written
      <4>2. files.gentxs[n].account = <<n, run>>
        BY <4>1
      <4>3. QED  BY <3>1, <4>2 DEF NewAccounts
    <3>2. QED  BY <2>2, <3>1
  <2>4. n \in Nat
    BY <2>1 DEF OwnGentxs, Nodes
  <2>5. n >= args.numValidators
    BY <2>1, <2>3, <2>4 DEF Before
  <2>6. QED  BY <2>5
<1>2. QED  BY <1>1, FilesAlways, PTL

\* What a run that succeeded wrote for a node.
LEMMA NodeFiles ==
    ASSUME FilesInv, Succeeded, NEW n \in Validators
    PROVE  /\ files.config[n] = [listen |-> Listen(n, args),
                                 peers |-> {Memo(k, args) : k \in Validators \ {n}}]
           /\ files.app[n] = AppPorts(n, args)
<1>1. Validators = Before(args.numValidators)
  BY DEF Validators, Before
<1>2. /\ Written(args.numValidators) /\ Collected(args.numValidators)
  BY DEF FilesInv, AllWritten, Collecting, Succeeded
<1>3. \A k \in Validators : files.gentxs[k].memo = Memo(k, args)
  <2>1. \A k \in Validators :
           files.gentxs[k] = [account |-> <<k, run>>, memo |-> Memo(k, args)]
    BY <1>1, <1>2 DEF Written
  <2>2. ASSUME NEW k \in Validators
        PROVE  files.gentxs[k].memo = Memo(k, args)
    <3>1. files.gentxs[k] = [account |-> <<k, run>>, memo |-> Memo(k, args)]
      BY <2>1
    <3>2. QED  BY <3>1
  <2>3. QED  BY <2>2
<1>4. {files.gentxs[k].memo : k \in Validators \ {n}} = {Memo(k, args) : k \in Validators \ {n}}
  BY <1>3
<1>5. QED  BY <1>1, <1>2, <1>4 DEF Collected, Written

\* calculateIP increments one byte: it gives different addresses for 256 nodes.
LEMMA AddressesDiffer ==
    ASSUME NEW start \in 0..255, NEW k \in 0..255, NEW m \in 0..255, k # m
    PROVE  calculateIP(start, k) # calculateIP(start, m)
<1>1. \A n \in 0..255 : calculateIP(start, n) = IF start + n < 256 THEN start + n ELSE start + n - 256
  BY DEF calculateIP
<1>2. /\ calculateIP(start, k) = IF start + k < 256 THEN start + k ELSE start + k - 256
      /\ calculateIP(start, m) = IF start + m < 256 THEN start + m ELSE start + m - 256
  BY <1>1
<1>3. QED  BY <1>2

\* Every node has the addresses of all the others, one for each and no two the
\* same, with the port that node listens on: in networks of up to 256
\* nodes, the range of the byte that calculateIP increments (testnet.go:511-522).
THEOREM PeersAreConnected ==
    ASSUME MaxValidators <= 256
    PROVE  Spec => []PeersConnect
<1>1. ASSUME FilesInv, Succeeded, NEW n \in Validators
      PROVE  LET peers == files.config[n].peers IN
             /\ {p.node : p \in peers} = Validators \ {n}
             /\ \A p \in peers : p.port = files.config[p.node].listen.p2p
             /\ args.singleMachine \/ args.ip = "starting" =>
                 \A p, q \in peers : p # q => <<p.host, p.port>> # <<q.host, q.port>>
  <2> DEFINE others == Validators \ {n}
             peers == files.config[n].peers
  <2>1. peers = {Memo(k, args) : k \in others}
    <3>1. files.config[n] = [listen |-> Listen(n, args),
                             peers |-> {Memo(k, args) : k \in Validators \ {n}}]
      BY <1>1, NodeFiles
    <3>2. QED  BY <3>1
  <2>2. \A k \in Validators :
           /\ Memo(k, args).node = k /\ Memo(k, args).host = getIP(k, args)
           /\ Memo(k, args).port = p2pPortStart(args) + portOffset(k, args)
    BY DEF Memo
  <2>3. \A k \in Validators :
           files.config[k].listen.p2p = p2pPortStart(args) + portOffset(k, args)
    <3>1. ASSUME NEW k \in Validators
          PROVE  files.config[k].listen.p2p = p2pPortStart(args) + portOffset(k, args)
      <4>1. files.config[k] = [listen |-> Listen(k, args),
                               peers |-> {Memo(j, args) : j \in Validators \ {k}}]
        BY <1>1, NodeFiles
      <4>2. QED  BY <4>1 DEF Listen
    <3>2. QED  BY <3>1
  <2>4. \A k \in Validators : k \in 0..255
    <3>1. args.numValidators \in Nat /\ args.numValidators <= MaxValidators /\ MaxValidators \in Nat
      BY <1>1, ArgsFacts DEF FilesInv
    <3>2. QED  BY <3>1 DEF Validators
  <2> HIDE DEF peers
  <2>5. {p.node : p \in peers} = others
    BY <2>1, <2>2
  <2>6. \A p \in peers : p.port = files.config[p.node].listen.p2p
    <3>1. ASSUME NEW k \in others
          PROVE  Memo(k, args).port = files.config[Memo(k, args).node].listen.p2p
      BY <2>2, <2>3
    <3>2. QED  BY <2>1, <3>1
  <2>7. ASSUME args.singleMachine \/ args.ip = "starting",
               NEW k \in others, NEW m \in others, k # m
        PROVE  <<Memo(k, args).host, Memo(k, args).port>>
                  # <<Memo(m, args).host, Memo(m, args).port>>
    <3>1. CASE args.singleMachine
      <4>1. portOffset(k, args) = k /\ portOffset(m, args) = m /\ p2pPortStart(args) = 16656
        BY <3>1 DEF portOffset, p2pPortStart
      <4>2. Memo(k, args).port # Memo(m, args).port
        <5>1. Memo(k, args).port = 16656 + k /\ Memo(m, args).port = 16656 + m
          BY <2>2, <4>1
        <5>2. k \in 0..255 /\ m \in 0..255
          BY <2>4
        <5>3. QED  BY <2>7, <5>1, <5>2
      <4>3. QED  BY <4>2
    <3>2. CASE args.ip = "starting"
      <4>1. args.start \in 0..255
        BY <1>1, ArgsFacts DEF FilesInv
      <4>2. calculateIP(args.start, k) # calculateIP(args.start, m)
        BY <2>4, <2>7, <4>1, AddressesDiffer
      <4>3. Memo(k, args).host # Memo(m, args).host
        BY <2>2, <3>2, <4>2 DEF getIP
      <4>4. QED  BY <4>3
    <3>3. QED  BY <2>7, <3>1, <3>2
  <2>8. args.singleMachine \/ args.ip = "starting" =>
           \A p, q \in peers : p # q => <<p.host, p.port>> # <<q.host, q.port>>
    <3>1. ASSUME args.singleMachine \/ args.ip = "starting",
                 NEW p \in peers, NEW q \in peers, p # q
          PROVE  <<p.host, p.port>> # <<q.host, q.port>>
      <4>1. PICK k \in others : p = Memo(k, args)
        BY <2>1
      <4>2. PICK m \in others : q = Memo(m, args)
        BY <2>1
      <4>3. k # m
        BY <3>1, <4>1, <4>2
      <4>4. QED  BY <2>7, <3>1, <4>1, <4>2, <4>3
    <3>2. QED  BY <3>1
  <2>9. QED  BY <2>5, <2>6, <2>8 DEF peers
<1>2. FilesInv => PeersConnect
  BY <1>1 DEF PeersConnect
<1>3. QED  BY <1>2, FilesAlways, PTL

\* On a single host no port is used twice, by one node or by two: in networks of up
\* to 1000 nodes, the distance of the first ports of the two grpc servers in app.toml
\* (testnet.go:173 "Cluster runs on a single host machine with different ports").
THEOREM PortsDiffer ==
    ASSUME MaxValidators <= 1000
    PROVE  Spec => []SingleHostPorts
<1>1. ASSUME FilesInv, Succeeded, args.singleMachine, NEW m \in Validators, NEW n \in Validators,
             NEW s \in 1..3, NEW t \in 1..3, <<m, s>> # <<n, t>>
      PROVE  Sockets(m)[s] \cap Sockets(n)[t] = {}
  <2>1. m \in 0..999 /\ n \in 0..999
    <3>1. args.numValidators \in Nat /\ args.numValidators <= MaxValidators /\ MaxValidators \in Nat
      BY <1>1, ArgsFacts DEF FilesInv
    <3>2. QED  BY <3>1 DEF Validators
  <2>2. \A k \in Validators : portOffset(k, args) = k
    BY <1>1 DEF portOffset
  <2>3. \A k \in Validators : Sockets(k) = <<{1317 + k, 9090 + k, 8090 + k}, {26657 + k}, {16656 + k}>>
    <3>1. ASSUME NEW k \in Validators
          PROVE  Sockets(k) = <<{1317 + k, 9090 + k, 8090 + k}, {26657 + k}, {16656 + k}>>
      <4>1. /\ files.app[k] = {1317 + k, 9090 + k, 8090 + k}
        <5>1. files.app[k] = AppPorts(k, args)
          BY <1>1, NodeFiles
        <5>2. QED  BY <2>2, <5>1 DEF AppPorts
      <4>2. p2pPortStart(args) = 16656
        BY <1>1 DEF p2pPortStart
      <4>3. files.config[k].listen = [rpc |-> 26657 + k, p2p |-> 16656 + k]
        <5>1. files.config[k] = [listen |-> Listen(k, args),
                                 peers |-> {Memo(j, args) : j \in Validators \ {k}}]
          BY <1>1, NodeFiles
        <5>2. files.config[k].listen = Listen(k, args)
          BY <5>1
        <5>3. QED  BY <2>2, <4>2, <5>2 DEF Listen
      <4>4. QED  BY <4>1, <4>3 DEF Sockets
    <3>2. QED  BY <3>1
  <2>4. /\ Sockets(m) = <<{1317 + m, 9090 + m, 8090 + m}, {26657 + m}, {16656 + m}>>
        /\ Sockets(n) = <<{1317 + n, 9090 + n, 8090 + n}, {26657 + n}, {16656 + n}>>
    BY <2>3
  <2>5. ASSUME NEW port \in Sockets(m)[s], port \in Sockets(n)[t]
        PROVE  FALSE
    <3>1. \/ s = 1 /\ port \in {1317 + m, 9090 + m, 8090 + m}
          \/ s = 2 /\ port = 26657 + m
          \/ s = 3 /\ port = 16656 + m
      BY <2>4, <2>5
    <3>2. \/ t = 1 /\ port \in {1317 + n, 9090 + n, 8090 + n}
          \/ t = 2 /\ port = 26657 + n
          \/ t = 3 /\ port = 16656 + n
      BY <2>4, <2>5
    <3>3. m = n => s # t
      BY <1>1
    <3>4. QED  BY <2>1, <3>1, <3>2, <3>3
  <2>6. QED  BY <2>5
<1>2. FilesInv => SingleHostPorts
  BY <1>1 DEF SingleHostPorts
<1>3. QED  BY <1>2, FilesAlways, PTL
=============================================================================
