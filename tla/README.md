# A verification project for cosmos-tracing

cosmos-tracing decorates the handlers of a Cosmos SDK application so that every
call becomes an opentracing span: what it was called with, its store operations,
the gas it used, its events and its error. The application runs replicated, so
the decorators are worth nothing if they change what it does: a node with tracing
and one without must agree on events, store and gas, block by block. Most of what
follows is about that, and about whether the traces tell the truth, and get through. The
rest is about the example applications of the repository: the export of a chain and
the start of a new one from it, its upgrade and the files of a test network.

This directory holds TLA+ modules for these parts, configurations that check
them with TLC, and theorems checked by TLAPS. `PROJECT.json` maps every
definition to the lines it stands for.

Contents: 1 inventory, 2 modules, 3 runs and bounds, 4 fairness, 5 proofs,
6 disagreements found, 7 what is not modelled, 8 plan.

## 1. Inventory

| component (source) | state | operations | talks to |
|---|---|---|---|
| `DoWithTracing` (`tracing.go`) | one span per call; a work context with its own event manager, store and gas meter | run a callback on the work context; log its events, hand them to the caller, finish the span | everything decorated |
| context and clock (`context.go`) | values in `sdk.Context`: span, clock, simulation mark | get or make the clock, mark a simulation, `IsTraceable` | `DoWithTracing`, guards |
| `TraceGasMeter` (`gas.go`) | entries with offset, amount, kind | consume, refund; record, then delegate | the SDK meter |
| `TracingMultiStore` (`store.go`) | a log of operations per layer | `GetKVStore`, `GetStore`; all or writes only | the layer below |
| ante handler, routers (`sdk_tracer.go`) | none | decide whether to trace, call through | `baseapp`, modules |
| `TraceModuleManager` (`sdk_module.go`) | validator updates of the block | begin and end block, migrations, genesis | the nested `module.Manager` |
| `TraceModuleConfigurator`, `TraceGRPCServer` (`sdk_module.go`) | none | wrap services as they are registered, call them in transactions and queries | modules, `baseapp` |
| `TraceIBCHandler` (`ibc.go`) | none; may copy the acknowledgement | channel and packet callbacks | ibc core, applications |
| wasm messenger, queries, engine (`wasm_tracer.go`, `wasmvm.go`) | none | dispatch messages and sub-messages, query, calls of the engine | wasmd |
| configuration (`config.go`) | two flags | read once at start | guards |
| tracer lifecycle (`cli.go`) | the closer shared by two closures; queue and packet of jaeger-client | start, run, close | cobra, jaeger-client |
| length limits (`utils.go`) | none | cut a value | logs, jaeger-client |
| zero height export (`examples/*/app/export.go`) | the state of x/distribution, x/staking, x/slashing | withdraw, clear, set up again, reset heights, jail | keepers |
| upgrades (`examples/*/app/upgrades.go`) | upgrade info on disk, the plan, mounted stores | install handler and store loader at start; migrate | x/upgrade, root store |
| test network (`examples/*/cmd/*/testnet.go`) | an output directory | init-files, start | x/genutil |
| app wiring (`examples/*/app/app.go`) | orders of modules, stores | start a chain, load a version | everything |
| root commands (`examples/*/cmd`) | — | export at a height | apps |

### What is hard, and what makes each part correct

- **Events.** Every traced call has an event manager of its own and copies its
  events to the caller's when it returns, also when it fails. Calls nest, branches
  are committed or dropped, panics skip the copying. *Correct:* every event
  manager holds what the application without tracing would have there
  (`TransparentEvents`, and the refinement `Transparent` for store and gas too).
- **Spans.** Nothing is deferred in `DoWithTracing`, so a panic leaves spans
  unfinished. *Correct:* a span is open exactly while its call runs and is finished
  or given up for lost afterwards (`SpansSettle`); a child lies within its parent
  on a clock that is shared through the context (`ChildWithinParent`).
- **Gas and stores.** Meters and layers of nested calls are stacked. *Correct:*
  the gas entries of a span are a chain without gaps (`GasTraceAddsUp`), the log of
  an outer call contains the log of inner ones (`StoreLogsNest`), every write is
  recorded once by every call around it and by nobody else (`WritesAreTraced`).
- **Who decides.** The ante handler decides by an argument, later handlers by a
  mark in the context it returned. *Correct:* they agree (`GuardsAgree`), a
  transaction is one trace and so is a query of the engine (`OneTrace`), the response has
  each event once (`ResponseFaithful`). Services are also called by queries from outside and
  by baseapp as they are registered, there with a context that has no `sdk.Context` in it;
  nothing may be traced there (`ContextFound`).
- **Sub-messages.** wasmd asks the decorated meter what is left, gives a limited
  message a meter of its own and charges its caller afterwards. *Correct:* the gas
  entries explain what each meter consumed (`GasExplained`), limits protect the
  caller (`LimitProtects`), and nothing but gas makes a transaction panic
  (`AbortsOutOfGas`).
- **Blocks.** The begin and end blocker loops are copies of those in
  `module.Manager`, with a panic inside a traced callback. *Correct:* a committed
  block is the one `module.Manager` makes, whatever crashed and however tracing was
  switched in between (`CommitsAsManager`), its trace is complete (`TracesBlock`),
  and blocks that can be executed are (`BlocksCommitted`).
- **Closing.** Spans are dropped when a queue is full or when they do not fit in a
  packet; `PostRun` only runs after a success. *Correct:* every span is reported once or
  lost (`SpansAccounted`); a command that succeeds leaves none behind, one that fails no
  more than the queue and a packet hold (`EndLosesLittle`); a full queue does not keep a
  command from ending (`CommandEnds`); the limits of `utils.go` keep spans small enough
  but for batches and errors (`OnlyBatchesTooBig`).
- **Acknowledgements.** Core keeps or discards effects by what the decorator
  returns. *Correct:* it does as the application said (`DecidedByApp`), and packets
  whose acknowledgement is not nil get through (`EveryPacketAcked`). The others panic when their acknowledgement is looked at,
  which `AddsOnlyTracing` forbids and run `async` finds.
- **Test network.** The command fails half-way, is run again in the same
  directory, and derives addresses and ports in several places. *Correct:*
  `GenesesAgree`, `PeersConnect`, `SingleHostPorts`, `OnlyLargerRunsBlock`.
- **Export.** Eight steps take apart and rebuild reference-counted state, some
  errors are ignored. *Correct:* `BooksBalance`, `PaidInFull`, `PeriodsReferred`,
  `NothingFromTheFuture`, `OnlyJailingFails`; and a new chain starts from what was exported
  (`ChainRestarts`).
- **Upgrade.** It takes two binaries, a file on disk and restarts at the right
  height. *Correct:* stores come exactly with the migrations
  (`MigratedWithStores`), and the chain goes on (`ChainGoesOn`).

`PROJECT.json` lists these hazards one by one, each at its line.

## 2. Modules

```
BlockTimeClock   TraceGasMeter   TracingMultiStore      Untraced (abstract)
        \             |              /                     |
         `-------- Tracing ---------'--- Transparent ------'
                      |                   (refinement)
                 Transparency
                      |
                TracingProofs

TraceGasMeter — SubMessages — SubMessagesProofs

TxTracing — TxTracingProofs          BlockTracing — BlockTracingProofs

SpanSize — TracerLifecycle — TracerLifecycleProofs

Upgrade, IBCReceive — AppProofs

TestnetFiles — TestnetFilesProofs    ZeroHeightExport — Genesis — GenesisProofs
```

**Tracing** is `DoWithTracing` around an arbitrary program. A context is a value
that is passed down, so the state is the stack of contexts in use: the root, work
contexts of traced calls, and cache branches. The actions are what a program can
do in Go: emit an event, use gas, read and write a store through
`ctx.KVStore` (metered) or through the multistore (not metered), call something
decorated, open, commit or discard a branch, return with or without error, panic.
Panics pass up the stack until a branch or `baseapp` recovers them. `CallIgnoring`
is the decorator that runs its callback on the caller's context instead of the
work context (`OnRecvPacket`, the engine). Three small modules hold the parts with
operators of their own: **BlockTimeClock** (`context.go`), **TraceGasMeter**
(`gas.go`) and **TracingMultiStore** (`store.go`: which layers record an operation
and which charge a meter).

**Untraced** is the abstract specification: the same program with plain function
calls, whose state is what consensus depends on. `Tracing!Transparent` states that
Tracing implements it, with a refinement mapping that leaves out work contexts and
gives each branch the events that its traced calls have not handed back yet
(`EventsOf`: the contexts in use, from the root on, each put its events behind
those of the same branch or begin the log of the next one).
**Transparency** adds a history variable, the event log of the program
without decorators, and states the same for events alone in a form that can be
proved.

**TxTracing** is one transaction from `runTx` through the ante handler to the
messages and what they call. Of `DoWithTracing` it keeps what travels in a context:
the active span, the simulation mark, the event manager. Each decorator is an
action with its own guard: some ask `IsTraceable`, some do not, some go on in the
caller's context. The same module has the other ways to a service: a query through
`baseapp`, one through the gRPC server, whose interceptor puts the `sdk.Context` in, and the
probe by which `MsgServiceRouter` learns the type of a request when the service is
registered (`Register`).

**SubMessages** is the dispatch of messages between contracts: a stack of calls,
each with its meter, the spans whose `TraceGasMeter` is around it, and what its
caller does if it fails. Running out of gas is recovered at the nearest message with a limit.
It extends TraceGasMeter with what wasmd reads of the decorated meter.

**BlockTracing** is `TraceModuleManager` in a node: consensus fixes a block, the
handlers run step by step, a crash or panic stops the process, a restart executes
the block again with tracing on or off.

**SpanSize** has the limits of `utils.go` and, decorator by decorator, the bytes
that a call logs; **TracerLifecycle** is the start command with the closures of
`RunWithTracer` and the reporter of jaeger-client: queue, goroutine, packets, which it
fills with spans of the sizes of SpanSize.

**IBCReceive** is `OnRecvPacket` between core, the application and relayers. The
environment variables that steer it are arbitrary and fixed.

**TestnetFiles** is `testnet init-files`: one action per node and phase, a failure
possible at every step, and the output directory as a state that survives.
simd has no single host; its runs are the ones with `FALSE`.

**ZeroHeightExport** is `prepForZeroHeightGenesis` of both apps, on a model of
x/distribution that counts references to reward periods and cuts fractions when
coins are paid, as far as the export uses it. **Genesis** composes it with the start
of a chain: `InitChainer` gives the exported state to the modules in the genesis
order of the app, each with what it needs of others and what it checks; the chain
goes on from there, and may be exported again.

**Upgrade** is what `RegisterUpgradeHandlers` installs, on a node that is stopped
and started with either binary and any heights to skip.

### Assumptions about what is not in this repository

`baseapp`, ibc core, jaeger-client, x/genutil, x/distribution, x/staking,
x/upgrade and the root store are modelled from how this code calls them and
marked external in the map. In particular: panics are recovered by whoever opened a
cache branch, or by baseapp, and nowhere else; a refused gas charge or refund
panics after it was recorded; the gas of a recovered operation stays consumed;
a refund larger than the consumption moves nothing. In ZeroHeightExport each
delegation is one token, slashes are so small that they vanish in rounding but leave
a record, operators keep the delegation to themselves, at most one account cannot
receive coins, and the invariants asserted first in the export panic on a
delegation that cannot be paid. In Upgrade the plan has the handler's name and migrations succeed;
migrations that fail are panics of a begin blocker in BlockTracing.

## 3. Runs and bounds

Where nothing else is said deadlock is checked: the models end in an explicit
stuttering action at states where the program ends.

| run | states | bounds | shows |
|---|---|---|---|
| `tracing` | 6.3M | 4 operations, 3 spans, 2 events, 2 ticks, gas limit 2 | `TypeOK` `SpansSettle` `ChildWithinParent` `GasTraceAddsUp` `StoreLogsNest` `WritesAreTraced` `TransparentEvents` `ReportsItsEvents`, refinement of `Untraced` |
| `tx` | 4.7M | 2 messages or a query, depth 5, 5 spans, 2 events per handler | `TypeOK` `GuardsAgree` `OneTrace` `ContextFound` `ResponseFaithful` |
| `submessages` | 6.3M | 6 charges and messages, gas limit 4, limits of messages 0 to 2 | `GasExplained` `LimitProtects` `AbortsOutOfGas` |
| `blocks` | 117k | 2 blocks, 3 modules, 1 crash | `CommitsAsManager` `TracesBlock` `BlocksCommitted` |
| `lifecycle` | 94k | queue and packet of 2, 5 spans; values of 100 and 20000 bytes | `SpansAccounted` `OnlyBatchesTooBig` `EndLosesLittle` `CommandEnds` |
| `receive` | 7.3k | 3 packets | `DecidedByApp` `EveryPacketAcked` |
| `testnet` | 50k | 2 runs, 0 to 3 validators, 1 failure, first addresses 1 and 254 | `GenesesAgree` `PeersConnect` `SingleHostPorts` `OnlyLargerRunsBlock` |
| `export` | 2.4M | 2 validators, 1 delegator, 4 blocks over all chains | `TypeOK` `BooksBalance` `PaidInFull` `PeriodsReferred` `NothingFromTheFuture` `OnlyJailingFails` `ChainRestarts` |
| `upgrade` | 2.5k | 5 blocks, 3 stops or starts nobody advised | `TypeOK` `MigratedWithStores` `ChainGoesOn` |
| `branch`, `simulation`, `async` | — | | violations, section 6 |

Why the bounds are enough for the cases that matter:

- `tracing`: an operation of a program is a step; returns,
  commits and unwinding are not counted. Four steps make two nested calls and a
  branch with a write in it, or a call, a branch, a charge that runs out of gas,
  its recovery and what follows. The gas limit is so low that refusals happen in
  the first charge or the second. Two ticks give three times, so that parent and child
  can differ at both ends.
- `tx`: a message is itself a service call, so depth five has three calls inside it, of
  every kind that hands a context on, in every order.
- `submessages`: six steps make two limited messages in each other, with a charge
  in between and one that exhausts the inner or the outer; the limits are below,
  at and above what is left of a transaction of four.
- `blocks`: two modules with begin blockers and two with end blockers, one of them
  in both; programs that emit, migrate in between, and panic after they emitted. Two
  blocks show that nothing of the first is left in the second.
- `lifecycle`: five spans overflow a queue of two behind a full packet, so that a failure
  could lose more than the two hold. A value of
  20000 bytes is cut by every limit, one of 100 by none; parts come below and above the
  number from which they are too many. Units are parts of a packet, rounded up.
- `testnet`: 254 wraps around at the third validator; the second run may have
  fewer, as many, or more validators than the first.
- `export`: two validators compete for one place in the bonded set, with a
  delegator who may join either and a fee that leaves fractions. Four blocks are
  enough for a delegation, fees, a slash and fees again before the export, or for
  some of it before a first export and some after, on the new chain.
- `upgrade`: the plan may be set, cancelled and set again, for a height that is
  skipped or not, with a stop before, in and after the block of the upgrade.

Each property is also seen to fail for a plausible bug: `mutants` in
`PROJECT.json` replaces one definition for each. The changed definitions stand before
the ones they change, marked as mutants. Type invariants are checked where a theorem
or other properties of the run rest on them; those of BlockTracing, TracerLifecycle,
TestnetFiles and IBCReceive say what their states look like, and the last is part of a proved
invariant.

Some of what the runs show is not obvious from the code:

- In the export a commission that the bank refuses (the operator's account is
  blocked) has already left the books when its error is ignored. The balance of the module is then larger
  than the books by exactly that amount, and stays so. `BooksBalance` says so. x/distribution
  compares the two when a chain starts, so no chain starts from such an export: the
  case that `ChainRestarts` excludes.
- A span fits in a packet whatever the length of its values, with room for less than
  one more field: a transaction of six messages leaves 2390 bytes. It does not fit when
  a transaction has more than six long messages, a contract answers with more than two long
  sub-messages, or an error is long, whose text nothing cuts. Such a span is lost as a
  whole. A cut value is eleven bytes longer than its maximum.
- `TraceMessageRouter.Handler` returns a function for messages that nobody handles, where
  the router it decorates returns nil, for which its callers test. The apps give their keepers the
  undecorated router; with the decorated one a contract could not reply to an unknown
  message, and the transaction would panic (the mutant of `AbortsOutOfGas`).
  `TraceGovRouter` tests for nil.
- The services trace queries through `baseapp` and the gRPC server as well. The interceptor
  of the server must be outside the decorator, as `decorateHandler` has it: `ContextFound`.
- `OnChanOpenTry` logs the negotiated version only if there is an error (`ibc.go:81`).
- simd ignores the errors of reward withdrawals on which wasmd panics. Since the
  invariants of x/distribution are asserted first, neither is reached:
  `PaidInFull` holds for both.
- A jail list that leaves out a bonded validator always makes the export fail:
  the validator is jailed by writing its record, but stays in the power index, on
  which the next call panics. `OnlyJailingFails` says that this and accounts that
  cannot be paid are the only failures.
- The upgrade needs the old binary to be run up to the height of the plan, where it
  writes the upgrade info. A new binary that is started without that info, or with
  the height to skip, does not add the stores that it mounts and exits while loading.
  An old binary with the height to skip goes past the upgrade, which is then cleared.
- init-files reads whatever gentxs it finds, so that a run with fewer validators
  than an earlier one in the same directory fails. No other left-over stops it.

## 4. Fairness

Only four specifications state fairness; every one is weak.

- BlockTracing: `WF(Step)`. The process is sequential: the call in progress is
  continued, the engine asks for the end of a block that began, and a process that
  stopped is started by its supervisor. Nothing forces a proposal or a crash, and crashes are bounded.
- The other modules state none: what they check is safety.
- TracerLifecycle: the goroutine of the reporter loops without condition until it
  is closed, and the closures of the command are called one after the other by cobra. Nothing
  makes the node finish spans or its command return.
- IBCReceive: a relayer submits a packet until it is received, and an
  application that answers later does so. `RecvPacketPanics` is not an action of `RecvPacket`,
  so packets whose submission panics for ever are no violation of fairness.
- Upgrade: the operator starts the binary that the log advises, and a running node
  makes blocks. Proposals, stops and other starts are not forced; stops and other
  starts are bounded by `MaxStops`.

## 5. Proofs

| theorem | statement | holds for |
|---|---|---|
| `TracingProofs!TypeCorrect` | `Spec => [](TypeOK /\ ContextsLineUp)` | every program, every value of the constants of Tracing |
| `TracingProofs!EventsTransparent` | `SpecH => []TransparentEvents` | the same |
| `TracingProofs!EventsReported` | `SpecH => ReportsItsEvents` | the same |
| `TracingProofs!TracingImplementsUntraced` | `Spec => Transparent` | the same |
| `TracingProofs!EverySpanSettles` | `Spec => []SpansSettle` | the same |
| `TracingProofs!CallsNestInTime` | `Spec => []ChildWithinParent` | the same |
| `TracingProofs!GasIsAccounted` | `Spec => []GasTraceAddsUp` | the same |
| `TracingProofs!WritesAreLogged` | `Spec => WritesAreTraced` | the same |
| `TracingProofs!StoreLogsAreNested` | `Spec => []StoreLogsNest` | the same |
| `TxTracingProofs!TxTypeCorrect` | `Spec => []TypeOK` | every number of messages and depth of calls, every setting |
| `TxTracingProofs!DecidersAgree` | `Spec => []GuardsAgree` | the same |
| `TxTracingProofs!TracedAsOne` | `Spec => []OneTrace` | the same |
| `TxTracingProofs!ContextAlwaysFound` | `Spec => []ContextFound` | the same |
| `TxTracingProofs!ResponseIsFaithful` | `Spec => []ResponseFaithful` | the same |
| `SubMessagesProofs!LimitsProtect` | `Spec => LimitProtects` | every gas limit, every program |
| `SubMessagesProofs!OnlyGasAborts` | `Spec => []AbortsOutOfGas` | the same |
| `SubMessagesProofs!GasIsExplained` | `Spec => []GasExplained` | the same |
| `BlockTracingProofs!BlocksAsManager` | `Spec => []CommitsAsManager` | every order of modules, every program of the blockers, any number of crashes |
| `BlockTracingProofs!BlocksTraced` | `Spec => []TracesBlock` | the same |
| `TracerLifecycleProofs!SpansAreAccounted` | `Spec => []SpansAccounted` | every size of queue, packet and spans |
| `TracerLifecycleProofs!LittleIsLost` | `Spec => []EndLosesLittle` | the same |
| `TracerLifecycleProofs!BatchesTooBig` | `Spec => OnlyBatchesTooBig` | values, errors and parts of any length and number |
| `TracerLifecycleProofs!SpansFit` | `Bytes(c) <= PacketBytes` | every call with values of any length, errors up to 2000 bytes, six messages or two sub-messages |
| `TestnetFilesProofs!OneGenesis` | `Spec => []GenesesAgree` | any number of validators, of runs and of failures |
| `TestnetFilesProofs!LargerRunsBlock` | `Spec => []OnlyLargerRunsBlock` | the same |
| `TestnetFilesProofs!PeersAreConnected` | `Spec => []PeersConnect` | up to 256 validators |
| `TestnetFilesProofs!PortsDiffer` | `Spec => []SingleHostPorts` | up to 1000 validators |
| `AppProofs!StoresComeWithMigrations` | `Spec => []MigratedWithStores` | every length of the chain, any number of stops |
| `AppProofs!UpgradeTypeCorrect` | `Spec => []TypeOK` | the same |
| `AppProofs!AppDecides` | `ReceiveSpec => []DecidedByApp` | every set of packets, every setting |
| `GenesisProofs!TypesOK` | `SpecG => []TypeOK` | any finite number of validators and delegators, any fees, fractions and lengths of the chains |
| `GenesisProofs!BooksAlwaysBalance` | `SpecG => []BooksBalance` | the same |
| `GenesisProofs!AllArePaidInFull` | `SpecG => []PaidInFull` | the same |
| `GenesisProofs!AllPeriodsReferred` | `SpecG => []PeriodsReferred` | the same |
| `GenesisProofs!NothingEverFromTheFuture` | `SpecG => []NothingFromTheFuture` | the same |
| `GenesisProofs!OnlyJailingEverFails` | `SpecG => []OnlyJailingFails` | the same |
| `GenesisProofs!ChainAlwaysRestarts` | `SpecG => []ChainRestarts` | the same |

The assumptions are the named ones of the modules (numbers are natural, orders list
modules once, there are finitely many validators and delegators); TLC evaluates each of them in a run. Apart from the
bound on `MaxValidators` that `PeersAreConnected` and `PortsDiffer` state as a
hypothesis, nothing else is assumed of a constant, so the bounds of section 3 play
no part in a theorem.

### Tracing

**Types.** `TypeOK` alone is not inductive: to return from a call one must know
that the span of the context exists, that it has a clock, and that the branch
below is the one before. `TypeInv` adds `ContextsLineUp`, which says so:
a work context uses its caller's branch, a branch the next one, and every context in
use refers to spans that were started. All that follows rests on it.

**Events.** `TransInv` adds to `TypeInv` that the log of the
history variable in context `i` is, for a call, that of its caller with the call's own events behind
it, and for the others their own events. A step pushes a context,
pops one or appends to the last; the lemmas `RowsPushed`, `RowsPopped`, `RowsDropped`
and `RowKept` say for each what becomes of the rows, and the proof of
`NextTransInv` has one step per action. The interesting one is the return of a
call: the caller's row must hold with the events appended, which is
associativity of concatenation and needs that failed calls hand their events on,
too. `EventsReported` follows from the invariant in the state before the return.

**Refinement.** `TracingImplementsUntraced` needs no invariant but `TypeInv`: what
the mapping makes of the contexts in use is a function of the stack. `LogsUpTo` folds
them into one log for each branch, and the lemmas on it say what that function does
when the last context gets an event, a work context or a branch comes on top,
and either is left. To enter a traced call and to return from it change no log, and are
stutters of Untraced; each other action is the action of Untraced with its name,
and so is each step of a panic, after which the branch it left cannot be read
(`Unreadable`).

**Spans and time.** The invariant behind `EverySpanSettles` and `CallsNestInTime` is about the calls in
progress: their spans are numbered in the order in which they were started, which is their order in the stack
and, within a context, in the list of decorators that ignore it (`Ordered`, `NewestLast`);
and the span and the clock of a context come together, from one and the same call
below it (`Inherited`). So a call that ends is the newest, the ones below it stay, and parent and
child read one clock. `SpanInv` adds that a span is open exactly if its call is in
progress (`OpenOK`), that a parent is older than its child (`ParentOK`), and that
what happened is in the past of the clock (`PastOK`).

**Gas.** The decorators around the meter of a context are those of the calls that it
runs in (`MetersOK`), whatever branches are in between, and the trace of each of
them is a chain that ends at the reading of the meter (`TracesOK`). Every charge is
recorded by just these, which keeps both.

**Stores.** The layers that a context works through are those of the calls around
it that log their store, up to the nearest branch (`LayersOK`): with it
`WritesAreLogged` is a matter of the one step that writes. `StoreLogsAreNested` says
how logs compare after any number of steps: an operation is recorded by two nested calls or
by neither, because of `LayersOK`, and because no two calls share a span (`CallSpans`, from
`Ordered`). `NestInv` adds to it
that only a layer of a call that logs writes alone leaves out reads (`FlagsOK`), that
a call that logs nothing has an empty log (`Silent`), and the nesting of
all calls that no branch separates, whether or not one was opened since (`NestOK`);
the property itself is not inductive, since a branch that is left makes it speak
of calls again that it did not speak of before.

### The others

**Transactions.** What decides is in the contexts: each that is handed on has the mark of
a simulation if and only if the ante handler set it, and an active span as soon as there is a
trace to belong to (`CtxOK`, `CtxRooted`, for every frame in
`FramesOK` and for the context of the next message in `NextOK`). `OneTrace` follows with
`ParentsOK`. For the events, each frame with an event manager of its own is given the log
that the undecorated application would have had there: that such logs exist, one
behind the other, is `EventsKept`.

**Sub-messages.** That a limited message harms nobody is decided when it starts and must
still be true when it ends, with any number of messages in between. `SubInv` says why: meters are in the
order of the frames, and a limited message has one of its own (`MetersNest`), so a charge
to the running call leaves the meters of all callers below the nearest limit alone; each of them has more left than that
limit (`LimitsNest`); and only the last meter can be exhausted, which it is exactly in a panic
(`GasLeft`). `LimitedLeft` and `UnlimitedLeft` are the two ways to leave a call.
`GasIsExplained` adds that every running call has an open span of its own if the
transaction is traced (`SpansOfFrames`, `NoneUntraced`), and that the decorators around a meter are those of the
calls on it (`LayersOfMeter`).

**Blocks.** The reference is a fold over the order of modules, the program a machine that
stops between any two steps. `BlockInv` relates them: when `n` modules have been
run, the handler's event manager holds what `module.Manager` has after `n` modules,
and while one runs, the first steps of its program have been added, in the event
manager of the caller or of the span, or of the migration inside it (`InBlocker`,
`EventsAfter`). No module that was run is one that panics (`NonePanics`), and the
updates are those of the modules that were run (`UpdatingFirst`). `TraceInv` says that the
spans of the block are trees of the same shape (`Trees`), that the open ones are
those of the stack (`OpenSpans`), and which are marked. A crash forgets all of it, and a restart begins
again with the block that consensus has fixed.

**Lifecycle.** Spans sent, in the packet and in the queue are three ascending
sequences, one behind the other, which with the lost ones make up all that were finished
(`Accounted`). That a success closes without leaving any behind needs that the item that closes the queue is
the last one in it (`ClosesLast`). What a failure leaves behind is then in the queue or the packet,
and neither holds more than it should (`BuffersInv`). A field is at
most 10011 bytes, one that was cut before 5011 (`FieldBounded`), the work context of a
call has 30044 (`WorkBounded`), and each group of decorators keeps within what is
left: that is `SpansFit`, and `BatchesTooBig` puts it to the packets of the reporter.

**Upgrade.** `MigratedWithStores` is about what is committed, but is broken or
kept at the start of a node, in a begin blocker and at the commit. `UpgradeInv` says
what each relies on: upgrade info is for the next height only while the plan is
due (`InfoIsDue`); stores are added only by a new binary whose next block is
the one of the upgrade (`AddsToApply`); and the block in progress has
applied the upgrade exactly if stores were added (`BlockApplies`).

**Acknowledgements.** `ReceiveInv` is `ReceiveTypeOK` with `DecidedByApp`. The lemma
`OnRecvPacketFaithful` is the point: the copy that the decorator may return has
the success and the bytes of the original and is nil only if that was.

**Test network.** `FilesInv` says how far the loops of the command have come: which files are
those of this run (`Written`, `Collected`), which may be left from earlier ones, and that a
gentx in the directory is signed by the account of its own node (`OwnGentxs`). So if all accounts are found
in the genesis, the gentxs are those of this run (`CollectableGentxs`). Two
theorems have a number as hypothesis. `calculateIP` increments one byte, which gives 256
addresses. The first ports of the two grpc servers in `app.toml` are 1000 apart, so with more than 1000 nodes on one
host the `grpc-web` port of one node is the `grpc` port of another.

### Exports and new chains

The seven properties of ZeroHeightExport and Genesis follow from one invariant, `IInv`, which
has a part for each thing that goes on in a chain and its export.

*The books of one validator* are in order (`InOrder`) if every period has the references that it
should have, one for being the last, one for a delegation that started in it, one for a
slash (`Counted`); no two starts or slashes are of the same period, and none is of a later one
than the last (`Apart`); ratios only grow (`Growing`); and what is outstanding covers
the commission, the rewards of the current period and all that the delegations have gained since they
started (`Covered`). `PeriodsReferred` alone is not inductive: that
x/distribution never panics on a count above two needs `Apart`, for
which a start or a slash must always find a fresh period (`Fresh`), as
`IncrementValidatorPeriod` leaves it. With `Covered`, what has been earned is never cut to
what is outstanding (`EarnedFacts`): so a withdrawal never fails, and how much it pays does not
depend on who was paid before. The rewards of a period are divided by the tokens
of a validator, of which each delegation is one, so the sum of what is gained is at most what was shared,
and the rest is lost in the outstanding amount until the export donates it.

*The whole store* is `Sound` for a set of delegations if the books of all validators are in order.
The `Surplus`, the account of the module without its books, is zero in a
chain. Each operation of x/distribution has one lemma on the books of its validator
(`PeriodOrder`, `StartOrder`, `WithdrawOrder`, `CommissionOrder`, `SlashOrder`, `ShareOrder`) and one on the
store (`PeriodSound`, `StartSound`, ...).

*The folds* over validators and delegations have a table of the results for all subsets
(`FoldReached`), and what each step keeps holds of the whole (`FoldKept`). `Commissioned`,
`PaidThose`, `ResetThose` and `Shared` say how far a fold has come: those of `U` were
paid, and what the others will be paid is what it was. That gives `PaidInFull`, whatever the order;
and that the surplus after the commissions is what was refused.

*The parts of the export* pass on what the rest needs (`StoreInv`, `PaymentInv`): what is still
owed (`Owes`), that nothing is refused if nothing was when the invariants were asserted (`NoneRefused`),
then new validators (`AllNew`), then books without rewards that start at height zero (`Renewed`). A
chain can start from these, and from an export for its height, which keeps
all: `BalancesCompared` shows that the comparison which x/distribution makes in its genesis,
cut to coins, fails exactly if a commission was refused, `NothingRefused` that x/crisis finds nothing after
an export for height zero, and `GenesisOrder` that in both apps each module comes after those
that it needs.

### Recursion, and what is only model-checked

Some proofs are about recursive functions: the event logs of the refinement, the
writes in a store log, the events of `module.Manager`, and the folds and sums over sets of the export. That such a function is what its
definition says, and what it gives for every argument, takes an induction. The induction theorems of the
library cannot be instantiated, but one on sets of numbers can be derived from the
well-foundedness of the naturals (`NatWellFounded`), and one on the subsets of a finite set from that of proper
subsets (`FiniteInduction`).

Only model-checked are the liveness properties `BlocksCommitted`, `CommandEnds`, `EveryPacketAcked` and
`ChainGoesOn`, which with fairness and `ENABLED` are beyond the prover. Every safety property that a passing run
checks is a theorem for every value of the constants.

## 6. Disagreements found

1. `branch`: `store.go:12` says that the multistore traces all operations.
   `CacheMultiStore` is promoted from the embedded store, so what is written in a
   cache branch opened inside a traced call is in no log of that call. Calls made
   inside the branch record theirs.
2. `simulation`: `config.go:25` says "Do not trace simulations". The services
   (`sdk_module.go:267`) and the engine (`wasmvm.go:273`) do not look at the
   flag, so a simulated transaction has spans.
3. `async`: `ibc.go:187` and `ibc.go:193` call methods of an acknowledgement that
   may be nil, which is how an application says that it will answer later. Such a packet
   panics and is never received, unless logging is switched off and copying
   is not switched on.

## 7. Not modelled

- The text of logs: where a value is cut (perhaps in the middle of a character), tags taken
  from messages and events, the form of store logs. `safeToJson` (`sdk_module.go:287`) logs
  "marshal error" for results that can be marshalled.
- `wasmvm.go:62`, where a query does not test for a missing context as the other calls
  do: the keepers of wasmd always have one.
- In the export, addresses that cannot be parsed (`log.Fatal`) and errors of closing
  an iterator.
- In the upgrade, the key tables of legacy parameters, which are set once at start.
- The deprecated `BeginBlockTracer` and `EndBlockTracer`, each one traced call, and the methods
  of `TraceModuleManager` that only delegate (but `InitGenesis`).
- The parsing of option values (`config.go`): the flags are what they say.
- The construction of the applications: keepers, routes, the IBC stack, genesis accounts. It
  is a sequence of assignments; its orders and routers, which have consequences, are
  in BlockTracing (begin and end blockers), Genesis, Upgrade (stores) and SubMessages
  (the router). x/crisis asserts its invariants before ten later modules have read their
  genesis, in wasmd before fifteen, although `app.go:671` wants it last; the state of those
  is not in the model.
- `testnet start`, which runs the network of the SDK's tests, and the root
  commands but `appExport`: command wiring and I/O.

## 8. Plan

The modules of section 2 are complete, and the theorems of section 5 cover the
safety properties of all of them. When the code changes:

1. a decorator that is added or asks `IsTraceable` otherwise is an action of TxTracing and a
   group in SpanSize;
2. a module in the orders of an app changes BlockTracing or Genesis, and if it refers to the state of
   x/distribution or is reset in the export, ZeroHeightExport;
3. the disagreements of section 6 have a run each that fails as soon as the code does what
   its comments say, and then becomes a property of the run beside it.
