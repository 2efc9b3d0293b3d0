----------------------------- MODULE BlockTracing -----------------------------
(***************************************************************************)
(* TraceModuleManager of sdk_module.go: the begin and end blockers of the  *)
(* modules, run in the order of the nested module.Manager, and migrations  *)
(* that an upgrade handler runs from within a begin blocker.               *)
(*                                                                         *)
(* Around it is a node (external): consensus fixes a block, the block is   *)
(* executed and committed; a crash or a panic stops the process, which     *)
(* executes the block again after a restart, with or without tracing, as   *)
(* the operator likes.  What is committed must not depend on that.         *)
(***************************************************************************)
EXTENDS Naturals, Sequences, FiniteSets, SequencesExt

CONSTANTS
    Module,
    BeginOrder, EndOrder,         \* other.OrderBeginBlockers, other.OrderEndBlockers
    BeginBlockers, EndBlockers,   \* the modules that implement the interfaces
    Programs,                     \* what a blocker may do
    MaxHeight, MaxCrashes

Kinds == {"begin", "end"}
Order == [begin |-> BeginOrder, end |-> EndOrder]
Blockers == [begin |-> BeginBlockers, end |-> EndBlockers]

\* A blocker emits events, runs the migrations of the module manager (when it is
\* the one of x/upgrade), or panics.
ASSUME OrdersAssumption ==
    /\ \A k \in Kinds : Order[k] \in Seq(Module) /\ IsInjective(Order[k])
    /\ \A k \in Kinds : Blockers[k] \subseteq Range(Order[k])
    /\ Programs \subseteq Seq({"emit", "migrate", "panic"})
    /\ MaxHeight \in Nat /\ MaxCrashes \in Nat

\* Spans of no module have this in place of one.
NoModule == "none"
ASSUME NoModuleAssumption == NoModule \notin Module

VARIABLES
    tracerEnabled,
    height,     \* of the last committed block
    block,      \* the block to execute: what each blocker does, and who updates validators
    pc,         \* "idle", "begin" or "end" in a handler, "ended", or "down"
    pos,        \* modules of the order the handler has come to
    todo,       \* what the running blocker has left to do; Waiting between blockers
    stack,      \* event managers in use, each with the span of its call
    updates,    \* validatorUpdates, by the module they come from
    response,   \* of the handlers, for the present block
    spans,      \* of the present block
    crashes

node == <<pos, todo, stack, updates>>
vars == <<tracerEnabled, height, block, pc, node, response, spans, crashes>>

Blocks == [begin: [BeginBlockers -> Programs], end: [EndBlockers -> Programs],
           updating: SUBSET EndBlockers]
NoBlock == <<>>

\* No blocker has this left to do: it marks that none is running.
Waiting == <<"waiting">>
Running == todo # Waiting

Events == [origin: Kinds \cup {"migration"}, module: Module]
Frames == [span: Nat, em: Seq(Events)]
Responses == [begin: Seq(Events), end: Seq(Events), updates: SUBSET Module]
NoResponse == [begin |-> <<>>, end |-> <<>>, updates |-> {}]

OpNames == {"abci_begin_block", "abci_end_block", "module_begin_block", "module_end_block"}
BlockOp == [begin |-> "abci_begin_block", end |-> "abci_end_block"]
ModuleOp == [begin |-> "module_begin_block", end |-> "module_end_block"]
Spans == [op: OpNames, module: Module \cup {NoModule}, parent: Nat,
          finished: BOOLEAN, valset: BOOLEAN]

Init ==
    /\ tracerEnabled \in BOOLEAN
    /\ height = 0
    /\ block = NoBlock
    /\ pc = "idle"
    /\ pos = 0 /\ todo = Waiting /\ stack = <<>> /\ updates = {}
    /\ response = NoResponse
    /\ spans = <<>>
    /\ crashes = 0

Depth == Len(stack)
Current == Order[pc][pos]
InHandler == pc \in Kinds

-----------------------------------------------------------------------------
(* Traced calls; the module Tracing has the rest of them *)

\* The global tracer is a no-op unless it was started.
WithSpan(op, module, parent) ==
    IF tracerEnabled
    THEN Append(spans, [op |-> op, module |-> module, parent |-> parent,
                        finished |-> FALSE, valset |-> FALSE])
    ELSE spans

Called(st, span) == Append(st, [span |-> span, em |-> <<>>])

\* Mutant: the events stay in the event manager of the call.
ReturnedSilent(st) == Front(st)

Returned(st) ==
    [Front(st) EXCEPT ![Len(st) - 1].em = @ \o st[Len(st)].em]

FinishedSpan(s) == IF s = 0 THEN spans ELSE [spans EXCEPT ![s].finished = TRUE]

-----------------------------------------------------------------------------
(* TraceModuleManager *)

\* Both handlers start with a new event manager.
Start(k) ==
    /\ pc' = k
    /\ pos' = 0
    /\ updates' = {}
    /\ spans' = WithSpan(BlockOp[k], NoModule, 0)
    /\ stack' = LET managed == << [span |-> 0, em |-> <<>>] >>
                IN  IF tracerEnabled THEN Called(managed, Len(spans')) ELSE managed
    /\ UNCHANGED <<tracerEnabled, height, block, todo, response, crashes>>

BeginBlock == pc = "idle" /\ block # NoBlock /\ Start("begin")

\* A module without a blocker of this kind is passed over.
SkipModule ==
    /\ InHandler /\ ~Running
    /\ pos < Len(Order[pc])
    /\ Order[pc][pos + 1] \notin Blockers[pc]
    /\ pos' = pos + 1
    /\ UNCHANGED <<tracerEnabled, height, block, pc, todo, stack, updates, response, spans, crashes>>

\* Mutant: the span is a child of the module that ran before, not of the block.
CallModuleChained ==
    /\ InHandler /\ ~Running
    /\ pos < Len(Order[pc])
    /\ LET m == Order[pc][pos + 1] IN
       /\ m \in Blockers[pc]
       /\ todo' = block[pc][m]
       /\ spans' = WithSpan(ModuleOp[pc], m, Len(spans))
       /\ stack' = IF tracerEnabled THEN Called(stack, Len(spans')) ELSE stack
    /\ pos' = pos + 1
    /\ UNCHANGED <<tracerEnabled, height, block, pc, updates, response, crashes>>

CallModule ==
    /\ InHandler /\ ~Running
    /\ pos < Len(Order[pc])
    /\ LET m == Order[pc][pos + 1] IN
       /\ m \in Blockers[pc]
       /\ todo' = block[pc][m]
       /\ spans' = WithSpan(ModuleOp[pc], m, stack[Depth].span)
       /\ stack' = IF tracerEnabled THEN Called(stack, Len(spans')) ELSE stack
    /\ pos' = pos + 1
    /\ UNCHANGED <<tracerEnabled, height, block, pc, updates, response, crashes>>

Doing(op) == InHandler /\ todo # <<>> /\ Head(todo) = op

\* The frames below the call that is running: what the handler set up.
Base == IF tracerEnabled THEN 3 ELSE 1
InMigration == Depth > Base

Emit ==
    /\ Doing("emit")
    /\ stack' = [stack EXCEPT ![Depth].em = Append(@,
                    [origin |-> IF InMigration THEN "migration" ELSE pc, module |-> Current])]
    /\ todo' = Tail(todo)
    /\ UNCHANGED <<tracerEnabled, height, block, pc, pos, updates, response, spans, crashes>>

\* RunMigrations does not look at tracerEnabled, and has the name of the block's
\* own span.  The migrations emit an event.
RunMigrations ==
    /\ Doing("migrate")
    /\ spans' = WithSpan("abci_begin_block", NoModule, stack[Depth].span)
    /\ stack' = Called(stack, IF tracerEnabled THEN Len(spans') ELSE 0)
    /\ todo' = <<"emit", "migrated">> \o Tail(todo)
    /\ UNCHANGED <<tracerEnabled, height, block, pc, pos, updates, response, crashes>>

MigrationsRun ==
    /\ Doing("migrated")
    /\ stack' = Returned(stack)
    /\ spans' = FinishedSpan(stack[Depth].span)
    /\ todo' = Tail(todo)
    /\ UNCHANGED <<tracerEnabled, height, block, pc, pos, updates, response, crashes>>

\* The process ends; the block is not committed.
Stop ==
    /\ pc' = "down"
    /\ pos' = 0 /\ todo' = Waiting /\ stack' = <<>> /\ updates' = {}
    /\ response' = NoResponse
    /\ spans' = <<>>
    /\ UNCHANGED <<tracerEnabled, height, block>>

\* Mutant: the test for earlier updates is not limited to modules that have some.
UpdatesRefusedAlways == updates # {}

\* A second module with validator updates is a panic.
UpdatesRefused == Current \in block.updating /\ updates # {}

Updating == pc = "end" /\ Current \in block.updating

ModuleReturns ==
    /\ InHandler /\ todo = <<>>
    /\ ~(pc = "end" /\ UpdatesRefused)
    /\ updates' = IF Updating THEN {Current} ELSE updates
    /\ stack' = IF tracerEnabled THEN Returned(stack) ELSE stack
    /\ spans' = IF tracerEnabled
                THEN [FinishedSpan(stack[Depth].span) EXCEPT ![stack[Depth].span].valset = Updating]
                ELSE spans
    /\ todo' = Waiting
    /\ UNCHANGED <<tracerEnabled, height, block, pc, pos, response, crashes>>

\* Panics of blockers are not recovered.
Panic ==
    /\ \/ Doing("panic")
       \/ pc = "end" /\ todo = <<>> /\ UpdatesRefused
    /\ Stop
    /\ UNCHANGED crashes

\* The handler returns what the new event manager has been handed.
HandlerReturns ==
    /\ InHandler /\ ~Running
    /\ pos = Len(Order[pc])
    /\ LET managed == IF tracerEnabled THEN Returned(stack)[1].em ELSE stack[1].em
       IN  response' = IF pc = "begin" THEN [response EXCEPT !.begin = managed]
                       ELSE [response EXCEPT !.end = managed, !.updates = updates]
    /\ spans' = FinishedSpan(stack[Depth].span)
    /\ pc' = IF pc = "begin" THEN "begun" ELSE "ended"
    /\ stack' = <<>>
    /\ UNCHANGED <<tracerEnabled, height, block, pos, todo, updates, crashes>>

EndBlock == pc = "begun" /\ Start("end")

-----------------------------------------------------------------------------
(* The node *)

Propose ==
    /\ pc = "idle" /\ block = NoBlock /\ height < MaxHeight
    /\ block' \in Blocks
    /\ UNCHANGED <<tracerEnabled, height, pc, node, response, spans, crashes>>

Commit ==
    /\ pc = "ended"
    /\ height' = height + 1
    /\ block' = NoBlock
    /\ pc' = "idle"
    /\ pos' = 0 /\ updates' = {}
    /\ response' = NoResponse
    /\ spans' = <<>>
    /\ UNCHANGED <<tracerEnabled, todo, stack, crashes>>

Crash ==
    /\ pc # "down"
    /\ crashes < MaxCrashes
    /\ crashes' = crashes + 1
    /\ Stop

Restart ==
    /\ pc = "down"
    /\ pc' = "idle"
    /\ tracerEnabled' \in BOOLEAN
    /\ UNCHANGED <<height, block, node, response, spans, crashes>>

Synced == pc = "idle" /\ block = NoBlock /\ height = MaxHeight /\ UNCHANGED vars

Step ==
    \/ BeginBlock \/ SkipModule \/ CallModule \/ Emit \/ RunMigrations \/ MigrationsRun
    \/ ModuleReturns \/ Panic \/ HandlerReturns \/ EndBlock \/ Commit \/ Restart

Next == Propose \/ Step \/ Crash \/ Synced

\* The node goes on by itself: a call that was begun is carried on, a process
\* that stopped is started again.
Spec == Init /\ [][Next]_vars /\ WF_vars(Step)

-----------------------------------------------------------------------------
(* What module.Manager, without tracing, does with a block *)

\* The event of a step of a blocker: each has one but a panic.
EventOf(k, m, op) == [origin |-> IF op = "migrate" THEN "migration" ELSE k, module |-> m]

\* Those of module m in block b: modules without a blocker have none.
OwnEvents(b, k, m) ==
    IF m \in Blockers[k]
    THEN [i \in DOMAIN b[k][m] |-> EventOf(k, m, b[k][m][i])]
    ELSE <<>>

\* The events of the first modules of the order.
EventsOfFirst(b, k) ==
    LET upTo[n \in 0..Len(Order[k])] ==
            IF n = 0 THEN <<>> ELSE upTo[n - 1] \o OwnEvents(b, k, Order[k][n])
    IN  upTo

ManagerEvents(k) == EventsOfFirst(block, k)[Len(Order[k])]

Halting ==
    \/ \E k \in Kinds : \E m \in Blockers[k] : "panic" \in Range(block[k][m])
    \/ Cardinality(block.updating) > 1

ManagerResponse ==
    [begin |-> ManagerEvents("begin"), end |-> ManagerEvents("end"), updates |-> block.updating]

-----------------------------------------------------------------------------
(* Properties *)

TypeOK ==
    /\ tracerEnabled \in BOOLEAN
    /\ height \in 0..MaxHeight
    /\ block \in Blocks \cup {NoBlock}
    /\ pc \in {"idle", "begin", "begun", "end", "ended", "down"}
    /\ pos \in Nat /\ (InHandler => pos <= Len(Order[pc]))
    /\ todo \in Seq({"emit", "migrate", "migrated", "panic"}) \cup {Waiting}
    /\ stack \in Seq(Frames) /\ Depth <= Base + 1
    /\ updates \in SUBSET Module
    /\ response \in Responses
    /\ spans \in Seq(Spans)
    /\ crashes \in 0..MaxCrashes

\* A block that is ready to be committed has the events and the validator
\* updates module.Manager would have returned, in that order, on nodes with
\* and without tracing and after any number of restarts in between; and it is a
\* block with which module.Manager would not have panicked.
CommitsAsManager ==
    pc = "ended" => ~Halting /\ response = ManagerResponse

\* The trace of a block has one span per blocker, in the order they ran, each
\* the child of the span of its handler, all of them finished; those of
\* migrations are left aside.
OfHandler(k) ==
    {s \in DOMAIN spans : spans[s].op \in {BlockOp[k], ModuleOp[k]} /\ spans[s].module # NoModule}

RootOf(k) == CHOOSE s \in DOMAIN spans : spans[s].op = BlockOp[k] /\ spans[s].parent = 0

RunsBefore(k, m, n) ==
    \E i, j \in DOMAIN Order[k] : i < j /\ Order[k][i] = m /\ Order[k][j] = n

TracesBlock ==
    pc = "ended" /\ tracerEnabled =>
        /\ \A s \in DOMAIN spans : spans[s].finished
        /\ \A k \in Kinds :
            /\ {spans[s].module : s \in OfHandler(k)} = Blockers[k]
            /\ \A s, t \in OfHandler(k) :
                   s < t <=> RunsBefore(k, spans[s].module, spans[t].module)
            /\ \A s \in OfHandler(k) : spans[s].parent = RootOf(k)
        /\ {spans[s].module : s \in {t \in DOMAIN spans : spans[t].valset}} = response.updates

\* Every block with which module.Manager does not panic is committed, however
\* often the node crashes and whichever flag it is started with.
BlocksCommitted ==
    \A h \in 1..MaxHeight :
        (height = h - 1 /\ block # NoBlock /\ ~Halting) ~> (height >= h)
=============================================================================
