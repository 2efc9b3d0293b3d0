------------------------------- MODULE TxTracing -------------------------------
(***************************************************************************)
(* One transaction, or query, on its way through the decorators of         *)
(* sdk_tracer.go, sdk_module.go, ibc.go, wasm_tracer.go and wasmvm.go: the *)
(* ante handler, then the messages, each a call of a grpc service of a     *)
(* module, which may call other decorated handlers in any order and depth; *)
(* or a query that comes to a service from outside.                        *)
(*                                                                         *)
(* The interplay of three things is modelled: who decides to trace (the    *)
(* flags, and what IsTraceable finds in the context), what a context hands *)
(* on (the active span, the simulation mark, the event manager), and       *)
(* baseapp.runTx (external), which goes on with the context that the ante  *)
(* handler returned.  The module Tracing has the rest of DoWithTracing.    *)
(***************************************************************************)
EXTENDS Naturals, Sequences

CONSTANTS
    Event,
    MaxEvents,            \* of the ante handler, and of each message
    MaxDepth, MaxSpans,   \* calls within calls, and all together
    MaxMsgs

ASSUME BoundsAssumption ==
    MaxEvents \in Nat /\ MaxDepth \in Nat /\ MaxSpans \in Nat /\ MaxMsgs \in Nat

VARIABLES
    mode,      \* runTxMode, or another way to come to a service
    flags,     \* what ReadTracerConfig and the environment say
    phase,     \* what runTx is doing
    stack,     \* the calls in progress, each with the context it runs in
    next,      \* the context the ante handler returned
    spans,     \* every span started for this transaction
    events,    \* what runTx has collected: of the ante handler and of the messages
    emitted,   \* history: the same as the undecorated program emitted it
    msgs       \* messages that were executed

vars == <<mode, flags, phase, stack, next, spans, events, emitted, msgs>>

\* Queries come as ABCI queries or to the gRPC server.
TxModes == {"check", "simulate", "deliver"}
Modes == TxModes \cup {"query", "grpc", "register"}
Flags == [tracerEnabled: BOOLEAN, disableSimulations: BOOLEAN, noTracingService: BOOLEAN,
          noTracingQueryService: BOOLEAN]

\* What is handed on with a context; sdk: there is an sdk.Context in it.
Contexts == [simulation: BOOLEAN, active: Nat, sdk: BOOLEAN]

\* A call in progress.  guarded: its decorator tests IsTraceable; span: its span,
\* 0 if it is not traced; own: it has an event manager of its own, else em is
\* unused and its events go to the call it was made from.
Frames == [guarded: BOOLEAN, span: Nat, ctx: Contexts, own: BOOLEAN, em: Seq(Event)]
Logs == [ante: Seq(Event), msgs: Seq(Event), current: Seq(Event)]

RootCtx == [simulation |-> FALSE, active |-> 0, sdk |-> TRUE]
NoSdkCtx == [RootCtx EXCEPT !.sdk = FALSE]

Init ==
    /\ mode \in Modes
    /\ flags \in Flags
    /\ phase = "start"
    /\ stack = <<>>
    /\ next = RootCtx
    /\ spans = <<>>
    /\ events = [ante |-> <<>>, msgs |-> <<>>]
    /\ emitted = [ante |-> <<>>, msgs |-> <<>>, current |-> <<>>]
    /\ msgs = 0

Depth == Len(stack)
Top == stack[Depth]

\* The contexts of check and simulate transactions and of queries have IsCheckTx set.
isTraceable(simulate) == mode = "deliver" \/ (simulate /\ ~flags.disableSimulations)

IsTraceable(ctx) == isTraceable(ctx.simulation)

-----------------------------------------------------------------------------
(* Decorated calls *)

\* The frame of a call that is made in ctx.  Some callbacks go on in the
\* context of the caller (ignoring): no span and no events for what they call.
Frame(guarded, ctx, traced, ignoring) ==
    LET s == Len(spans) + 1 IN
    [guarded |-> guarded,
     span |-> IF traced THEN s ELSE 0,
     ctx |-> IF traced /\ ~ignoring THEN [ctx EXCEPT !.active = s] ELSE ctx,
     own |-> traced /\ ~ignoring,
     em |-> <<>>]

Started(ctx, traced) ==
    spans' = IF traced THEN Append(spans, [parent |-> ctx.active, state |-> "open"]) ELSE spans

Enter(guarded, traced, ignoring) ==
    /\ phase = "msg"
    /\ Depth < MaxDepth /\ Len(spans) < MaxSpans
    /\ stack' = Append(stack, Frame(guarded, Top.ctx, traced, ignoring))
    /\ Started(Top.ctx, traced)
    /\ UNCHANGED <<mode, flags, phase, next, events, emitted, msgs>>

\* Constructors return the handler itself when the tracer is not enabled.
EnterGuarded(ignoring) ==
    Enter(TRUE, flags.tracerEnabled /\ IsTraceable(Top.ctx), ignoring)

MsgRouter == EnterGuarded(FALSE)
GovRouter == EnterGuarded(FALSE)
DispatchMsg == EnterGuarded(FALSE)
HandleQuery == EnterGuarded(FALSE)
OnChannelHandshake == EnterGuarded(FALSE)
OnAckOrTimeout == EnterGuarded(FALSE)
OnRecvPacket == EnterGuarded(TRUE)

\* These trace whatever the context.
TraceWasmVm == Enter(FALSE, flags.tracerEnabled, TRUE)

ServiceTraced == flags.tracerEnabled /\ ~flags.noTracingService
Service == Enter(FALSE, ServiceTraced, FALSE)

\* The decision of QueryServer, when services are registered, and then of the call.
QueryServiceTraced == ServiceTraced /\ ~flags.noTracingQueryService
QueryService == Enter(FALSE, QueryServiceTraced, FALSE)

\* The call that holds the event manager of the running context.
Holder(st) == CHOOSE i \in DOMAIN st : st[i].own /\ \A j \in (i + 1)..Len(st) : ~st[j].own

Emitting(st, log) == [st EXCEPT ![Holder(st)].em = @ \o log]

EmitEvent(e) ==
    /\ phase \in {"ante", "msg"}
    /\ Len(emitted.current) < MaxEvents
    /\ stack' = Emitting(stack, <<e>>)
    /\ emitted' = [emitted EXCEPT !.current = Append(@, e)]
    /\ UNCHANGED <<mode, flags, phase, next, spans, events, msgs>>

\* The stack when the running call has returned, its events handed on.
Left ==
    LET callers == SubSeq(stack, 1, Depth - 1) IN
    IF Top.own THEN Emitting(callers, Top.em) ELSE callers

Finished ==
    IF Top.span = 0 THEN spans ELSE [spans EXCEPT ![Top.span].state = "finished"]

\* A nested call returns; whether it failed is for its caller to judge.
Return ==
    /\ phase = "msg"
    /\ Depth > 2
    /\ stack' = Left
    /\ spans' = Finished
    /\ UNCHANGED <<mode, flags, phase, next, events, emitted, msgs>>

-----------------------------------------------------------------------------
(* baseapp.runTx *)

\* Mutant: the mark has a key that IsSimulation does not look up.
WithSimulationKeyed(ctx, simulate) ==
    [simulation |-> ctx.simulation, active |-> ctx.active, sdk |-> ctx.sdk,
     simulate |-> simulate]

\* The contexts of simulations are marked for the handlers that come later.
WithSimulation(ctx, simulate) == [ctx EXCEPT !.simulation = simulate]

\* Mutant: the mark is left out.
AnteCtxUnmarked == RootCtx

AnteCtx ==
    IF flags.tracerEnabled /\ isTraceable(mode = "simulate")
    THEN WithSimulation(RootCtx, mode = "simulate")
    ELSE RootCtx

\* The ante handler runs on a branch of the context with a new event manager,
\* the first frame; the decorator, in the second, on its work context.
RunAnte ==
    /\ phase = "start" /\ mode \in TxModes
    /\ phase' = "ante"
    /\ LET traced == flags.tracerEnabled /\ isTraceable(mode = "simulate") IN
       /\ stack' = << [guarded |-> FALSE, span |-> 0, ctx |-> AnteCtx, own |-> TRUE,
                       em |-> <<>>],
                      Frame(TRUE, AnteCtx, traced, FALSE) >>
       /\ Started(AnteCtx, traced)
    /\ UNCHANGED <<mode, flags, next, events, emitted, msgs>>

\* Mutants: the decorator returns the context it was given; runTx's events are
\* read where the decorator handed them on and where they came from.
AnteReturnedRoot == [ctx |-> RootCtx, em |-> stack[Holder(stack)].em]
AnteReturnedTwice == [ctx |-> Top.ctx, em |-> Left[1].em \o stack[Holder(stack)].em]

\* The context the undecorated handler made of its own is what the decorator
\* returns: derived from the work context, event manager included.
AnteReturned == [ctx |-> Top.ctx, em |-> stack[Holder(stack)].em]

AnteOk ==
    /\ phase = "ante"
    /\ next' = AnteReturned.ctx
    /\ events' = [events EXCEPT !.ante = AnteReturned.em]
    /\ emitted' = [emitted EXCEPT !.ante = @ \o emitted.current, !.current = <<>>]
    /\ phase' = IF mode = "check" THEN "done" ELSE "msgs"
    /\ stack' = <<>>
    /\ spans' = Finished
    /\ UNCHANGED <<mode, flags, msgs>>

Lost == [s \in DOMAIN spans |->
            IF spans[s].state = "open" THEN [spans[s] EXCEPT !.state = "lost"] ELSE spans[s]]

\* An error, or a panic that runTx recovers: no events of the ante handler, and
\* of the messages none of those that were executed.
EndFailed(panicked) ==
    /\ phase' = "done"
    /\ events' = [events EXCEPT !.msgs = <<>>]
    /\ emitted' = [emitted EXCEPT !.msgs = <<>>, !.current = <<>>]
    /\ stack' = <<>>
    /\ spans' = IF panicked THEN Lost ELSE Finished
    /\ UNCHANGED <<mode, flags, next, msgs>>

AnteFails(panicked) == phase = "ante" /\ EndFailed(panicked)

\* Every message has a new event manager, the first frame; its handler is a
\* service registered through TraceGRPCServer.
RunMsg ==
    /\ phase = "msgs"
    /\ msgs < MaxMsgs
    /\ phase' = "msg"
    /\ stack' = << [guarded |-> FALSE, span |-> 0, ctx |-> next, own |-> TRUE,
                    em |-> <<>>],
                   Frame(FALSE, next, ServiceTraced, FALSE) >>
    /\ Started(next, ServiceTraced)
    /\ UNCHANGED <<mode, flags, next, events, emitted, msgs>>

MsgOk ==
    /\ phase = "msg" /\ mode \in TxModes
    /\ Depth = 2
    /\ events' = [events EXCEPT !.msgs = @ \o Left[1].em]
    /\ emitted' = [emitted EXCEPT !.msgs = @ \o emitted.current, !.current = <<>>]
    /\ phase' = "msgs"
    /\ stack' = <<>>
    /\ spans' = Finished
    /\ msgs' = msgs + 1
    /\ UNCHANGED <<mode, flags, next>>

MsgFails == phase = "msg" /\ Depth = 2 /\ EndFailed(FALSE)
MsgPanics == phase = "msg" /\ EndFailed(TRUE)

AllMsgsDone ==
    /\ phase = "msgs"
    /\ phase' = "done"
    /\ UNCHANGED <<mode, flags, stack, next, spans, events, emitted, msgs>>

-----------------------------------------------------------------------------
(* Services from outside a transaction *)

\* Mutant: the trace is around the interceptor, not inside.
TracedInOuter(goCtx, interceptor, given) == {goCtx}

\* The context a decorated service is called and traced in, if it is: the interceptor
\* that the server brings may put the context of the query there, or call nothing.
TracedIn(goCtx, interceptor, given) ==
    CASE interceptor = "none" -> {goCtx}
      [] interceptor = "context" -> {given}
      [] interceptor = "noop" -> {}

\* UnwrapSDKContext panics.
Unwrapped(contexts, traced) == traced => \A ctx \in contexts : ctx.sdk

\* MsgServiceRouter calls a new service without a context, for the type of its
\* requests; an interceptor keeps it from doing anything.
Register ==
    /\ phase = "start" /\ mode = "register"
    /\ phase' = IF Unwrapped(TracedIn(NoSdkCtx, "noop", NoSdkCtx), ServiceTraced)
                THEN "done" ELSE "panicked"
    /\ UNCHANGED <<mode, flags, stack, next, spans, events, emitted, msgs>>

\* A query has a context of its own.  GRPCQueryRouter hands it over, the server of
\* RegisterGRPCServer leaves it to an interceptor.
RunQuery ==
    LET contexts == IF mode = "query" THEN TracedIn(RootCtx, "none", RootCtx)
                    ELSE TracedIn(NoSdkCtx, "context", RootCtx)
    IN /\ phase = "start" /\ mode \in {"query", "grpc"}
       /\ IF Unwrapped(contexts, QueryServiceTraced)
          THEN \E ctx \in contexts :
                  /\ phase' = "msg"
                  /\ stack' = << [guarded |-> FALSE, span |-> 0, ctx |-> ctx, own |-> TRUE,
                                  em |-> <<>>],
                                 Frame(FALSE, ctx, QueryServiceTraced, FALSE) >>
                  /\ Started(ctx, QueryServiceTraced)
          ELSE phase' = "panicked" /\ UNCHANGED <<stack, spans>>
       /\ UNCHANGED <<mode, flags, next, events, emitted, msgs>>

\* There are no events in the answer.
QueryOk ==
    /\ phase = "msg" /\ mode \notin TxModes
    /\ Depth = 2
    /\ emitted' = [emitted EXCEPT !.current = <<>>]
    /\ phase' = "done"
    /\ stack' = <<>>
    /\ spans' = Finished
    /\ UNCHANGED <<mode, flags, next, events, msgs>>

Terminated == phase \in {"done", "panicked"} /\ UNCHANGED vars

Nested ==
    \/ MsgRouter \/ GovRouter \/ DispatchMsg \/ HandleQuery \/ OnChannelHandshake
    \/ OnAckOrTimeout \/ OnRecvPacket \/ TraceWasmVm \/ Service \/ QueryService
    \/ Return

Next ==
    \/ RunAnte \/ AnteOk \/ RunMsg \/ MsgOk \/ MsgFails \/ MsgPanics \/ AllMsgsDone
    \/ \E panicked \in BOOLEAN : AnteFails(panicked)
    \/ \E e \in Event : EmitEvent(e)
    \/ Nested
    \/ Register \/ RunQuery \/ QueryOk
    \/ Terminated

Spec == Init /\ [][Next]_vars

-----------------------------------------------------------------------------
(* Properties *)

TypeOK ==
    /\ mode \in Modes /\ flags \in Flags
    /\ phase \in {"start", "ante", "msgs", "msg", "done", "panicked"}
    /\ stack \in Seq(Frames)
    /\ next \in Contexts
    /\ spans \in Seq([parent: Nat, state: {"open", "finished", "lost"}])
    /\ events \in [ante: Seq(Event), msgs: Seq(Event)]
    /\ emitted \in Logs
    /\ msgs \in 0..MaxMsgs

AnteTraced == flags.tracerEnabled /\ isTraceable(mode = "simulate")

\* The handlers that look at the context decide as the ante handler did, which
\* is told by runTx: the mark of WithSimulation reaches them through the context
\* the ante handler returned and through every call in between.
GuardsAgree ==
    \A i \in DOMAIN stack :
        stack[i].guarded => (stack[i].span # 0 <=> AnteTraced)

\* A traced transaction is one trace, and so is a traced query: every span descends
\* from that of the ante handler or of the first service, whatever the calls in
\* between did with their contexts.
OneTrace ==
    \A s \in DOMAIN spans :
        /\ spans[s].parent < s
        /\ AnteTraced \/ (mode \notin TxModes /\ QueryServiceTraced) =>
              (spans[s].parent = 0 <=> s = 1)

\* Wherever a service is traced there is a context to trace it in: not so when it
\* is registered, nor when a query comes to the gRPC server, before the interceptor.
ContextFound ==
    /\ phase # "panicked"
    /\ \A i \in DOMAIN stack : stack[i].ctx.sdk

\* The events in the response are those of the undecorated application: those
\* of the ante handler are taken from the work context it went on with, once.
ResponseFaithful ==
    /\ events.ante = emitted.ante
    /\ events.msgs = emitted.msgs

\* config.go:25 "Do not trace simulations".  Services and wasmvm calls do not
\* look at the flag: sdk_module.go:267, wasmvm.go:273.
SimulationsUntraced ==
    mode = "simulate" /\ flags.disableSimulations => spans = <<>>
=============================================================================
