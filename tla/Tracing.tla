-------------------------------- MODULE Tracing --------------------------------
(***************************************************************************)
(* tracing.go: DoWithTracing around an arbitrary program.                  *)
(*                                                                         *)
(* A program runs in an sdk.Context.  It emits events, uses the store and  *)
(* the gas meter of its context, calls decorated handlers (DoWithTracing), *)
(* opens cache branches (sdk.Context.CacheContext) that it commits or      *)
(* discards, fails with an error, or panics.  Contexts are values that are *)
(* passed down the call stack, so the state is the stack of contexts in    *)
(* use.  Every action is one thing the running program does; the time may  *)
(* advance between any two.                                                *)
(*                                                                         *)
(* Bounds: MaxSteps things the program does before it only returns,        *)
(* MaxSpans spans, MaxTime the last reading of the system clock.           *)
(***************************************************************************)
EXTENDS Integers, Sequences, BlockTimeClock, TraceGasMeter, TracingMultiStore

CONSTANTS
    Event,         \* what a module can emit
    Key, Value,    \* the contents of the store
    AccessGas,     \* what the sdk charges for one store operation
    GasLimit,      \* the limit of the context the program is started with
    BlockTime,     \* the time in the header of the block
    MaxSteps, MaxSpans, MaxTime

ASSUME ConstantsAssumption ==
    /\ AccessGas \in Nat /\ GasLimit \in Nat /\ BlockTime \in Int
    /\ MaxSteps \in Nat /\ MaxSpans \in Nat /\ MaxTime \in Nat
    /\ Value # {}

LogSetting == {"all", "writesOnly", "nothing"}
NoTime == 0      \* the zero time of a span that has not finished

VARIABLES
    stack,    \* the contexts in use, the running one last
    spans,    \* every span ever started, numbered in the order of their start
    stores,   \* stores[b]: what the program reads in cache branch b
    gas,      \* consumed on the sdk gas meter
    sys,      \* the system clock
    mode,     \* "run", "panic", or how it ended: "done", "aborted"
    steps     \* what the program has done so far, for the bound

vars == <<stack, spans, stores, gas, sys, mode, steps>>

(***************************************************************************)
(* A context in use.  kind says where it comes from: the "root" context of *)
(* the caller, the work context of a traced "call", or a cache "branch".   *)
(* span is the span StartSpanFromContext will find (0: none), meters the   *)
(* spans whose TraceGasMeter wraps the gas meter, and ignoring the spans   *)
(* of decorators that run their callback on the caller's context instead   *)
(* of workCtx (TraceIBCHandler.OnRecvPacket, TraceWasmVm), with the clock  *)
(* that is known to them alone.                                            *)
(***************************************************************************)
IgnoringCalls == [span: Nat, clock: Clocks]

Contexts ==
    [kind: {"root", "call", "branch"}, em: Seq(Event), span: Nat,
     clock: Clocks \cup {NoClock}, ms: MultiStores, meters: SUBSET Nat,
     ignoring: Seq(IgnoringCalls)]

Spans ==
    [parent: Nat, log: LogSetting, state: {"open", "finished", "lost"},
     start: Int, finish: Int, errored: BOOLEAN,
     io: Seq({"read", "write"} \X Key), events: Seq(Event),
     application: Seq(GasTraces), storage: Nat]

Depth  == Len(stack)
Top    == stack[Depth]
Caller == stack[Depth - 1]

Init ==
    /\ stack = << [kind |-> "root", em |-> <<>>, span |-> 0, clock |-> NoClock,
                   ms |-> PlainMultiStore(1), meters |-> {}, ignoring |-> <<>>] >>
    /\ spans = <<>>
    /\ stores \in {<<[k \in Key |-> v]>> : v \in Value}
    /\ gas = 0
    /\ sys = 0
    /\ mode = "run"
    /\ steps = 0

-----------------------------------------------------------------------------
(* What the running program does *)

Running == mode = "run"

Step ==
    /\ Running
    /\ steps < MaxSteps
    /\ steps' = steps + 1

EmitEvent(e) ==
    /\ Step
    /\ stack' = [stack EXCEPT ![Depth].em = Append(@, e)]
    /\ UNCHANGED <<spans, stores, gas, sys, mode>>

\* Every TraceGasMeter around the meter of the running context records.
Metered(sp, trace) ==
    [s \in DOMAIN sp |->
        IF s \in Top.meters
        THEN [sp[s] EXCEPT !.application = Append(@, trace)]
        ELSE sp[s]]

Charged(sp, amount)  == Metered(sp, ConsumeGasTrace(amount, gas))
Credited(sp, amount) == Metered(sp, RefundGasTrace(amount, gas))

ConsumeGas(amount) ==
    /\ Step
    /\ spans' = Charged(spans, amount)
    /\ gas' = Consumed(gas, amount)
    /\ mode' = IF OutOfGas(gas', GasLimit) THEN "panic" ELSE "run"
    /\ UNCHANGED <<stack, stores, sys>>

RefundGas(amount) ==
    /\ Step
    /\ spans' = Credited(spans, amount)
    /\ gas' = Refunded(gas, amount)
    /\ mode' = IF RefundRefused(gas, amount) THEN "panic" ELSE "run"
    /\ UNCHANGED <<stack, stores, sys>>

\* The layers of the running context record the operation and charge their
\* own infinite meters.
Recorded(sp, records, charges, op, k) ==
    [s \in DOMAIN sp |->
        [sp[s] EXCEPT !.io = IF s \in records THEN Append(@, <<op, k>>) ELSE @,
                      !.storage = IF s \in charges THEN @ + AccessGas ELSE @]]

Applied(op, k, v) ==
    IF op = "write" THEN [stores EXCEPT ![Top.ms.base][k] = v] ELSE stores

\* sdk.Context.KVStore puts a gaskv on the context's meter around what
\* GetKVStore returns: the operation is paid first, or not done at all.
KVStore(op, k, v) ==
    /\ Step
    /\ gas' = Consumed(gas, AccessGas)
    /\ IF OutOfGas(gas', GasLimit)
       THEN /\ spans' = Charged(spans, AccessGas)
            /\ mode' = "panic"
            /\ UNCHANGED stores
       ELSE /\ spans' = Recorded(Charged(spans, AccessGas),
                                 KVStoreRecords(Top.ms, op), KVStoreCharges(Top.ms), op, k)
            /\ stores' = Applied(op, k, v)
            /\ UNCHANGED mode
    /\ UNCHANGED <<stack, sys>>

\* The multistore's own GetStore is not metered.
Store(op, k, v) ==
    /\ Step
    /\ spans' = Recorded(spans, StoreRecords(Top.ms, op), StoreCharges(Top.ms), op, k)
    /\ stores' = Applied(op, k, v)
    /\ UNCHANGED <<stack, gas, sys, mode>>

-----------------------------------------------------------------------------
(* DoWithTracing *)

NewSpan(log, clock) ==
    [parent |-> Top.span, log |-> log, state |-> "open",
     start |-> TimeOf(clock, sys, BlockTime), finish |-> NoTime, errored |-> FALSE,
     io |-> <<>>, events |-> <<>>, application |-> <<>>, storage |-> 0]

StartSpan(log) ==
    /\ Step
    /\ Len(spans) < MaxSpans
    /\ spans' = Append(spans, NewSpan(log, Top.clock))
    /\ UNCHANGED <<stores, gas, sys, mode>>

WorkCtx(log) ==
    LET s == Len(spans) + 1 IN
    [kind |-> "call", em |-> <<>>, span |-> s,
     clock |-> ClockOf(Top.clock, sys, BlockTime),
     ms |-> IF log = "nothing" THEN Top.ms
            ELSE NewTracingMultiStore(Top.ms, s, log = "writesOnly"),
     meters |-> Top.meters \cup {s}, ignoring |-> <<>>]

\* The callback runs on the context made for it.
Call(log) ==
    /\ StartSpan(log)
    /\ stack' = Append(stack, WorkCtx(log))

\* The callback leaves workCtx alone and runs the decorated handler on the
\* context it was called with.
CallIgnoring ==
    /\ StartSpan("all")
    /\ stack' = [stack EXCEPT ![Depth].ignoring =
                    Append(@, [span |-> Len(spans) + 1,
                               clock |-> ClockOf(Top.clock, sys, BlockTime)])]

\* Mutants: the finish closure is not called, a failed call reports no events.
FinishedNever(span, clock, events, failed) ==
    [span EXCEPT !.errored = failed, !.events = events]
FinishedSilent(span, clock, events, failed) ==
    [span EXCEPT !.state = "finished", !.errored = failed,
                 !.events = IF failed THEN <<>> ELSE events, !.finish = Now(clock, sys)]

Finished(span, clock, events, failed) ==
    [span EXCEPT !.state = "finished", !.errored = failed, !.events = events,
                 !.finish = Now(clock, sys)]

\* Mutants: the events of a failed call are dropped, the caller's events come last.
HandedOnDropping(failed)  == IF failed THEN Caller ELSE [Caller EXCEPT !.em = @ \o Top.em]
HandedOnPrepending(failed) == [Caller EXCEPT !.em = Top.em \o @]

\* The caller's context with the events of the call, whatever the outcome.
HandedOn(failed) == [Caller EXCEPT !.em = @ \o Top.em]

\* The callback returned: tag the error, log the events, hand them to the
\* caller's event manager, finish the span.
Return(failed) ==
    /\ Running
    /\ Top.kind = "call"
    /\ Top.ignoring = <<>>
    /\ spans' = [spans EXCEPT ![Top.span] = Finished(@, Top.clock, Top.em, failed)]
    /\ stack' = [i \in 1..(Depth - 1) |-> IF i = Depth - 1 THEN HandedOn(failed) ELSE stack[i]]
    /\ UNCHANGED <<stores, gas, sys, mode, steps>>

ReturnIgnoring(failed) ==
    /\ Running
    /\ Top.ignoring # <<>>
    /\ LET n == Len(Top.ignoring) IN
       LET call == Top.ignoring[n] IN
       /\ spans' = [spans EXCEPT ![call.span] = Finished(@, call.clock, <<>>, failed)]
       /\ stack' = [stack EXCEPT ![Depth].ignoring = SubSeq(@, 1, n - 1)]
    /\ UNCHANGED <<stores, gas, sys, mode, steps>>

-----------------------------------------------------------------------------
(* sdk.Context.CacheContext (external) *)

BranchCtx ==
    [Top EXCEPT !.kind = "branch", !.em = <<>>, !.ignoring = <<>>,
                !.ms = CacheMultiStore(@)]

OpenBranch ==
    /\ Step
    /\ stack' = Append(stack, BranchCtx)
    /\ stores' = Append(stores, stores[Top.ms.base])
    /\ UNCHANGED <<spans, gas, sys, mode>>

\* writeCache: the events and the writes go to the parent context.
Commit ==
    /\ Running
    /\ Top.kind = "branch"
    /\ Top.ignoring = <<>>
    /\ stack' = [i \in 1..(Depth - 1) |->
                    IF i = Depth - 1
                    THEN [Caller EXCEPT !.em = @ \o Top.em]
                    ELSE stack[i]]
    /\ stores' = [b \in 1..(Len(stores) - 1) |->
                    IF b = Len(stores) - 1 THEN stores[Len(stores)] ELSE stores[b]]
    /\ UNCHANGED <<spans, gas, sys, mode, steps>>

PopBranch ==
    /\ stack' = SubSeq(stack, 1, Depth - 1)
    /\ stores' = SubSeq(stores, 1, Len(stores) - 1)

\* The operation in the branch failed and is not written.
Discard ==
    /\ Running
    /\ Top.kind = "branch"
    /\ Top.ignoring = <<>>
    /\ PopBranch
    /\ UNCHANGED <<spans, gas, sys, mode, steps>>

-----------------------------------------------------------------------------
(* Panics *)

Panic ==
    /\ Step
    /\ mode' = "panic"
    /\ UNCHANGED <<stack, spans, stores, gas, sys>>

\* DoWithTracing defers nothing: the frames of the traced calls a panic passes
\* are left without finishing their spans or handing on their events.
Lost(ids) ==
    [s \in DOMAIN spans |->
        IF s \in ids THEN [spans[s] EXCEPT !.state = "lost"] ELSE spans[s]]

Ignoring(ctx) == {ctx.ignoring[i].span : i \in DOMAIN ctx.ignoring}

UnwindCall ==
    /\ mode = "panic"
    /\ Top.kind = "call"
    /\ spans' = Lost(Ignoring(Top) \cup {Top.span})
    /\ stack' = SubSeq(stack, 1, Depth - 1)
    /\ UNCHANGED <<stores, gas, sys, mode, steps>>

\* Whoever opened a cache branch discards it, and recovers or lets the panic pass.
UnwindBranch(recovered) ==
    /\ mode = "panic"
    /\ Top.kind = "branch"
    /\ PopBranch
    /\ spans' = Lost(Ignoring(Top))
    /\ mode' = IF recovered THEN "run" ELSE "panic"
    /\ UNCHANGED <<gas, sys, steps>>

\* The baseapp recovers at the latest and drops the context.
Abort ==
    /\ mode = "panic"
    /\ Top.kind = "root"
    /\ spans' = Lost(Ignoring(Top))
    /\ mode' = "aborted"
    /\ UNCHANGED <<stack, stores, gas, sys, steps>>

Done ==
    /\ Running
    /\ Top.kind = "root"
    /\ Top.ignoring = <<>>
    /\ mode' = "done"
    /\ UNCHANGED <<stack, spans, stores, gas, sys, steps>>

Tick ==
    /\ Running
    /\ sys < MaxTime
    /\ sys' = sys + 1
    /\ UNCHANGED <<stack, spans, stores, gas, mode, steps>>

Ended == mode \in {"done", "aborted"}

Terminated == Ended /\ UNCHANGED vars

Program ==
    \/ \E e \in Event : EmitEvent(e)
    \/ \E n \in {1, 2} : ConsumeGas(n) \/ RefundGas(n)
    \/ \E op \in {"read", "write"}, k \in Key, v \in Value :
          KVStore(op, k, v) \/ Store(op, k, v)
    \/ \E log \in LogSetting : Call(log)
    \/ CallIgnoring
    \/ OpenBranch
    \/ Panic

Unwinding ==
    \/ UnwindCall
    \/ \E recovered \in BOOLEAN : UnwindBranch(recovered)
    \/ Abort

Next ==
    \/ Program
    \/ \E failed \in BOOLEAN : Return(failed) \/ ReturnIgnoring(failed)
    \/ Commit
    \/ Discard
    \/ Unwinding
    \/ Done
    \/ Tick
    \/ Terminated

Spec == Init /\ [][Next]_vars
-----------------------------------------------------------------------------
(* Properties *)

\* The shape of the state (the records of tracing.go, store.go and gas.go).
TypeOK ==
    /\ stack \in Seq(Contexts) /\ stack # <<>>
    /\ spans \in Seq(Spans)
    /\ stores \in Seq([Key -> Value])
    /\ gas \in Nat /\ sys \in Nat /\ steps \in Nat
    /\ mode \in {"run", "panic", "done", "aborted"}

\* The contexts line up with what they refer to: a work context uses the cache
\* branch of its caller, a branch the next one, the running context the newest,
\* and the spans the contexts are to finish exist and have a clock to do it by.
StoresLineUp ==
    /\ stack[1].kind = "root" /\ stack[1].ms.base = 1
    /\ \A i \in 2..Depth :
          /\ stack[i].kind # "root"
          /\ stack[i].kind = "call" => stack[i].ms.base = stack[i - 1].ms.base
          /\ stack[i].kind = "branch" => stack[i].ms.base = stack[i - 1].ms.base + 1
    /\ \A i \in 1..Depth : stack[i].ms.base >= 1
    /\ Top.ms.base = Len(stores)

Started(calls, n) == \A j \in 1..Len(calls) : calls[j].span \in 1..n

SpansExist ==
    \A i \in 1..Depth :
        /\ stack[i].kind = "call" =>
              stack[i].span \in 1..Len(spans) /\ stack[i].clock # NoClock
        /\ Started(stack[i].ignoring, Len(spans))

ContextsLineUp == StoresLineUp /\ SpansExist

\* A span that was started is open exactly as long as its call is in progress;
\* when the program ended, every span was finished or lost to a panic, none is
\* left dangling (DoWithTracingAsync and its finish closure, tracing.go:47-70).
InProgress ==
    {stack[i].span : i \in {j \in DOMAIN stack : stack[j].kind = "call"}}
        \cup UNION {Ignoring(stack[i]) : i \in DOMAIN stack}

SpansSettle ==
    {s \in DOMAIN spans : spans[s].state = "open"} = IF Ended THEN {} ELSE InProgress

\* In the viewer every call lies within the call that made it: a child starts
\* no earlier than its parent, finishes no later, and the parent is reported
\* only after it.  All of them read one clock, passed on by context.go:54-61.
ChildWithinParent ==
    \A c \in DOMAIN spans :
        /\ spans[c].state = "finished" => spans[c].start <= spans[c].finish
        /\ LET p == spans[c].parent IN
           p # 0 =>
              /\ spans[p].start <= spans[c].start
              /\ spans[p].state = "finished" => spans[c].state # "open"
              /\ spans[p].state = "finished" /\ spans[c].state = "finished" =>
                    spans[c].finish <= spans[p].finish

\* The gas trace of a call accounts for everything the sdk meter went through
\* since the trace began: each entry starts where the one before it ended, and
\* the last one of a call in progress ends at what the meter says now, across
\* nested calls, branches and recovered panics (gas.go:51-59).  A refund that
\* the meter refused moved nothing.
After(trace) ==
    IF trace.refund THEN Refunded(trace.offset, trace.gas)
                    ELSE Consumed(trace.offset, trace.gas)

GasTraceAddsUp ==
    /\ \A s \in DOMAIN spans :
          LET t == spans[s].application IN
          \A i \in 1..(Len(t) - 1) : t[i + 1].offset = After(t[i])
    /\ \A i \in DOMAIN stack :
          LET t == spans[stack[i].span].application IN
          stack[i].kind = "call" /\ t # <<>> => After(t[Len(t)]) = gas

\* A call i encloses the running context when no cache branch is in between.
Encloses(i) == \A j \in i..Depth : stack[j].kind = "call"

WithWrite(writes, rec) == IF rec[1] = "write" THEN Append(writes, rec) ELSE writes

WritesUpTo(io) ==
    LET upTo[i \in 0..Len(io)] == IF i = 0 THEN <<>> ELSE WithWrite(upTo[i - 1], io[i])
    IN  upTo

Writes(io) == WritesUpTo(io)[Len(io)]

Suffix(s, t) == Len(s) <= Len(t) /\ s = SubSeq(t, Len(t) - Len(s) + 1, Len(t))

\* The store log of a call in progress contains that of the calls inside it:
\* their writes are the last writes it recorded and, if both log all
\* operations, their records are its last records (the layers of store.go:33-43
\* hand every operation on, and a layer of setting nothing hides none).
StoreLogsNest ==
    \A i, j \in DOMAIN stack :
        (i < j /\ Encloses(i)) =>
            LET outer == spans[stack[i].span]
                inner == spans[stack[j].span]
            IN  /\ outer.log # "nothing" => Suffix(Writes(inner.io), Writes(outer.io))
                /\ outer.log = "all" /\ inner.log = "all" => Suffix(inner.io, outer.io)

\* A write that reaches the store is recorded, once, by every call that encloses
\* the running context and logs its store at all, and by no other span.
StoreChanges ==
    Running /\ Len(stores') = Len(stores) /\ stores' # stores

RecordedBy(s) ==
    /\ Len(spans'[s].io) = Len(spans[s].io) + 1
    /\ spans'[s].io[Len(spans'[s].io)][1] = "write"

WritesAreTraced ==
    [][StoreChanges =>
        \A s \in DOMAIN spans :
            IF \E i \in DOMAIN stack :
                    /\ stack[i].span = s
                    /\ Encloses(i)
                    /\ spans[s].log # "nothing"
            THEN RecordedBy(s)
            ELSE spans'[s].io = spans[s].io]_vars

\* store.go:12 "TracingMultiStore Multistore that traces all operations": what
\* is written while a call that logs its store runs on its work context is in
\* its log.  Writes in a cache branch opened inside the call are not.
AllWritesTraced ==
    [][StoreChanges =>
        \A i \in DOMAIN stack :
            stack[i].kind = "call" /\ spans[stack[i].span].log # "nothing"
                => RecordedBy(stack[i].span)]_vars

(***************************************************************************)
(* Tracing implements Untraced: leave out the work contexts, and give      *)
(* every branch the events its traced calls have not handed back yet.      *)
(***************************************************************************)
Logged(logs, c) ==
    IF c.kind = "call"
    THEN [logs EXCEPT ![Len(logs)] = @ \o c.em]
    ELSE Append(logs, c.em)

\* One log for each branch, from the contexts up to i.
LogsUpTo(st) ==
    LET upTo[i \in 0..Len(st)] == IF i = 0 THEN <<>> ELSE Logged(upTo[i - 1], st[i])
    IN  upTo

EventsOf(b) == LogsUpTo(stack)[Depth][b]

Unreadable(b) == b = Len(stores) /\ mode \in {"panic", "aborted"}

UntracedCtxs ==
    [b \in DOMAIN stores |->
        [events |-> IF Unreadable(b) THEN <<>> ELSE EventsOf(b), db |-> stores[b]]]

Undecorated == INSTANCE Untraced WITH ctxs <- UntracedCtxs

\* Tracing is transparent: with the traced calls left out, every step is one
\* the undecorated application could have made (README.md:57 is about the app
\* hash errors that follow when this fails).
Transparent == Undecorated!Spec
=============================================================================
