------------------------------ MODULE SubMessages ------------------------------
(***************************************************************************)
(* Contracts that send messages: wasmd (external) dispatches each with a   *)
(* gas limit or without, through the decorated messenger of                *)
(* wasm_tracer.go.  A limited message gets a meter of its own, which the   *)
(* decorator wraps; the caller, whose meter is wrapped by the decorators   *)
(* around it, is charged when the message is done.                         *)
(*                                                                         *)
(* The state is the stack of running calls: the transaction, then one      *)
(* frame for each message.  What a call does besides using gas and sending *)
(* messages is left to Tracing.                                            *)
(*                                                                         *)
(* Bound: MaxSteps charges and messages.                                   *)
(***************************************************************************)
EXTENDS TraceGasMeter

CONSTANTS
    TxLimit,    \* the gas limit of the transaction
    Limits,     \* the gas limits of messages
    Amounts,    \* what a contract uses at once
    MaxSteps

ASSUME SubMessagesAssumption ==
    /\ TxLimit \in Nat /\ Limits \subseteq Nat /\ Amounts \subseteq Nat
    /\ MaxSteps \in Nat

NoLimit == -1
Panics  == {"outOfGas", "nilHandler"}
Ended   == {"done", "failed", "aborted"}

VARIABLES
    traced,    \* whether the transaction is
    meters,    \* the sdk meters: that of the transaction, then those of limited messages
    frames,    \* the running calls
    spans,     \* those of the messages, in the order of their start
    mode,      \* "run", "error", a panic, or how it ended
    steps

vars == <<traced, meters, frames, spans, mode, steps>>

\* A running call: its meter, the spans whose TraceGasMeter wraps the meter, the
\* span of the call itself (0: none), whether the meter is its own, and whether
\* the caller goes on when it fails (reply_on).
Frames ==
    [meter: Nat, layers: SUBSET Nat, span: Nat, limited: BOOLEAN, replies: BOOLEAN]

\* start: what the meter had consumed when the span was started.
Spans == [meter: Nat, start: Nat, trace: Seq(GasTraces), state: {"open", "finished", "lost"}]

Depth  == Len(frames)
Top    == frames[Depth]
Caller == frames[Depth - 1]

Init ==
    /\ traced \in BOOLEAN
    /\ meters = << [limit |-> TxLimit, used |-> 0] >>
    /\ frames = << [meter |-> 1, layers |-> {}, span |-> 0, limited |-> FALSE, replies |-> FALSE] >>
    /\ spans = <<>>
    /\ mode = "run"
    /\ steps = 0

Step ==
    /\ mode = "run"
    /\ steps < MaxSteps
    /\ steps' = steps + 1

-----------------------------------------------------------------------------
(* Gas *)

\* What wasmd sees on the meter of a frame, through the decorators around it.
Remaining(frame) ==
    LET m == meters[frame.meter]
        since == IF frame.span = 0 THEN 0 ELSE spans[frame.span].start
    IN Limit(m.limit) - GasConsumed(m.used, since)

\* A charge to the meter of a frame, and what the decorators make of it.
Charged(frame, amount) ==
    [meters EXCEPT ![frame.meter].used = Consumed(@, amount)]
Recorded(frame, amount) ==
    [s \in DOMAIN spans |->
        IF s \in frame.layers
        THEN [spans[s] EXCEPT !.trace =
                Append(@, ConsumeGasTrace(amount, meters[frame.meter].used))]
        ELSE spans[s]]

Exhausts(frame, amount) ==
    OutOfGas(Consumed(meters[frame.meter].used, amount), meters[frame.meter].limit)

ConsumeGas(amount) ==
    /\ Step
    /\ meters' = Charged(Top, amount)
    /\ spans' = Recorded(Top, amount)
    /\ mode' = IF Exhausts(Top, amount) THEN "outOfGas" ELSE "run"
    /\ UNCHANGED <<traced, frames>>

-----------------------------------------------------------------------------
(* Messages *)

\* Mutants: the router is decorated, so that every message has a handler; the
\* decorator puts its meter in the place of those around it.
HandlerFoundAlways(known) == TRUE
LayersReplaced(around, span) == {span}

\* Whether the router that the keepers are given has a handler for a message.
HandlerFound(known) == known

\* The meters around that of the work context.
Layers(around, span) == around \cup {span}

\* The handler of a message runs, or is missing, which is an error.
ModeIn(known) ==
    IF ~HandlerFound(known) THEN "error" ELSE IF known THEN "run" ELSE "nilHandler"

DispatchMsg(limit, known, replies) ==
    LET limited == limit # NoLimit /\ limit < Remaining(Top)
        meter   == IF limited THEN Len(meters) + 1 ELSE Top.meter
        start   == IF limited THEN 0 ELSE meters[meter].used
        around  == IF limited THEN {} ELSE Top.layers
        span    == Len(spans) + 1
    IN
    /\ Step
    /\ meters' = IF limited THEN Append(meters, [limit |-> limit, used |-> 0]) ELSE meters
    /\ spans' = IF traced
                THEN Append(spans, [meter |-> meter, start |-> start, trace |-> <<>>, state |-> "open"])
                ELSE spans
    /\ frames' = Append(frames,
            [meter |-> meter, limited |-> limited, replies |-> replies,
             layers |-> IF traced THEN Layers(around, span) ELSE {},
             span |-> IF traced THEN span ELSE 0])
    /\ mode' = ModeIn(known)
    /\ UNCHANGED traced

\* A contract, or a handler, gives up.
Fail ==
    /\ mode = "run"
    /\ mode' = "error"
    /\ UNCHANGED <<traced, meters, frames, spans, steps>>

\* The caller is charged if the meter was not his, unless another panic passes.
Pays == Top.limited /\ mode # "nilHandler"

\* The top frame is left, its span in the given state.
Leave(state, charge) ==
    LET recorded == IF Pays THEN Recorded(Caller, charge) ELSE spans IN
    /\ Depth > 1
    /\ frames' = SubSeq(frames, 1, Depth - 1)
    /\ spans' = [s \in DOMAIN spans |->
                    IF s = Top.span THEN [recorded[s] EXCEPT !.state = state] ELSE recorded[s]]
    /\ meters' = IF Pays THEN Charged(Caller, charge) ELSE meters
    /\ UNCHANGED <<traced, steps>>

\* What becomes of the caller of a message that failed or did not.
ModeAfter(failed, charge) ==
    IF Pays /\ Exhausts(Caller, charge) THEN "outOfGas"
    ELSE IF failed /\ ~Top.replies THEN "error" ELSE "run"

Return ==
    /\ mode \in {"run", "error"}
    /\ Leave("finished", meters[Top.meter].used)
    /\ mode' = ModeAfter(mode = "error", meters[Top.meter].used)

\* A limited message that runs out of gas is an error, and costs its limit.
Recovers == Top.limited /\ mode = "outOfGas"

Recover ==
    /\ Recovers
    /\ Leave("lost", meters[Top.meter].limit)
    /\ mode' = ModeAfter(TRUE, meters[Top.meter].limit)

\* Every other panic passes.
Unwind ==
    /\ mode \in Panics
    /\ ~Recovers
    /\ Leave("lost", 0)
    /\ UNCHANGED mode

End ==
    /\ Depth = 1
    /\ mode \notin Ended
    /\ mode' = CASE mode = "run" -> "done"
                 [] mode = "error" -> "failed"
                 [] mode \in Panics -> "aborted"
    /\ UNCHANGED <<traced, meters, frames, spans, steps>>

Terminated == mode \in Ended /\ UNCHANGED vars

Next ==
    \/ \E amount \in Amounts : ConsumeGas(amount)
    \/ \E limit \in Limits \cup {NoLimit}, known, replies \in BOOLEAN :
          DispatchMsg(limit, known, replies)
    \/ Fail
    \/ Return
    \/ Recover
    \/ Unwind
    \/ End
    \/ Terminated

Spec == Init /\ [][Next]_vars

-----------------------------------------------------------------------------
(* Properties *)

\* TraceGasMeter, across meters: the entries of a span follow each other from what
\* its meter had consumed at the start, and while it is open they explain all that
\* was consumed since: a limited message is one entry, for what it used or for its
\* limit, and what it did on its own meter is none.
Chained(span) ==
    \A i \in DOMAIN span.trace :
        span.trace[i].offset =
            IF i = 1 THEN span.start ELSE span.trace[i - 1].offset + span.trace[i - 1].gas

TracedUpTo(span) ==
    LET n == Len(span.trace) IN
    IF n = 0 THEN span.start ELSE span.trace[n].offset + span.trace[n].gas

GasExplained ==
    \A s \in DOMAIN spans :
        /\ Chained(spans[s])
        /\ spans[s].state = "open" => TracedUpTo(spans[s]) = meters[spans[s].meter].used

\* TraceGasMeter.Limit and GasConsumed, by which wasmd decides whether a message
\* is limited: a message that is costs its caller no more than the limit, and never
\* makes him run out of gas, however deep both are in traced calls.
Leaving == Len(frames') < Len(frames)

LimitProtects ==
    [][Leaving /\ Top.limited =>
        /\ meters'[Caller.meter].used - meters[Caller.meter].used <= meters[Top.meter].limit
        /\ ~OutOfGas(meters'[Caller.meter].used, meters'[Caller.meter].limit)]_vars

\* A transaction panics for no other reason than its own gas: limited messages and
\* messages that nobody handles are errors that the contract can reply to.
AbortsOutOfGas ==
    mode = "aborted" => OutOfGas(meters[1].used, meters[1].limit)
=============================================================================
