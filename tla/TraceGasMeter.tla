----------------------------- MODULE TraceGasMeter -----------------------------
(***************************************************************************)
(* gas.go: a decorator of the sdk gas meter that records every charge and  *)
(* every refund with the amount that was consumed before it, and then      *)
(* delegates.  The recording comes first, so a charge that runs out of gas *)
(* and a refund that is refused are in the trace although they panic.      *)
(* The decorated sdk meter (external) adds the charge before it compares   *)
(* with the limit, and refuses a refund above what was consumed.           *)
(***************************************************************************)
EXTENDS Integers, Sequences

GasTraces == [gas: Nat, refund: BOOLEAN, offset: Nat]

NewGasTrace(amount, refund, consumed) ==
    [gas |-> amount, refund |-> refund, offset |-> consumed]

\* Mutants: the trace is taken after the charge, a refund is logged as a
\* negative charge.
ConsumeGasTraceLate(amount, consumed) == NewGasTrace(amount, FALSE, consumed + amount)
RefundGasTraceNegative(amount, consumed) == NewGasTrace(-amount, FALSE, consumed)

ConsumeGasTrace(amount, consumed) == NewGasTrace(amount, FALSE, consumed)
RefundGasTrace(amount, consumed)  == NewGasTrace(amount, TRUE, consumed)

\* Mutant: what was consumed since the decorator was made.
GasConsumedSince(consumed, since) == consumed - since

\* Of the decorated meter, and not what the decorator recorded.
GasConsumed(consumed, since) == consumed
Limit(limit) == limit

\* External: the sdk meter the decorators end at.
Consumed(consumed, amount)  == consumed + amount
OutOfGas(consumed, limit)   == consumed > limit
RefundRefused(consumed, amount) == consumed < amount
Refunded(consumed, amount) ==
    IF RefundRefused(consumed, amount) THEN consumed ELSE consumed - amount
=============================================================================
