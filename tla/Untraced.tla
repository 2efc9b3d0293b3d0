-------------------------------- MODULE Untraced --------------------------------
(***************************************************************************)
(* What the application does when no handler is decorated: the program of  *)
(* module Tracing with every traced call a plain function call, which      *)
(* changes nothing.  The state is what consensus depends on: the events,   *)
(* the store and the gas of the contexts in use, the running one last.     *)
(***************************************************************************)
EXTENDS Naturals, Sequences

CONSTANTS Event, Key, Value, AccessGas, GasLimit

VARIABLES ctxs, gas, mode

vars == <<ctxs, gas, mode>>

n == Len(ctxs)

Init ==
    /\ ctxs \in {<<[events |-> <<>>, db |-> [k \in Key |-> v]]>> : v \in Value}
    /\ gas = 0
    /\ mode = "run"

\* A panicking context is never looked at again: its events are gone.
Panicking ==
    /\ ctxs' = [ctxs EXCEPT ![n].events = <<>>]
    /\ mode' = "panic"

Emit(e) ==
    /\ mode = "run"
    /\ ctxs' = [ctxs EXCEPT ![n].events = Append(@, e)]
    /\ UNCHANGED <<gas, mode>>

Consume(amount) ==
    /\ mode = "run"
    /\ gas' = gas + amount
    /\ IF gas' > GasLimit THEN Panicking ELSE UNCHANGED <<ctxs, mode>>

Refund(amount) ==
    /\ mode = "run"
    /\ IF amount > gas
       THEN Panicking /\ UNCHANGED gas
       ELSE gas' = gas - amount /\ UNCHANGED <<ctxs, mode>>

Write(k, v) == ctxs' = [ctxs EXCEPT ![n].db[k] = v]

MeteredSet(k, v) ==
    /\ mode = "run"
    /\ gas' = gas + AccessGas
    /\ IF gas' > GasLimit THEN Panicking ELSE Write(k, v) /\ UNCHANGED mode

Set(k, v) == mode = "run" /\ Write(k, v) /\ UNCHANGED <<gas, mode>>

Branch ==
    /\ mode = "run"
    /\ ctxs' = Append(ctxs, [events |-> <<>>, db |-> ctxs[n].db])
    /\ UNCHANGED <<gas, mode>>

Commit ==
    /\ mode = "run"
    /\ n > 1
    /\ ctxs' = [SubSeq(ctxs, 1, n - 1) EXCEPT ![n - 1] =
                    [events |-> @.events \o ctxs[n].events, db |-> ctxs[n].db]]
    /\ UNCHANGED <<gas, mode>>

Discard ==
    /\ mode = "run"
    /\ n > 1
    /\ ctxs' = SubSeq(ctxs, 1, n - 1)
    /\ UNCHANGED <<gas, mode>>

Panic == mode = "run" /\ Panicking /\ UNCHANGED gas

\* The owner of a branch drops it, and recovers or lets the panic pass.
Unwind ==
    /\ mode = "panic"
    /\ n > 1
    /\ \/ ctxs' = SubSeq(ctxs, 1, n - 1) /\ mode' = "run"
       \/ /\ ctxs' = [SubSeq(ctxs, 1, n - 1) EXCEPT ![n - 1].events = <<>>]
          /\ UNCHANGED mode
    /\ UNCHANGED gas

End ==
    /\ n = 1
    /\ \/ mode = "run" /\ mode' = "done"
       \/ mode = "panic" /\ mode' = "aborted"
    /\ UNCHANGED <<ctxs, gas>>

Next ==
    \/ \E e \in Event : Emit(e)
    \/ \E amount \in {1, 2} : Consume(amount) \/ Refund(amount)
    \/ Consume(AccessGas)
    \/ \E k \in Key, v \in Value : MeteredSet(k, v) \/ Set(k, v)
    \/ Branch \/ Commit \/ Discard \/ Panic \/ Unwind \/ End

Spec == Init /\ [][Next]_vars
=============================================================================
