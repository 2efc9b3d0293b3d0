------------------------------ MODULE Transparency ------------------------------
(***************************************************************************)
(* Tracing with a history variable that runs the undecorated program next  *)
(* to the decorated one.  plain[i] is the event log that the program would *)
(* be appending to in context i: a traced call is a plain function call    *)
(* there, which goes on with the log of its caller and gives it back.      *)
(***************************************************************************)
EXTENDS Tracing

VARIABLE plain

varsH == <<vars, plain>>

InitH == Init /\ plain = << <<>> >>

Popped == SubSeq(plain, 1, Depth - 1)

NextH ==
    \/ \E e \in Event : EmitEvent(e) /\ plain' = [plain EXCEPT ![Depth] = Append(@, e)]
    \/ \E log \in LogSetting : Call(log) /\ plain' = Append(plain, plain[Depth])
    \/ \E failed \in BOOLEAN :
          Return(failed) /\ plain' = [Popped EXCEPT ![Depth - 1] = plain[Depth]]
    \/ OpenBranch /\ plain' = Append(plain, <<>>)
    \/ Commit /\ plain' = [Popped EXCEPT ![Depth - 1] = @ \o plain[Depth]]
    \/ \/ Discard
       \/ UnwindCall
       \/ \E recovered \in BOOLEAN : UnwindBranch(recovered)
      /\ plain' = Popped
    \/ \/ \E amount \in {1, 2} : ConsumeGas(amount) \/ RefundGas(amount)
       \/ \E op \in {"read", "write"}, k \in Key, v \in Value :
             KVStore(op, k, v) \/ Store(op, k, v)
       \/ CallIgnoring
       \/ \E failed \in BOOLEAN : ReturnIgnoring(failed)
       \/ Panic
       \/ Abort
       \/ Done
       \/ Tick
       \/ Terminated
      /\ UNCHANGED plain

SpecH == InitH /\ [][NextH]_varsH

-----------------------------------------------------------------------------
\* No event is lost, doubled or moved: the event manager of a caller or of a
\* cache branch holds what the undecorated program emitted in it, up to the
\* events of the traced calls in progress, which follow in the order of the
\* calls (the new event manager and EmitEvents of tracing.go:42 and 64).
TransparentEvents ==
    /\ Len(plain) = Depth
    /\ \A i \in DOMAIN stack :
          plain[i] = IF stack[i].kind = "call"
                     THEN plain[i - 1] \o stack[i].em
                     ELSE stack[i].em

\* A call that returns reports exactly the events the undecorated program
\* emitted between the call and its return, committed branches included
\* (the event log of tracing.go:55).
Returned == Top.kind = "call" /\ Depth' < Depth /\ spans'[Top.span].state = "finished"

ReportsItsEvents ==
    [][Returned =>
        plain[Depth] = plain[Depth - 1] \o spans'[Top.span].events]_varsH
=============================================================================
