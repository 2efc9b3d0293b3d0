------------------------------ MODULE IBCReceive ------------------------------
(***************************************************************************)
(* OnRecvPacket of TraceIBCHandler (ibc.go) between the ibc core, which    *)
(* keeps or discards what the application did by the acknowledgement it    *)
(* gets, and the application (both external).  An application may return   *)
(* no acknowledgement and write it later.  Relayers submit packets as      *)
(* often as they like; core takes each once.                               *)
(***************************************************************************)
CONSTANT Packet

\* The acknowledgements an application may return: nil, or one that has bytes
\* and says whether it is a success.
Nil == [kind |-> "nil"]
Acks == [kind: {"original", "captured"}, success: BOOLEAN, bytes: {"result", "error"}]
AppAcks == {Nil,
            [kind |-> "original", success |-> TRUE, bytes |-> "result"],
            [kind |-> "original", success |-> FALSE, bytes |-> "error"]}

VARIABLES
    flags,      \* the tracer, and what the environment says
    app,        \* what the application returns for each packet
    received,   \* receipts of core
    applied,    \* packets whose effects on the application are kept
    acks,       \* acknowledgements of core, by packet
    panicked    \* packets of which a submission panicked

receiveVars == <<flags, app, received, applied, acks, panicked>>

Flags == [traced: BOOLEAN, no_tracing_ibcreceive: BOOLEAN,
          tracing_ibcreceive_capture: BOOLEAN, no_tracing_ibcreceive_log: BOOLEAN]

ReceiveInit ==
    /\ flags \in Flags
    /\ app \in [Packet -> AppAcks]
    /\ received = {} /\ applied = {}
    /\ acks = [p \in {} |-> "result"]
    /\ panicked = {}

-----------------------------------------------------------------------------
(* TraceIBCHandler *)

Decorated == flags.traced /\ ~flags.no_tracing_ibcreceive

\* Mutant: success is left at its zero value.
newCapturedAckZero(orig) == [orig EXCEPT !.kind = "captured", !.success = FALSE]

newCapturedAck(orig) == [orig EXCEPT !.kind = "captured"]

\* Methods of the acknowledgement are called to copy it and to log it.
AckUsed == flags.tracing_ibcreceive_capture \/ ~flags.no_tracing_ibcreceive_log

\* A call of a method of nil.
Panics(orig) == Decorated /\ orig = Nil /\ AckUsed

\* Mutant: the result is not assigned in the callback.
OnRecvPacketUnset(orig) == IF Decorated THEN Nil ELSE orig

\* What OnRecvPacket returns if it does.
OnRecvPacket(orig) ==
    IF Decorated /\ flags.tracing_ibcreceive_capture THEN newCapturedAck(orig) ELSE orig

-----------------------------------------------------------------------------
(* core.RecvPacket and the application *)

Acked(p) == p \in DOMAIN acks

WithAck(p, bytes) == [q \in DOMAIN acks \cup {p} |-> IF q = p THEN bytes ELSE acks[q]]

\* A transaction with the packet.  Without an acknowledgement, or with that of a
\* success, the branch of the application is written.
RecvPacket(p) ==
    /\ p \notin received
    /\ ~Panics(app[p])
    /\ LET result == OnRecvPacket(app[p]) IN
       /\ applied' = IF result = Nil \/ result.success THEN applied \cup {p} ELSE applied
       /\ acks' = IF result = Nil THEN acks ELSE WithAck(p, result.bytes)
    /\ received' = received \cup {p}
    /\ UNCHANGED <<flags, app, panicked>>

\* A panic discards the transaction with the receipt; the packet may come again.
RecvPacketPanics(p) ==
    /\ p \notin received
    /\ Panics(app[p])
    /\ panicked' = panicked \cup {p}
    /\ UNCHANGED <<flags, app, received, applied, acks>>

\* A packet that was received before is not passed to the application.
RecvPacketAgain(p) == p \in received /\ UNCHANGED receiveVars

\* An application that returned no acknowledgement writes one.
WriteAcknowledgement(p) ==
    /\ p \in received /\ app[p] = Nil /\ ~Acked(p)
    /\ \E bytes \in {"result", "error"} : acks' = WithAck(p, bytes)
    /\ UNCHANGED <<flags, app, received, applied, panicked>>

ReceiveNext == \E p \in Packet :
    RecvPacket(p) \/ RecvPacketPanics(p) \/ RecvPacketAgain(p) \/ WriteAcknowledgement(p)

\* Relayers go on until a packet is received, applications acknowledge what they
\* have taken.
ReceiveSpec ==
    /\ ReceiveInit /\ [][ReceiveNext]_receiveVars
    /\ \A p \in Packet : WF_receiveVars(RecvPacket(p)) /\ WF_receiveVars(WriteAcknowledgement(p))

-----------------------------------------------------------------------------
(* Properties *)

ReceiveTypeOK ==
    /\ flags \in Flags /\ app \in [Packet -> AppAcks]
    /\ received \subseteq Packet /\ applied \subseteq received
    /\ DOMAIN acks \subseteq received /\ \A p \in DOMAIN acks : acks[p] \in {"result", "error"}
    /\ panicked \subseteq Packet

\* Core decides as it would on the acknowledgement of the application: the
\* effects of failures are discarded and no others, and the acknowledgement that
\* goes back has the bytes of the application.
DecidedByApp ==
    \A p \in received :
        /\ p \in applied <=> (app[p] = Nil \/ app[p].success)
        /\ app[p] # Nil => (Acked(p) /\ acks[p] = app[p].bytes)

\* Every packet whose acknowledgement is not nil is received and acknowledged,
\* whatever the flags; the others when nobody looks at their acknowledgement.
EveryPacketAcked ==
    \A p \in Packet : (app[p] # Nil \/ ~Decorated \/ ~AckUsed) ~> Acked(p)

\* ibc.go:24 "a decorator to the ibc module handler that adds call tracing
\* functionality": no submission panics that would not without it.
AddsOnlyTracing == panicked = {}
=============================================================================
