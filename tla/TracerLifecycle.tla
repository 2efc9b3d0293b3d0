--------------------------- MODULE TracerLifecycle ---------------------------
(***************************************************************************)
(* RunWithTracer and StartTracer of cli.go: the start command opens the    *)
(* tracer before the node runs and closes it when the command has          *)
(* succeeded.  Between the two, finished spans go to the reporter of       *)
(* jaeger-client (external): a queue that drops what does not fit, a       *)
(* goroutine that collects spans into packets, and packets sent by UDP.    *)
(***************************************************************************)
EXTENDS SpanSize, Sequences, SequencesExt

CONSTANTS
    QueueSize,     \* ReporterConfig.QueueSize
    PacketSpans,   \* small spans that fit in a packet
    MaxSpans       \* bound: spans the node finishes

ASSUME SizesAssumption ==
    QueueSize \in Nat \ {0} /\ PacketSpans \in Nat \ {0} /\ MaxSpans \in Nat

VARIABLES
    flagSet,    \* hasTracerFlagSet(cmd)
    phase,      \* of the command: "parsed", "running", "post", "closing", "done"
    failed,     \* the command did not succeed: cobra leaves out PostRun
    tracer,     \* the io.Closer that the two closures share
    queue, packet,
    sent, lost, \* history: spans the agent got, and spans nobody will get
    units       \* of each span finished so far, the share of a packet it takes

reporter == <<queue, packet, sent, lost>>
vars == <<flagSet, phase, failed, tracer, reporter, units>>

CloseItem == 0
SpanIds == 1..MaxSpans
finished == Len(units)
Phases == {"parsed", "running", "post", "closing", "done"}

Init ==
    /\ flagSet \in BOOLEAN
    /\ phase = "parsed"
    /\ failed = FALSE
    /\ tracer = "none"
    /\ queue = <<>> /\ packet = <<>>
    /\ sent = <<>> /\ lost = {}
    /\ units = <<>>

-----------------------------------------------------------------------------
(* The command *)

\* Mutant: the variable is declared again, so that PostRun sees another one.
TracerOpenedShadowed == IF flagSet THEN "none" ELSE tracer

TracerOpened == IF flagSet THEN "open" ELSE tracer

\* RunE.  A tracer that cannot be started is a panic.
RunE ==
    /\ phase = "parsed"
    /\ \/ phase' = "running" /\ tracer' = TracerOpened /\ UNCHANGED failed
       \/ flagSet /\ phase' = "done" /\ failed' = TRUE /\ UNCHANGED tracer
    /\ UNCHANGED <<flagSet, reporter, units>>

\* otherRunE returns; an error, a panic or a kill ends the process at once.
RunEReturns(err) ==
    /\ phase = "running"
    /\ phase' = IF err THEN "done" ELSE "post"
    /\ failed' = err
    /\ UNCHANGED <<flagSet, tracer, reporter, units>>

\* Mutant: one item more than the queue was made for.
HasRoomForOneMore == Len(queue) <= QueueSize

HasRoom == Len(queue) < QueueSize

\* Mutant: Close is dropped like a span when the queue is full.
CloseWaitsDropped ==
    phase' = "closing" /\ queue' = IF HasRoom THEN Append(queue, CloseItem) ELSE queue

\* Reporter.Close waits for room in the queue, and then for the goroutine.
CloseWaits == HasRoom /\ queue' = Append(queue, CloseItem) /\ phase' = "closing"

PostRun ==
    /\ phase = "post"
    /\ IF tracer = "open" THEN CloseWaits ELSE phase' = "done" /\ UNCHANGED queue
    /\ UNCHANGED <<flagSet, failed, tracer, packet, sent, lost, units>>

Closed ==
    /\ phase = "closing" /\ tracer = "closed"
    /\ phase' = "done"
    /\ UNCHANGED <<flagSet, failed, tracer, reporter, units>>

-----------------------------------------------------------------------------
(* jaeger-client *)

\* The share of a packet, in small spans and rounded up; more than all of it is
\* too much.
TooBig == PacketSpans + 1
Units(c) == Min({(Bytes(c) * PacketSpans - 1) \div PacketBytes + 1, TooBig})

\* With the flag, every span is sampled; a full queue does not hold up the node.
FinishSpan(c) ==
    /\ phase = "running" /\ flagSet
    /\ finished < MaxSpans
    /\ units' = Append(units, Units(c))
    /\ IF HasRoom
       THEN queue' = Append(queue, finished + 1) /\ UNCHANGED lost
       ELSE lost' = lost \cup {finished + 1} /\ UNCHANGED queue
    /\ UNCHANGED <<flagSet, phase, failed, tracer, packet, sent>>

\* A packet may get lost on its way.
Flushed(arrives) ==
    IF arrives THEN sent' = sent \o packet /\ UNCHANGED lost
    ELSE lost' = lost \cup Range(packet) /\ UNCHANGED sent

Alive == phase # "done" /\ tracer # "closed"

Fits(ids) == SumFunction([i \in DOMAIN ids |-> units[ids[i]]]) <= PacketSpans

\* utils.go:6 "Spans are lost when the log size is too big".
Take ==
    /\ Alive /\ queue # <<>> /\ Head(queue) # CloseItem
    /\ LET id == Head(queue) IN
       CASE ~Fits(<<id>>) -> lost' = lost \cup {id} /\ UNCHANGED <<packet, sent>>
         [] Fits(Append(packet, id)) -> packet' = Append(packet, id) /\ UNCHANGED <<sent, lost>>
         [] OTHER -> packet' = <<id>> /\ \E arrives \in BOOLEAN : Flushed(arrives)
    /\ queue' = Tail(queue)
    /\ UNCHANGED <<flagSet, phase, failed, tracer, units>>

\* The timer ticks, also when there is nothing to send.
Flush ==
    /\ Alive
    /\ \E arrives \in BOOLEAN : Flushed(arrives)
    /\ packet' = <<>>
    /\ UNCHANGED <<flagSet, phase, failed, tracer, queue, units>>

\* Mutant: what was collected for the next packet is forgotten.
CloseFlushesNot == UNCHANGED <<sent, lost>>

CloseFlushes == \E arrives \in BOOLEAN : Flushed(arrives)

TakeClose ==
    /\ Alive /\ queue # <<>> /\ Head(queue) = CloseItem
    /\ CloseFlushes
    /\ packet' = <<>>
    /\ queue' = Tail(queue)
    /\ tracer' = "closed"
    /\ UNCHANGED <<flagSet, phase, failed, units>>

Goroutine == Take \/ Flush \/ TakeClose

Exited == phase = "done" /\ UNCHANGED vars

Next ==
    \/ RunE \/ PostRun \/ Closed \/ Goroutine
    \/ \E c \in CallsOf(Contents) : FinishSpan(c)
    \/ \E err \in BOOLEAN : RunEReturns(err)
    \/ Exited

\* The goroutine of the reporter and the closures of the command go on by
\* themselves; nothing makes the node finish spans or the command return.
Spec == Init /\ [][Next]_vars /\ WF_vars(Goroutine) /\ WF_vars(PostRun \/ Closed)

-----------------------------------------------------------------------------
(* Properties *)

TypeOK ==
    /\ flagSet \in BOOLEAN /\ failed \in BOOLEAN
    /\ phase \in Phases
    /\ tracer \in {"none", "open", "closed"}
    /\ queue \in Seq(SpanIds \cup {CloseItem}) /\ Len(queue) <= QueueSize
    /\ packet \in Seq(SpanIds) /\ Len(packet) <= PacketSpans
    /\ sent \in Seq(SpanIds) /\ lost \in SUBSET SpanIds
    /\ units \in Seq(1..TooBig) /\ finished <= MaxSpans

\* The spans in a queue: the close item, if there is one, is behind all of them.
Queued(items) ==
    IF items # <<>> /\ Last(items) = CloseItem THEN Front(items) ELSE items

\* Every finished span is in one place only: on its way, with the agent or lost;
\* and those that arrive do so in the order they finished in.
SpansAccounted ==
    LET way == sent \o packet \o Queued(queue) IN
    /\ Range(way) \cup lost = 1..finished
    /\ Range(way) \cap lost = {}
    /\ \A i, j \in DOMAIN way : i < j => way[i] < way[j]

\* The limits of utils.go keep the spans of all calls within a packet, unless an
\* error is long, or a transaction has more than six messages or a contract
\* answers with more than two sub-messages that are all long.
OnlyBatchesTooBig ==
    [][\A c \in CallsOf(Contents) :
          FinishSpan(c) /\ Last(units') = TooBig =>
              \/ c.error = Long
              \/ c.op = "ante_handler" /\ c.parts > 6
              \/ c.op = "wasmvm_execute" /\ c.parts > 2]_vars

\* A command that succeeded has closed its tracer, which left no span behind;
\* cli.go:24.  After a failure PostRun is left out, and what the tracer still holds
\* is gone: no more than a packet takes and a queue of spans, however many the node
\* has finished.  All others have been sent or were lost before.
EndLosesLittle ==
    phase = "done" =>
        IF failed
        THEN /\ Fits(packet)
             /\ Cardinality((1..finished) \ (Range(sent \o packet) \cup lost)) <= QueueSize
        ELSE tracer # "open" /\ queue = <<>> /\ packet = <<>>

\* A command whose node has stopped comes to its end, full queue or not.
CommandEnds == phase = "post" ~> phase = "done"
=============================================================================
