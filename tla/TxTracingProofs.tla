---------------------------- MODULE TxTracingProofs ----------------------------
(***************************************************************************)
(* A transaction is traced as its ante handler decided, as one trace, with *)
(* the events of the undecorated application: for every number of messages *)
(* and calls, and whatever the handlers call.                              *)
(***************************************************************************)
EXTENDS TxTracing, TLAPS, SequenceTheorems

-----------------------------------------------------------------------------
(* The inductive invariant *)

\* Whether the transaction, or query, is to be one trace.
TraceRooted == AnteTraced \/ (mode \notin TxModes /\ QueryServiceTraced)

\* A context that is handed on has the mark if the ante handler set it, and an
\* active span that was started.
CtxOK(ctx) ==
    /\ ctx.simulation <=> (AnteTraced /\ mode = "simulate")
    /\ ctx.sdk
    /\ ctx.active \in 0..Len(spans)

CtxRooted(ctx) == TraceRooted => ctx.active # 0

\* Calls run while there is an ante handler, a message or a query, and only then.
CallsInPhase ==
    /\ IF phase \in {"ante", "msg"} THEN Depth >= 2 ELSE Depth = 0
    /\ phase = "ante" => Depth = 2
    /\ phase \in {"ante", "msgs"} => mode \in TxModes
    /\ phase = "msg" /\ mode \in TxModes => msgs < MaxMsgs
    /\ phase # "panicked"

\* A call runs in a good context; if it is guarded, it is traced as decided.
FrameOK(frame) ==
    /\ CtxOK(frame.ctx)
    /\ frame.span \in 0..Len(spans)
    /\ frame.guarded => (frame.span # 0 <=> AnteTraced)

\* The first frame is that of runTx; the calls in it are in the trace.
FramesOK ==
    /\ Depth > 0 => stack[1].own
    /\ \A i \in 1..Depth : FrameOK(stack[i])
    /\ \A i \in 2..Depth : CtxRooted(stack[i].ctx)

\* So does runTx once the ante handler has returned.
NextOK ==
    phase = "msgs" \/ (phase = "msg" /\ mode \in TxModes) => CtxOK(next) /\ CtxRooted(next)

ParentsOK ==
    /\ phase = "start" => Len(spans) = 0
    /\ \A s \in 1..Len(spans) :
          /\ spans[s].parent < s
          /\ TraceRooted => (spans[s].parent = 0 <=> s = 1)

\* Each call up to i has a holder of its events.
Held(st, i) == \E h \in 1..i : st[h].own /\ \A j \in (h + 1)..i : ~st[j].own

OwnEvents(frame) == IF frame.own THEN frame.em ELSE <<>>

\* logs[i]: the events that calls up to i hold; together they are log.
Kept(st, logs, log) ==
    /\ logs \in [0..Len(st) -> Seq(Event)]
    /\ logs[0] = <<>>
    /\ \A i \in 1..Len(st) : logs[i] = logs[i - 1] \o OwnEvents(st[i])
    /\ logs[Len(st)] = log

EventsKept ==
    /\ \A i \in 1..Depth : Held(stack, i)
    /\ \E logs : Kept(stack, logs, emitted.current)
    /\ phase = "ante" /\ stack[2].own => stack[1].em = <<>>
    /\ phase \in {"start", "ante"} => emitted.ante = <<>> /\ events.ante = <<>>

\* The parts of the invariant that are about spans, and those about events.
SpansInv == TypeOK /\ CallsInPhase /\ FramesOK /\ NextOK /\ ParentsOK
TxInv == SpansInv /\ EventsKept /\ ResponseFaithful

-----------------------------------------------------------------------------
(* Frames and spans *)

SpanRecords == [parent: Nat, state: {"open", "finished", "lost"}]

LEMMA SeqGrown ==
    ASSUME NEW S, NEW s \in Seq(S), NEW x \in S
    PROVE  /\ Append(s, x) \in Seq(S) /\ Len(Append(s, x)) = Len(s) + 1
           /\ \A j \in 1..Len(s) : Append(s, x)[j] = s[j]
           /\ Append(s, x)[Len(s) + 1] = x
  OBVIOUS

LEMMA SeqShortened ==
    ASSUME NEW S, NEW s \in Seq(S), s # <<>>
    PROVE  /\ SubSeq(s, 1, Len(s) - 1) \in Seq(S)
           /\ Len(SubSeq(s, 1, Len(s) - 1)) = Len(s) - 1
           /\ \A j \in 1..(Len(s) - 1) : SubSeq(s, 1, Len(s) - 1)[j] = s[j]
<1>1. Len(s) \in Nat /\ Len(s) >= 1
  OBVIOUS
<1>2. SubSeq(s, 1, Len(s) - 1) \in Seq(S)
  OBVIOUS
<1>3. \A j \in 1..(Len(s) - 1) : SubSeq(s, 1, Len(s) - 1)[j] = s[j]
  OBVIOUS
<1>4. Len(SubSeq(s, 1, Len(s) - 1)) = Len(s) - 1
  BY <1>1
<1>5. QED  BY <1>2, <1>3, <1>4

\* What the proofs of the steps use of the types.
LEMMA TxTypes ==
    ASSUME TypeOK
    PROVE  /\ stack \in Seq(Frames) /\ spans \in Seq(SpanRecords)
           /\ Depth \in Nat /\ Len(spans) \in Nat
           /\ DOMAIN stack = 1..Depth /\ DOMAIN spans = 1..Len(spans)
           /\ \A i \in 1..Depth :
                 /\ stack[i] \in Frames /\ stack[i].ctx \in Contexts
                 /\ stack[i].em \in Seq(Event) /\ stack[i].own \in BOOLEAN
                 /\ stack[i].span \in Nat
           /\ \A s \in 1..Len(spans) : spans[s] \in SpanRecords /\ spans[s].parent \in Nat
           /\ Depth > 0 => Top \in Frames
           /\ next \in Contexts /\ emitted \in Logs /\ events \in [ante: Seq(Event), msgs: Seq(Event)]
           /\ flags \in Flags /\ mode \in Modes
<1>1. /\ stack \in Seq(Frames) /\ spans \in Seq(SpanRecords)
      /\ next \in Contexts /\ emitted \in Logs /\ events \in [ante: Seq(Event), msgs: Seq(Event)]
      /\ flags \in Flags /\ mode \in Modes
  BY DEF TypeOK, SpanRecords
<1>2. /\ Depth \in Nat /\ Len(spans) \in Nat
      /\ DOMAIN stack = 1..Depth /\ DOMAIN spans = 1..Len(spans)
      /\ \A i \in 1..Depth : stack[i] \in Frames
      /\ \A s \in 1..Len(spans) : spans[s] \in SpanRecords
  BY <1>1 DEF Depth
<1>3. Depth > 0 => Top \in Frames
  BY <1>2 DEF Top
<1>4. QED  BY <1>1, <1>2, <1>3 DEF Frames, SpanRecords

\* A call starts its span as a child of the active one, if it is traced.
LEMMA StartedSpans ==
    ASSUME TypeOK, ParentsOK, NEW ctx \in Contexts, CtxOK(ctx),
           NEW traced \in BOOLEAN, Started(ctx, traced),
           UNCHANGED <<mode, flags>>,
           TraceRooted /\ traced => (ctx.active = 0 <=> Len(spans) = 0),
           phase' # "start"
    PROVE  /\ spans' \in Seq(SpanRecords) /\ ParentsOK'
           /\ Len(spans') = IF traced THEN Len(spans) + 1 ELSE Len(spans)
<1> DEFINE span == [parent |-> ctx.active, state |-> "open"]
<1>1. spans \in Seq(SpanRecords) /\ Len(spans) \in Nat /\ ctx.active \in 0..Len(spans)
  BY TxTypes DEF CtxOK
<1>2. span \in SpanRecords /\ span.parent = ctx.active
  BY <1>1 DEF SpanRecords
<1>3. TraceRooted' <=> TraceRooted
  BY DEF TraceRooted, AnteTraced, isTraceable, QueryServiceTraced, ServiceTraced
<1> HIDE DEF span
<1>4. CASE traced
  <2>1. spans' = Append(spans, span)
    BY <1>4 DEF Started, span
  <2>2. /\ spans' \in Seq(SpanRecords) /\ Len(spans') = Len(spans) + 1
        /\ \A s \in 1..Len(spans) : spans'[s] = spans[s]
        /\ spans'[Len(spans) + 1] = span
    BY <1>1, <1>2, <2>1, SeqGrown
  <2>3. ASSUME NEW s \in 1..(Len(spans) + 1)
        PROVE  spans'[s].parent < s /\ (TraceRooted => (spans'[s].parent = 0 <=> s = 1))
    <3>1. CASE s \in 1..Len(spans)
      BY <2>2, <3>1 DEF ParentsOK
    <3>2. CASE s = Len(spans) + 1
      BY <1>1, <1>2, <1>4, <2>2, <3>2
    <3>3. QED  BY <1>1, <3>1, <3>2
  <2>4. ParentsOK'
    BY <1>3, <2>2, <2>3 DEF ParentsOK
  <2>5. QED  BY <1>4, <2>2, <2>4
<1>5. CASE ~traced
  <2>1. spans' = spans
    BY <1>5 DEF Started
  <2>2. QED  BY <1>1, <1>3, <1>5, <2>1 DEF ParentsOK
<1>6. QED  BY <1>4, <1>5

\* The end of a call and of a transaction changes the states of spans alone.
LEMMA EndedSpans ==
    ASSUME TypeOK, ParentsOK, spans' \in {Finished, Lost}, UNCHANGED <<mode, flags>>,
           phase' # "start"
    PROVE  spans' \in Seq(SpanRecords) /\ Len(spans') = Len(spans) /\ ParentsOK'
<1>1. /\ spans \in Seq(SpanRecords) /\ Len(spans) \in Nat /\ DOMAIN spans = 1..Len(spans)
      /\ \A s \in 1..Len(spans) : spans[s] \in SpanRecords
  BY TxTypes
<1>2. \A s \in 1..Len(spans), st \in {"finished", "lost"} :
          /\ [spans[s] EXCEPT !.state = st] \in SpanRecords
          /\ [spans[s] EXCEPT !.state = st].parent = spans[s].parent
  BY <1>1 DEF SpanRecords
<1>3. /\ DOMAIN spans' = 1..Len(spans)
      /\ \A s \in 1..Len(spans) : spans'[s] \in SpanRecords /\ spans'[s].parent = spans[s].parent
  <2>1. CASE spans' = Finished
    BY <1>1, <1>2, <2>1 DEF Finished
  <2>2. CASE spans' = Lost
    BY <1>1, <1>2, <2>2 DEF Lost
  <2>3. QED  BY <2>1, <2>2
<1>4. spans' = [s \in 1..Len(spans) |-> spans'[s]]
  <2>1. spans = [s \in 1..Len(spans) |-> spans[s]]
    BY <1>1
  <2>2. CASE spans' = Finished /\ Top.span = 0
    BY <2>1, <2>2 DEF Finished
  <2>3. CASE spans' = Finished /\ Top.span # 0
    BY <1>1, <2>3 DEF Finished
  <2>4. CASE spans' = Lost
    BY <1>1, <2>4 DEF Lost
  <2>5. QED  BY <2>2, <2>3, <2>4
<1>5. spans' \in [1..Len(spans) -> SpanRecords]
  BY <1>3, <1>4
<1>6. spans' \in Seq(SpanRecords) /\ Len(spans') = Len(spans)
  BY <1>1, <1>5
<1>7. TraceRooted' <=> TraceRooted
  BY DEF TraceRooted, AnteTraced, isTraceable, QueryServiceTraced, ServiceTraced
<1>8. ParentsOK'
  BY <1>3, <1>6, <1>7 DEF ParentsOK
<1>9. QED  BY <1>6, <1>8

-----------------------------------------------------------------------------
(* Events *)

\* The call that holds the events of the running context is found.
LEMMA HolderFound ==
    ASSUME NEW st \in Seq(Frames), Held(st, Len(st))
    PROVE  /\ Holder(st) \in 1..Len(st) /\ st[Holder(st)].own
           /\ \A j \in (Holder(st) + 1)..Len(st) : ~st[j].own
<1>1. DOMAIN st = 1..Len(st)
  OBVIOUS
<1>2. \E h \in DOMAIN st : st[h].own /\ \A j \in (h + 1)..Len(st) : ~st[j].own
  BY <1>1 DEF Held
<1>3. QED  BY <1>1, <1>2 DEF Holder

\* Emitting changes the events of the holder, and no other part of a frame.
LEMMA EmittingFrames ==
    ASSUME NEW st \in Seq(Frames), Held(st, Len(st)), NEW log \in Seq(Event),
           NEW out, out = Emitting(st, log)
    PROVE  /\ out \in Seq(Frames) /\ Len(out) = Len(st)
           /\ \A i \in 1..Len(st) :
                 /\ out[i].guarded = st[i].guarded /\ out[i].span = st[i].span
                 /\ out[i].ctx = st[i].ctx /\ out[i].own = st[i].own
                 /\ out[i].em = IF i = Holder(st) THEN st[i].em \o log ELSE st[i].em
<1> DEFINE h == Holder(st)
           held == [st[h] EXCEPT !.em = st[h].em \o log]
<1>1. h \in 1..Len(st)
  BY HolderFound
<1>2. \A i \in 1..Len(st) : st[i] \in Frames
  OBVIOUS
<1>3. st[h].em \o log \in Seq(Event)
  BY <1>1, <1>2 DEF Frames
<1>4. held \in Frames
  BY <1>1, <1>2, <1>3 DEF Frames
<1>5. /\ held.guarded = st[h].guarded /\ held.span = st[h].span /\ held.ctx = st[h].ctx
      /\ held.own = st[h].own /\ held.em = st[h].em \o log
  BY <1>1, <1>2 DEF Frames
<1>6. out = [st EXCEPT ![h] = held]
  BY DEF Emitting
<1> HIDE DEF h, held
<1>7. /\ out \in Seq(Frames) /\ Len(out) = Len(st)
      /\ \A i \in 1..Len(st) : out[i] = IF i = h THEN held ELSE st[i]
  BY <1>1, <1>4, <1>6
<1>8. QED  BY <1>5, <1>7 DEF h

LEMMA HeldAfterEmitting ==
    ASSUME NEW st \in Seq(Frames), Held(st, Len(st)), NEW log \in Seq(Event),
           \A i \in 1..Len(st) : Held(st, i)
    PROVE  \A i \in 1..Len(st) : Held(Emitting(st, log), i)
<1>1. \A i \in 1..Len(st) : Emitting(st, log)[i].own = st[i].own
  BY EmittingFrames
<1>2. TAKE i \in 1..Len(st)
<1>3. PICK h \in 1..i : st[h].own /\ \A j \in (h + 1)..i : ~st[j].own
  BY DEF Held
<1>4. h \in 1..Len(st) /\ \A j \in (h + 1)..i : j \in 1..Len(st)
  OBVIOUS
<1>5. QED  BY <1>1, <1>3, <1>4 DEF Held

\* What is used of logs that hold the events of a stack.
LEMMA KeptFacts ==
    ASSUME NEW st \in Seq(Frames), NEW log, NEW logs, Kept(st, logs, log)
    PROVE  /\ logs[0] = <<>> /\ logs[Len(st)] = log
           /\ \A i \in 0..Len(st) : logs[i] \in Seq(Event)
<1>1. logs[0] = <<>> /\ logs[Len(st)] = log
  BY Zenon DEF Kept
<1>2. \A i \in 0..Len(st) : logs[i] \in Seq(Event)
  BY DEF Kept
<1>3. QED  BY <1>1, <1>2

LEMMA KeptStep ==
    ASSUME NEW st \in Seq(Frames), NEW log, NEW logs, Kept(st, logs, log),
           NEW i \in 1..Len(st)
    PROVE  logs[i] = logs[i - 1] \o OwnEvents(st[i])
  BY Zenon DEF Kept

LEMMA FrameFacts ==
    ASSUME NEW st \in Seq(Frames)
    PROVE  /\ Len(st) \in Nat
           /\ \A i \in 1..Len(st) :
                 /\ st[i].em \in Seq(Event) /\ st[i].own \in BOOLEAN
                 /\ i \in 0..Len(st) /\ i - 1 \in 0..Len(st)
<1>1. Len(st) \in Nat /\ \A i \in 1..Len(st) : st[i] \in Frames
  OBVIOUS
<1>2. QED  BY <1>1 DEF Frames

LEMMA KeptFrom ==
    ASSUME NEW st, NEW log, NEW n \in Nat, Len(st) = n, NEW logs,
           logs \in [0..n -> Seq(Event)], logs[0] = <<>>, logs[n] = log,
           \A i \in 1..n : logs[i] = logs[i - 1] \o OwnEvents(st[i])
    PROVE  Kept(st, logs, log)
  BY Zenon DEF Kept

LEMMA Regrouped ==
    ASSUME NEW a \in Seq(Event), NEW b \in Seq(Event), NEW c \in Seq(Event)
    PROVE  (a \o b) \o c = a \o (b \o c)
<1>1. \A x, y, z \in Seq(Event) : (x \o y) \o z = x \o (y \o z)
  BY ConcatAssociative, SMTT(40)
<1>2. QED  BY <1>1, Zenon

\* What a call emits is at the end of all that was emitted.
LEMMA KeptEmitting ==
    ASSUME NEW st \in Seq(Frames), Held(st, Len(st)), NEW x \in Seq(Event),
           NEW log, NEW logs, Kept(st, logs, log)
    PROVE  \E more : Kept(Emitting(st, x), more, log \o x)
<1> DEFINE n == Len(st)
           h == Holder(st)
           out == Emitting(st, x)
           more == [i \in 0..n |-> IF i >= h THEN logs[i] \o x ELSE logs[i]]
<1>1. /\ n \in Nat /\ h \in 1..n /\ st[h].own /\ \A j \in (h + 1)..n : ~st[j].own
  BY HolderFound
<1>2. /\ Len(out) = n
      /\ \A i \in 1..n : out[i].own = st[i].own
      /\ \A i \in 1..n : out[i].em = IF i = h THEN st[i].em \o x ELSE st[i].em
  BY EmittingFrames
<1>3. /\ logs[0] = <<>> /\ logs[n] = log
      /\ \A i \in 0..n : logs[i] \in Seq(Event)
  BY KeptFacts
<1>4. \A i \in 0..n : /\ i >= h => more[i] = logs[i] \o x
                      /\ ~(i >= h) => more[i] = logs[i]
  OBVIOUS
<1>5. more \in [0..n -> Seq(Event)]
  <2> SUFFICES ASSUME NEW i \in 0..n
               PROVE  (IF i >= h THEN logs[i] \o x ELSE logs[i]) \in Seq(Event)
    BY Zenon
  <2>1. logs[i] \in Seq(Event)
    BY <1>3
  <2>2. logs[i] \o x \in Seq(Event)
    BY <2>1
  <2>3. QED  BY <2>1, <2>2
<1> HIDE DEF n, h, out, more
<1>6. 0 \in 0..n /\ n \in 0..n /\ ~(0 >= h) /\ n >= h
  BY <1>1
<1>7. more[0] = <<>> /\ more[n] = log \o x
  BY <1>3, <1>4, <1>6, Zenon
<1>8. ASSUME NEW i \in 1..n PROVE more[i] = more[i - 1] \o OwnEvents(out[i])
  <2>1. /\ logs[i - 1] \in Seq(Event) /\ st[i].em \in Seq(Event)
        /\ logs[i] = logs[i - 1] \o OwnEvents(st[i])
        /\ i \in 0..n /\ i - 1 \in 0..n
    <3>1. i \in 0..n /\ i - 1 \in 0..n
      BY <1>1
    <3>2. st[i].em \in Seq(Event)
      BY FrameFacts DEF n
    <3>3. logs[i] = logs[i - 1] \o OwnEvents(st[i])
      BY KeptStep DEF n
    <3>4. QED  BY <1>3, <3>1, <3>2, <3>3, Zenon
  <2>2. CASE i < h
    <3>1. ~(i >= h) /\ ~(i - 1 >= h) /\ i # h
      BY <1>1, <2>2
    <3>2. more[i] = logs[i] /\ more[i - 1] = logs[i - 1]
      BY <1>4, <2>1, <3>1, Zenon
    <3>3. OwnEvents(out[i]) = OwnEvents(st[i])
      BY <1>2, <3>1, Zenon DEF OwnEvents
    <3>4. QED  BY <2>1, <3>2, <3>3, Zenon
  <2>3. CASE i = h
    <3>1. i >= h /\ ~(i - 1 >= h) /\ st[i].own
      BY <1>1, <2>3
    <3>2. more[i] = logs[i] \o x /\ more[i - 1] = logs[i - 1]
      BY <1>4, <2>1, <3>1, Zenon
    <3>3. OwnEvents(out[i]) = st[i].em \o x /\ OwnEvents(st[i]) = st[i].em
      BY <1>2, <2>3, <3>1, Zenon DEF OwnEvents
    <3>4. (logs[i - 1] \o st[i].em) \o x = logs[i - 1] \o (st[i].em \o x)
      BY <2>1, Regrouped
    <3>5. QED  BY <2>1, <3>2, <3>3, <3>4, Zenon
  <2>4. CASE i > h
    <3>1. i >= h /\ i - 1 >= h /\ ~st[i].own /\ i # h
      BY <1>1, <2>4
    <3>2. more[i] = logs[i] \o x /\ more[i - 1] = logs[i - 1] \o x
      BY <1>4, <2>1, <3>1, Zenon
    <3>3. OwnEvents(st[i]) = <<>> /\ OwnEvents(out[i]) = <<>>
      BY <1>2, <3>1, Zenon DEF OwnEvents
    <3>4. logs[i - 1] \o <<>> = logs[i - 1]
      BY <2>1
    <3>5. (logs[i - 1] \o x) \o <<>> = logs[i - 1] \o x
      BY <2>1
    <3>6. QED  BY <2>1, <3>2, <3>3, <3>4, <3>5, Zenon
  <2>5. i < h \/ i = h \/ i > h
    BY <1>1
  <2>6. QED  BY <2>2, <2>3, <2>4, <2>5, Zenon
<1>9. Kept(out, more, log \o x)
  BY <1>1, <1>2, <1>5, <1>7, <1>8, KeptFrom
<1>10. QED  BY <1>9 DEF out

\* A call starts without events.
LEMMA KeptEntering ==
    ASSUME NEW st \in Seq(Frames), NEW frame \in Frames, frame.em = <<>>,
           NEW log, NEW logs, Kept(st, logs, log)
    PROVE  \E more : Kept(Append(st, frame), more, log)
<1> DEFINE n == Len(st)
           out == Append(st, frame)
           more == [i \in 0..(n + 1) |-> IF i = n + 1 THEN log ELSE logs[i]]
<1>1. /\ n \in Nat /\ n + 1 \in Nat /\ Len(out) = n + 1 /\ out[n + 1] = frame
      /\ \A i \in 1..n : out[i] = st[i]
  BY SeqGrown
<1>2. /\ logs[0] = <<>> /\ logs[n] = log
      /\ \A i \in 0..n : logs[i] \in Seq(Event)
  BY KeptFacts
<1>3. log \in Seq(Event)
  BY <1>1, <1>2
<1>4. /\ \A i \in 0..n : more[i] = logs[i]
      /\ more[n + 1] = log
  BY <1>1
<1>5. more \in [0..(n + 1) -> Seq(Event)]
  BY <1>1, <1>2, <1>3
<1> HIDE DEF n, out, more
<1>6. more[0] = <<>> /\ more[n] = log
  <2>1. 0 \in 0..n /\ n \in 0..n
    BY <1>1
  <2>2. QED  BY <1>2, <1>4, <2>1, Zenon
<1>7. OwnEvents(frame) = <<>>
  BY DEF OwnEvents
<1>8. log \o <<>> = log
  BY <1>3
<1>9. ASSUME NEW i \in 1..(n + 1) PROVE more[i] = more[i - 1] \o OwnEvents(out[i])
  <2>1. CASE i = n + 1
    <3>1. i - 1 = n
      BY <1>1, <2>1
    <3>2. QED  BY <1>1, <1>4, <1>6, <1>7, <1>8, <2>1, <3>1, Zenon
  <2>2. CASE i \in 1..n
    <3>1. i \in 0..n /\ i - 1 \in 0..n
      BY <1>1, <2>2
    <3>2. logs[i] = logs[i - 1] \o OwnEvents(st[i])
      BY <2>2, KeptStep DEF n
    <3>3. QED  BY <1>1, <1>4, <2>2, <3>1, <3>2, Zenon
  <2>3. QED  BY <1>1, <2>1, <2>2
<1>10. Kept(out, more, log)
  BY <1>1, <1>4, <1>5, <1>6, <1>9, KeptFrom
<1>11. QED  BY <1>10 DEF out

\* Without its last call a stack holds the events up to it.
LEMMA KeptWithout ==
    ASSUME NEW st \in Seq(Frames), st # <<>>, NEW log, NEW logs, Kept(st, logs, log)
    PROVE  /\ \E less : Kept(SubSeq(st, 1, Len(st) - 1), less, logs[Len(st) - 1])
           /\ logs[Len(st) - 1] \in Seq(Event)
           /\ log = logs[Len(st) - 1] \o OwnEvents(st[Len(st)])
<1> DEFINE n == Len(st) - 1
           out == SubSeq(st, 1, n)
           less == [i \in 0..n |-> logs[i]]
<1>1. Len(st) \in Nat /\ Len(st) >= 1 /\ n \in Nat
  OBVIOUS
<1>2. Len(out) = n /\ \A i \in 1..n : out[i] = st[i]
  BY SeqShortened
<1>3. /\ logs[0] = <<>> /\ logs[Len(st)] = log
      /\ \A i \in 0..Len(st) : logs[i] \in Seq(Event)
  BY KeptFacts
<1>4. \A i \in 0..n : less[i] = logs[i]
  OBVIOUS
<1>5. less \in [0..n -> Seq(Event)]
  BY <1>1, <1>3
<1>6. /\ 0 \in 0..n /\ n \in 0..n /\ Len(st) \in 1..Len(st) /\ n \in 0..Len(st)
      /\ \A i \in 1..n : i \in 1..Len(st) /\ i \in 0..n /\ i - 1 \in 0..n
  BY <1>1
<1>7. log = logs[n] \o OwnEvents(st[Len(st)]) /\ logs[n] \in Seq(Event)
  <2>1. logs[Len(st)] = logs[Len(st) - 1] \o OwnEvents(st[Len(st)])
    BY <1>6, KeptStep, Zenon
  <2>2. QED  BY <1>3, <1>6, <2>1, Zenon
<1> HIDE DEF n, out, less
<1>8. ASSUME NEW i \in 1..n PROVE less[i] = less[i - 1] \o OwnEvents(out[i])
  <2>1. logs[i] = logs[i - 1] \o OwnEvents(st[i])
    BY <1>6, KeptStep, Zenon
  <2>2. QED  BY <1>2, <1>4, <1>6, <2>1, Zenon
<1>9. less[0] = <<>> /\ less[n] = logs[n]
  BY <1>3, <1>4, <1>6, Zenon
<1>10. Kept(out, less, logs[n])
  BY <1>1, <1>2, <1>5, <1>8, <1>9, KeptFrom
<1>11. QED  BY <1>7, <1>10, Zenon DEF out, n

\* A call that returns hands its events on: the stack without it holds as much.
LEMMA LeftKeeps ==
    ASSUME TypeOK, EventsKept, Depth > 1
    PROVE  /\ Left \in Seq(Frames) /\ Len(Left) = Depth - 1
           /\ \A i \in 1..(Depth - 1) :
                 /\ Left[i].guarded = stack[i].guarded /\ Left[i].span = stack[i].span
                 /\ Left[i].ctx = stack[i].ctx /\ Left[i].own = stack[i].own
           /\ \A i \in 1..(Depth - 1) : Held(Left, i)
           /\ \E logs : Kept(Left, logs, emitted.current)
<1> DEFINE callers == SubSeq(stack, 1, Depth - 1)
<1>1. /\ stack \in Seq(Frames) /\ Depth \in Nat /\ stack # <<>>
      /\ Top \in Frames /\ Top.em \in Seq(Event) /\ Top.own \in BOOLEAN
  <2>1. stack # <<>>
    BY TxTypes DEF Depth
  <2>2. QED  BY <2>1, TxTypes DEF Frames
<1>2. /\ callers \in Seq(Frames) /\ Len(callers) = Depth - 1
      /\ \A i \in 1..(Depth - 1) : callers[i] = stack[i]
  BY <1>1, SeqShortened DEF Depth
<1>3. \A i \in 1..(Depth - 1) : Held(callers, i)
  <2> TAKE i \in 1..(Depth - 1)
  <2>1. i \in 1..Depth
    BY <1>1
  <2>2. PICK h \in 1..i : stack[h].own /\ \A j \in (h + 1)..i : ~stack[j].own
    BY <2>1 DEF EventsKept, Held
  <2>3. h \in 1..(Depth - 1) /\ \A j \in (h + 1)..i : j \in 1..(Depth - 1)
    BY <1>1
  <2>4. QED  BY <1>2, <2>2, <2>3 DEF Held
<1>4. PICK logs : Kept(stack, logs, emitted.current)
  BY DEF EventsKept
<1>5. /\ \E less : Kept(callers, less, logs[Depth - 1])
      /\ logs[Depth - 1] \in Seq(Event)
      /\ emitted.current = logs[Depth - 1] \o OwnEvents(Top)
  BY <1>1, <1>4, KeptWithout DEF Depth, Top
<1> HIDE DEF callers
<1>7. CASE Top.own
  <2>1. Left = Emitting(callers, Top.em)
    BY <1>7 DEF Left, callers
  <2>2. Held(callers, Len(callers)) /\ \A i \in 1..Len(callers) : Held(callers, i)
    BY <1>1, <1>2, <1>3
  <2>3. /\ Left \in Seq(Frames) /\ Len(Left) = Depth - 1
        /\ \A i \in 1..(Depth - 1) :
              /\ Left[i].guarded = callers[i].guarded /\ Left[i].span = callers[i].span
              /\ Left[i].ctx = callers[i].ctx /\ Left[i].own = callers[i].own
    BY <1>1, <1>2, <2>1, <2>2, EmittingFrames
  <2>4. \A i \in 1..(Depth - 1) : Held(Left, i)
    BY <1>1, <1>2, <2>1, <2>2, HeldAfterEmitting
  <2>5. \E more : Kept(Left, more, logs[Depth - 1] \o Top.em)
    BY <1>1, <1>2, <1>5, <2>1, <2>2, KeptEmitting
  <2>6. emitted.current = logs[Depth - 1] \o Top.em
    BY <1>5, <1>7 DEF OwnEvents
  <2>7. QED  BY <1>2, <2>3, <2>4, <2>5, <2>6
<1>8. CASE ~Top.own
  <2>1. Left = callers
    BY <1>8 DEF Left, callers
  <2>2. emitted.current = logs[Depth - 1]
    BY <1>5, <1>8 DEF OwnEvents
  <2>3. QED  BY <1>2, <1>3, <1>5, <2>1, <2>2
<1>9. QED  BY <1>1, <1>7, <1>8

-----------------------------------------------------------------------------
(* Calls *)

\* The flags and the mode are those the transaction came with.
LEMMA SameDecision ==
    ASSUME UNCHANGED <<mode, flags>>
    PROVE  /\ AnteTraced' <=> AnteTraced
           /\ TraceRooted' <=> TraceRooted
  BY DEF TraceRooted, AnteTraced, isTraceable, QueryServiceTraced, ServiceTraced

\* What the context says agrees with what the ante handler found.
LEMMA GuardDecides ==
    ASSUME TypeOK, NEW ctx \in Contexts, CtxOK(ctx)
    PROVE  (flags.tracerEnabled /\ IsTraceable(ctx)) <=> AnteTraced
<1>1. flags.tracerEnabled \in BOOLEAN /\ flags.disableSimulations \in BOOLEAN
  BY TxTypes DEF Flags
<1>2. ctx.simulation \in BOOLEAN /\ (ctx.simulation <=> (AnteTraced /\ mode = "simulate"))
  BY DEF CtxOK, Contexts
<1>3. CASE mode = "simulate"
  BY <1>1, <1>2, <1>3 DEF AnteTraced, IsTraceable, isTraceable
<1>4. CASE mode # "simulate"
  BY <1>1, <1>2, <1>4 DEF AnteTraced, IsTraceable, isTraceable
<1>5. QED  BY <1>3, <1>4

\* The frame of a call, in a good context.
LEMMA FrameMade ==
    ASSUME TypeOK, NEW guarded \in BOOLEAN, NEW ctx \in Contexts, CtxOK(ctx),
           NEW traced \in BOOLEAN, NEW ignoring \in BOOLEAN,
           guarded => (traced <=> AnteTraced)
    PROVE  LET frame == Frame(guarded, ctx, traced, ignoring) IN
           /\ frame \in Frames /\ frame.em = <<>>
           /\ frame.own <=> (traced /\ ~ignoring)
           /\ frame.ctx.simulation = ctx.simulation /\ frame.ctx.sdk = ctx.sdk
           /\ frame.ctx.active \in 0..(IF traced THEN Len(spans) + 1 ELSE Len(spans))
           /\ ctx.active # 0 \/ (traced /\ ~ignoring) => frame.ctx.active # 0
           /\ frame.span \in 0..(IF traced THEN Len(spans) + 1 ELSE Len(spans))
           /\ frame.guarded => (frame.span # 0 <=> AnteTraced)
<1> DEFINE frame == Frame(guarded, ctx, traced, ignoring)
<1>1. Len(spans) \in Nat /\ ctx.active \in 0..Len(spans)
  BY TxTypes DEF CtxOK
<1>2. CASE traced /\ ~ignoring
  <2>1. [ctx EXCEPT !.active = Len(spans) + 1] \in Contexts
    BY <1>1 DEF Contexts
  <2>2. /\ [ctx EXCEPT !.active = Len(spans) + 1].simulation = ctx.simulation
        /\ [ctx EXCEPT !.active = Len(spans) + 1].sdk = ctx.sdk
        /\ [ctx EXCEPT !.active = Len(spans) + 1].active = Len(spans) + 1
    BY DEF Contexts
  <2>3. frame = [guarded |-> guarded, span |-> Len(spans) + 1,
                 ctx |-> [ctx EXCEPT !.active = Len(spans) + 1], own |-> TRUE, em |-> <<>>]
    BY <1>2 DEF Frame
  <2>4. frame \in Frames
    BY <1>1, <2>1, <2>3 DEF Frames
  <2>5. /\ frame.em = <<>> /\ frame.own = TRUE /\ frame.guarded = guarded
        /\ frame.span = Len(spans) + 1 /\ frame.ctx = [ctx EXCEPT !.active = Len(spans) + 1]
    BY <2>3
  <2>6. frame.ctx.active = Len(spans) + 1 /\ frame.ctx.simulation = ctx.simulation /\ frame.ctx.sdk = ctx.sdk
    BY <2>2, <2>5
  <2>7. /\ Len(spans) + 1 # 0
        /\ Len(spans) + 1 \in 0..(IF traced THEN Len(spans) + 1 ELSE Len(spans))
    BY <1>1, <1>2
  <2>8. QED  BY <1>2, <2>4, <2>5, <2>6, <2>7, Zenon
<1>3. CASE ~(traced /\ ~ignoring)
  <2>1. frame = [guarded |-> guarded, span |-> IF traced THEN Len(spans) + 1 ELSE 0,
                 ctx |-> ctx, own |-> FALSE, em |-> <<>>]
    BY <1>3 DEF Frame
  <2>2. frame \in Frames
    BY <1>1, <2>1 DEF Frames
  <2>3. /\ frame.em = <<>> /\ frame.own = FALSE /\ frame.guarded = guarded
        /\ frame.span = IF traced THEN Len(spans) + 1 ELSE 0
        /\ frame.ctx = ctx
    BY <2>1
  <2>4. /\ frame.span # 0 <=> traced
        /\ frame.span \in 0..(IF traced THEN Len(spans) + 1 ELSE Len(spans))
        /\ ctx.active \in 0..(IF traced THEN Len(spans) + 1 ELSE Len(spans))
    BY <1>1, <2>3
  <2>5. QED  BY <1>3, <2>2, <2>3, <2>4, Zenon
<1>4. QED  BY <1>2, <1>3

\* Frames are good as long as they were, whatever spans are started.
LEMMA FrameStays ==
    ASSUME TypeOK, UNCHANGED <<mode, flags>>, NEW frame \in Frames, FrameOK(frame),
           NEW same, same.ctx = frame.ctx, same.span = frame.span,
           same.guarded = frame.guarded,
           Len(spans') \in Nat, Len(spans') >= Len(spans)
    PROVE  /\ same.ctx.simulation <=> (AnteTraced' /\ mode' = "simulate")
           /\ same.ctx.sdk
           /\ same.ctx.active \in 0..Len(spans')
           /\ same.span \in 0..Len(spans')
           /\ same.guarded => (same.span # 0 <=> AnteTraced')
<1>1. Len(spans) \in Nat /\ (AnteTraced' <=> AnteTraced) /\ mode' = mode
  BY TxTypes, SameDecision
<1>2. frame.ctx.active \in 0..Len(spans') /\ frame.span \in 0..Len(spans')
  BY <1>1 DEF FrameOK, CtxOK
<1>3. /\ frame.ctx.simulation <=> (AnteTraced' /\ mode' = "simulate")
      /\ frame.ctx.sdk
      /\ frame.guarded => (frame.span # 0 <=> AnteTraced')
  BY <1>1 DEF FrameOK, CtxOK
<1>4. QED  BY <1>2, <1>3, Zenon

\* A call within calls.
LEMMA EnterStep ==
    ASSUME TxInv, NEW guarded \in BOOLEAN, NEW traced \in BOOLEAN, NEW ignoring \in BOOLEAN,
           guarded => (traced <=> AnteTraced), Enter(guarded, traced, ignoring)
    PROVE  TxInv'
<1> DEFINE frame == Frame(guarded, Top.ctx, traced, ignoring)
<1>1. TypeOK /\ CallsInPhase /\ FramesOK /\ NextOK /\ ParentsOK /\ EventsKept /\ ResponseFaithful
  BY DEF TxInv, SpansInv
<1>2. /\ phase = "msg" /\ stack' = Append(stack, frame) /\ Started(Top.ctx, traced)
      /\ UNCHANGED <<mode, flags, phase, next, events, emitted, msgs>>
  BY DEF Enter
<1>3. /\ stack \in Seq(Frames) /\ spans \in Seq(SpanRecords)
      /\ Depth \in Nat /\ Len(spans) \in Nat /\ emitted \in Logs
      /\ \A i \in 1..Depth : stack[i] \in Frames /\ stack[i].ctx \in Contexts
  BY <1>1, TxTypes
<1>4. Depth >= 2 /\ Depth \in 1..Depth /\ Depth \in 2..Depth
  BY <1>1, <1>2, <1>3 DEF CallsInPhase
<1>5. Top.ctx \in Contexts /\ CtxOK(Top.ctx) /\ CtxRooted(Top.ctx)
  BY <1>1, <1>3, <1>4 DEF Top, FramesOK, FrameOK
<1>6. TraceRooted => (Top.ctx.active = 0 <=> Len(spans) = 0)
  BY <1>3, <1>5 DEF CtxOK, CtxRooted
<1>7. /\ spans' \in Seq(SpanRecords) /\ ParentsOK'
      /\ Len(spans') = IF traced THEN Len(spans) + 1 ELSE Len(spans)
  BY <1>1, <1>2, <1>5, <1>6, StartedSpans
<1>8. /\ frame \in Frames /\ frame.em = <<>>
      /\ frame.own <=> (traced /\ ~ignoring)
      /\ frame.ctx.simulation = Top.ctx.simulation /\ frame.ctx.sdk = Top.ctx.sdk
      /\ frame.ctx.active \in 0..Len(spans')
      /\ Top.ctx.active # 0 => frame.ctx.active # 0
      /\ frame.span \in 0..Len(spans')
      /\ frame.guarded => (frame.span # 0 <=> AnteTraced)
  BY <1>1, <1>5, <1>7, FrameMade
<1> HIDE DEF frame
<1>9. /\ stack' \in Seq(Frames) /\ Depth' = Depth + 1 /\ stack'[Depth + 1] = frame
      /\ \A i \in 1..Depth : stack'[i] = stack[i]
  BY <1>2, <1>3, <1>8, SeqGrown DEF Depth
<1>10. Len(spans') \in Nat /\ Len(spans') >= Len(spans)
  BY <1>3, <1>7
<1>11. (AnteTraced' <=> AnteTraced) /\ (TraceRooted' <=> TraceRooted)
  BY <1>2, SameDecision
<1>12. TypeOK'
  BY <1>1, <1>2, <1>7, <1>9 DEF TypeOK, SpanRecords
<1>13. CallsInPhase'
  BY <1>1, <1>2, <1>3, <1>4, <1>9 DEF CallsInPhase
<1>14. FramesOK'
  <2>1. stack'[1].own
    BY <1>1, <1>3, <1>4, <1>9 DEF FramesOK
  <2>2. ASSUME NEW i \in 1..(Depth + 1)
        PROVE  FrameOK(stack[i])' /\ (i > 1 => CtxRooted(stack[i].ctx)')
    <3>1. CASE i \in 1..Depth
      <4>1. stack'[i] = stack[i] /\ stack[i] \in Frames /\ FrameOK(stack[i])
        BY <1>1, <1>3, <1>9, <3>1 DEF FramesOK
      <4>2. FrameOK(stack[i])'
        BY <1>1, <1>2, <1>10, <4>1, FrameStays DEF FrameOK, CtxOK
      <4>3. i > 1 => CtxRooted(stack[i].ctx)
        BY <1>1, <1>3, <3>1 DEF FramesOK
      <4>4. QED  BY <1>11, <4>1, <4>2, <4>3 DEF CtxRooted
    <3>2. CASE i = Depth + 1
      <4>1. stack'[i] = frame
        BY <1>9, <3>2
      <4>2. FrameOK(stack[i])'
        BY <1>2, <1>5, <1>8, <1>11, <4>1 DEF FrameOK, CtxOK
      <4>3. CtxRooted(stack[i].ctx)'
        BY <1>5, <1>8, <1>11, <4>1 DEF CtxRooted
      <4>4. QED  BY <4>2, <4>3
    <3>3. QED  BY <1>3, <3>1, <3>2
  <2>3. QED  BY <1>3, <1>9, <2>1, <2>2, SMTT(40) DEF FramesOK
<1>15. NextOK'
  <2>1. CASE mode \in TxModes
    <3>1. CtxOK(next) /\ CtxRooted(next)
      BY <1>1, <1>2, <2>1 DEF NextOK
    <3>2. QED  BY <1>2, <1>3, <1>10, <1>11, <3>1 DEF NextOK, CtxOK, CtxRooted
  <2>2. CASE mode \notin TxModes
    BY <1>2, <2>2 DEF NextOK
  <2>3. QED  BY <2>1, <2>2
<1>16. EventsKept'
  <2>1. PICK logs : Kept(stack, logs, emitted.current)
    BY <1>1 DEF EventsKept
  <2>2. \E more : Kept(stack', more, emitted.current)
    BY <1>2, <1>3, <1>8, <2>1, KeptEntering
  <2>3. \A i \in 1..Depth' : Held(stack', i)
    <3> SUFFICES ASSUME NEW i \in 1..(Depth + 1) PROVE Held(stack', i)
      BY <1>9
    <3> DEFINE k == IF i = Depth + 1 THEN Depth ELSE i
    <3>1. k \in 1..Depth /\ (i = k \/ i = k + 1)
      BY <1>3, <1>4
    <3>2. PICK h \in 1..k : stack[h].own /\ \A j \in (h + 1)..k : ~stack[j].own
      BY <1>1, <3>1 DEF EventsKept, Held
    <3>3. h \in 1..i /\ h \in 1..Depth /\ stack'[h].own
      BY <1>3, <1>9, <3>1, <3>2
    <3>4. CASE i = k \/ ~frame.own
      <4>1. ASSUME NEW j \in (h + 1)..i PROVE ~stack'[j].own
        <5>1. CASE j \in (h + 1)..k
          <6>1. j \in 1..Depth /\ ~stack[j].own
            BY <1>3, <3>1, <3>2, <5>1
          <6>2. QED  BY <1>9, <6>1
        <5>2. CASE j \notin (h + 1)..k
          <6>1. j = Depth + 1 /\ i # k
            BY <1>3, <3>1, <5>2
          <6>2. QED  BY <1>9, <3>4, <6>1
        <5>3. QED  BY <5>1, <5>2
      <4>2. QED  BY <3>3, <4>1 DEF Held
    <3>5. CASE i # k /\ frame.own
      <4>1. i \in 1..i /\ stack'[i].own /\ \A j \in (i + 1)..i : ~stack'[j].own
        BY <1>3, <1>9, <3>1, <3>5
      <4>2. QED  BY <4>1 DEF Held
    <3>6. QED  BY <3>4, <3>5
  <2>4. QED  BY <1>1, <1>2, <2>2, <2>3 DEF EventsKept
<1>17. ResponseFaithful'
  BY <1>1, <1>2 DEF ResponseFaithful
<1>18. QED  BY <1>7, <1>12, <1>13, <1>14, <1>15, <1>16, <1>17 DEF TxInv, SpansInv

\* An event is held by the call that holds the events of the running context.
LEMMA EmitEventStep ==
    ASSUME TxInv, NEW e \in Event, EmitEvent(e)
    PROVE  TxInv'
<1>1. TypeOK /\ CallsInPhase /\ FramesOK /\ NextOK /\ ParentsOK /\ EventsKept /\ ResponseFaithful
  BY DEF TxInv, SpansInv
<1>2. /\ phase \in {"ante", "msg"} /\ stack' = Emitting(stack, <<e>>)
      /\ emitted' = [emitted EXCEPT !.current = Append(emitted.current, e)]
      /\ UNCHANGED <<mode, flags, phase, next, spans, events, msgs>>
  BY DEF EmitEvent
<1>3. /\ stack \in Seq(Frames) /\ Depth \in Nat /\ emitted \in Logs /\ Len(spans) \in Nat
      /\ \A i \in 1..Depth : stack[i] \in Frames
  BY <1>1, TxTypes
<1>4. Depth >= 2 /\ Depth \in 1..Depth
  BY <1>1, <1>2, <1>3 DEF CallsInPhase
<1>5. /\ \A i \in 1..Len(stack) : Held(stack, i)
      /\ Held(stack, Len(stack)) /\ <<e>> \in Seq(Event)
  BY <1>1, <1>4 DEF EventsKept, Depth
<1>6. /\ stack' \in Seq(Frames) /\ Len(stack') = Len(stack)
      /\ \A i \in 1..Len(stack) :
            /\ stack'[i].guarded = stack[i].guarded /\ stack'[i].span = stack[i].span
            /\ stack'[i].ctx = stack[i].ctx /\ stack'[i].own = stack[i].own
            /\ stack'[i].em = IF i = Holder(stack) THEN stack[i].em \o <<e>> ELSE stack[i].em
  BY <1>2, <1>3, <1>5, EmittingFrames, SMTT(40)
<1>7. (AnteTraced' <=> AnteTraced) /\ (TraceRooted' <=> TraceRooted)
  BY <1>2, SameDecision
<1>8. emitted.current \in Seq(Event) /\ Append(emitted.current, e) \in Seq(Event)
  BY <1>3 DEF Logs
<1>9. /\ emitted' \in Logs /\ emitted'.current = Append(emitted.current, e)
      /\ emitted'.ante = emitted.ante /\ emitted'.msgs = emitted.msgs
  BY <1>2, <1>3, <1>8 DEF Logs
<1>10. TypeOK'
  BY <1>1, <1>2, <1>6, <1>9 DEF TypeOK
<1>11. CallsInPhase'
  BY <1>1, <1>2, <1>6 DEF CallsInPhase, Depth
<1>12. FramesOK'
  <2>1. Depth > 0 => stack'[1].own
    BY <1>1, <1>3, <1>6 DEF FramesOK, Depth
  <2>2. ASSUME NEW i \in 1..Depth PROVE FrameOK(stack[i])'
    <3>1. FrameOK(stack[i]) /\ stack[i] \in Frames
      BY <1>1, <1>3 DEF FramesOK
    <3>2. QED  BY <1>1, <1>2, <1>3, <1>6, <3>1, FrameStays DEF FrameOK, CtxOK, Depth
  <2>3. ASSUME NEW i \in 2..Depth PROVE CtxRooted(stack[i].ctx)'
    BY <1>1, <1>3, <1>6, <1>7 DEF FramesOK, CtxRooted, Depth
  <2>4. QED  BY <1>6, <2>1, <2>2, <2>3 DEF FramesOK, Depth
<1>13. NextOK'
  BY <1>1, <1>2, <1>7 DEF NextOK, CtxOK, CtxRooted
<1>14. ParentsOK'
  BY <1>1, <1>2, <1>7 DEF ParentsOK
<1>15. EventsKept'
  <2>1. \A i \in 1..Len(stack) : Held(stack', i)
    BY <1>2, <1>3, <1>5, HeldAfterEmitting
  <2>2. PICK logs : Kept(stack, logs, emitted.current)
    BY <1>1 DEF EventsKept
  <2>3. \E more : Kept(stack', more, emitted.current \o <<e>>)
    BY <1>2, <1>3, <1>5, <2>2, KeptEmitting
  <2>4. emitted.current \o <<e>> = Append(emitted.current, e)
    BY <1>8
  <2>5. phase = "ante" /\ stack'[2].own => stack'[1].em = <<>>
    <3> SUFFICES ASSUME phase = "ante", stack'[2].own PROVE stack'[1].em = <<>>
      OBVIOUS
    <3>1. Depth = 2 /\ Len(stack) = 2
      BY <1>1 DEF CallsInPhase, Depth
    <3>2. stack[2].own /\ stack[1].em = <<>>
      BY <1>1, <1>6, <3>1 DEF EventsKept
    <3>3. Holder(stack) = 2
      <4>1. /\ Holder(stack) \in 1..Len(stack)
            /\ \A j \in (Holder(stack) + 1)..Len(stack) : ~stack[j].own
        BY <1>3, <1>5, HolderFound
      <4> DEFINE h == Holder(stack)
      <4>2. h \in 1..2 /\ \A j \in (h + 1)..2 : ~stack[j].own
        BY <3>1, <4>1
      <4> HIDE DEF h
      <4>3. h = 2
        BY <3>2, <4>2
      <4>4. QED  BY <4>3 DEF h
    <3>4. QED  BY <1>6, <3>1, <3>2, <3>3
  <2>6. QED  BY <1>1, <1>2, <1>6, <1>9, <2>1, <2>3, <2>4, <2>5 DEF EventsKept, Depth
<1>16. ResponseFaithful'
  BY <1>1, <1>2, <1>9 DEF ResponseFaithful
<1>17. QED
  BY <1>10, <1>11, <1>12, <1>13, <1>14, <1>15, <1>16 DEF TxInv, SpansInv

\* A nested call returns.
LEMMA ReturnStep ==
    ASSUME TxInv, Return
    PROVE  TxInv'
<1>1. TypeOK /\ CallsInPhase /\ FramesOK /\ NextOK /\ ParentsOK /\ EventsKept /\ ResponseFaithful
  BY DEF TxInv, SpansInv
<1>2. /\ phase = "msg" /\ Depth > 2 /\ stack' = Left /\ spans' = Finished
      /\ UNCHANGED <<mode, flags, phase, next, events, emitted, msgs>>
  BY DEF Return
<1>3. /\ stack \in Seq(Frames) /\ Depth \in Nat /\ Len(spans) \in Nat
      /\ \A i \in 1..Depth : stack[i] \in Frames
  BY <1>1, TxTypes
<1>4. /\ stack' \in Seq(Frames) /\ Depth' = Depth - 1
      /\ \A i \in 1..(Depth - 1) :
            /\ stack'[i].guarded = stack[i].guarded /\ stack'[i].span = stack[i].span
            /\ stack'[i].ctx = stack[i].ctx /\ stack'[i].own = stack[i].own
      /\ \A i \in 1..(Depth - 1) : Held(stack', i)
      /\ \E logs : Kept(stack', logs, emitted.current)
  BY <1>1, <1>2, <1>3, LeftKeeps DEF Depth
<1>5. spans' \in Seq(SpanRecords) /\ Len(spans') = Len(spans) /\ ParentsOK'
  BY <1>1, <1>2, EndedSpans
<1>6. (AnteTraced' <=> AnteTraced) /\ (TraceRooted' <=> TraceRooted)
  BY <1>2, SameDecision
<1>7. TypeOK'
  BY <1>1, <1>2, <1>4, <1>5 DEF TypeOK, SpanRecords
<1>8. CallsInPhase'
  BY <1>1, <1>2, <1>3, <1>4 DEF CallsInPhase
<1>9. FramesOK'
  <2>1. stack'[1].own
    BY <1>1, <1>2, <1>3, <1>4 DEF FramesOK
  <2>2. ASSUME NEW i \in 1..(Depth - 1) PROVE FrameOK(stack[i])'
    <3>1. FrameOK(stack[i]) /\ stack[i] \in Frames
      BY <1>1, <1>3 DEF FramesOK
    <3>2. QED  BY <1>1, <1>2, <1>3, <1>4, <1>5, <3>1, FrameStays DEF FrameOK, CtxOK
  <2>3. ASSUME NEW i \in 2..(Depth - 1) PROVE CtxRooted(stack[i].ctx)'
    BY <1>1, <1>3, <1>4, <1>6 DEF FramesOK, CtxRooted
  <2>4. QED  BY <1>4, <2>1, <2>2, <2>3 DEF FramesOK
<1>10. NextOK'
  BY <1>1, <1>2, <1>5, <1>6 DEF NextOK, CtxOK, CtxRooted
<1>11. EventsKept'
  BY <1>1, <1>2, <1>4 DEF EventsKept
<1>12. ResponseFaithful'
  BY <1>1, <1>2 DEF ResponseFaithful
<1>13. QED
  BY <1>5, <1>7, <1>8, <1>9, <1>10, <1>11, <1>12 DEF TxInv, SpansInv

-----------------------------------------------------------------------------
(* runTx *)

\* Between calls nothing is held.
LEMMA NothingHeld ==
    ASSUME TypeOK, EventsKept, Depth = 0
    PROVE  emitted.current = <<>>
<1>1. PICK logs : Kept(stack, logs, emitted.current)
  BY DEF EventsKept
<1>2. logs[0] = <<>> /\ logs[Len(stack)] = emitted.current
  BY <1>1, TxTypes, KeptFacts, ZenonT(40)
<1>3. QED  BY <1>2 DEF Depth

LEMMA KeptNothing ==
    ASSUME NEW st, NEW n \in Nat, Len(st) = n, \A i \in 1..n : st[i].em = <<>>
    PROVE  \E logs : Kept(st, logs, <<>>)
<1> DEFINE logs == [i \in 0..n |-> <<>>]
<1>1. logs \in [0..n -> Seq(Event)] /\ \A i \in 0..n : logs[i] = <<>>
  OBVIOUS
<1>2. \A i \in 1..n : i \in 0..n /\ i - 1 \in 0..n /\ OwnEvents(st[i]) = <<>>
  BY DEF OwnEvents
<1>3. <<>> \o <<>> = <<>>
  OBVIOUS
<1>4. 0 \in 0..n /\ n \in 0..n
  OBVIOUS
<1> HIDE DEF logs
<1>5. \A i \in 1..n : logs[i] = logs[i - 1] \o OwnEvents(st[i])
  BY <1>1, <1>2, <1>3, Zenon
<1>6. logs[0] = <<>> /\ logs[n] = <<>>
  BY <1>1, <1>4, Zenon
<1>7. Kept(st, logs, <<>>)
  BY <1>1, <1>5, <1>6, KeptFrom
<1>8. QED  BY <1>7

\* The first frame is that of runTx, with its event manager.
RunTxFrame(ctx) == [guarded |-> FALSE, span |-> 0, ctx |-> ctx, own |-> TRUE, em |-> <<>>]

LEMMA FirstFrame ==
    ASSUME TypeOK, NEW guarded \in BOOLEAN, NEW ctx \in Contexts, CtxOK(ctx),
           NEW traced \in BOOLEAN, guarded => (traced <=> AnteTraced)
    PROVE  LET frame == Frame(guarded, ctx, traced, FALSE) IN
           /\ frame \in Frames /\ frame.em = <<>>
           /\ frame.ctx.simulation = ctx.simulation /\ frame.ctx.sdk = ctx.sdk
           /\ frame.ctx.active \in 0..(IF traced THEN Len(spans) + 1 ELSE Len(spans))
           /\ ctx.active # 0 \/ traced => frame.ctx.active # 0
           /\ frame.span \in 0..(IF traced THEN Len(spans) + 1 ELSE Len(spans))
           /\ frame.guarded => (frame.span # 0 <=> AnteTraced)
<1> DEFINE ignoring == FALSE
           frame == Frame(guarded, ctx, traced, ignoring)
<1>1. ignoring \in BOOLEAN /\ ~ignoring
  OBVIOUS
<1> HIDE DEF ignoring
<1>2. /\ frame \in Frames /\ frame.em = <<>>
      /\ frame.ctx.simulation = ctx.simulation /\ frame.ctx.sdk = ctx.sdk
      /\ frame.ctx.active \in 0..(IF traced THEN Len(spans) + 1 ELSE Len(spans))
      /\ ctx.active # 0 \/ (traced /\ ~ignoring) => frame.ctx.active # 0
      /\ frame.span \in 0..(IF traced THEN Len(spans) + 1 ELSE Len(spans))
      /\ frame.guarded => (frame.span # 0 <=> AnteTraced)
  BY <1>1, FrameMade
<1>3. QED  BY <1>1, <1>2 DEF ignoring

\* The ante handler, a message or a query is called: the frame of runTx, and the first call.
LEMMA FirstCalls ==
    ASSUME TxInv, Depth = 0, NEW guarded \in BOOLEAN, NEW traced \in BOOLEAN,
           NEW ctx \in Contexts, CtxOK(ctx), guarded => (traced <=> AnteTraced),
           TraceRooted => ctx.active # 0 \/ traced,
           TraceRooted /\ traced => (ctx.active = 0 <=> Len(spans) = 0),
           stack' \in Seq(Frames), Depth' = 2,
           stack'[1] = RunTxFrame(ctx), stack'[2] = Frame(guarded, ctx, traced, FALSE),
           Started(ctx, traced),
           phase' \in {"ante", "msg"}, phase' = "ante" => phase = "start",
           UNCHANGED <<mode, flags, next, events, emitted, msgs>>
    PROVE  /\ TypeOK' /\ Depth' = 2 /\ FramesOK' /\ ParentsOK' /\ EventsKept'
           /\ Len(spans') \in Nat /\ Len(spans') >= Len(spans)
<1> DEFINE base == RunTxFrame(ctx)
           frame == Frame(guarded, ctx, traced, FALSE)
<1>1. TypeOK /\ ParentsOK /\ EventsKept
  BY DEF TxInv, SpansInv
<1>2. spans \in Seq(SpanRecords) /\ Len(spans) \in Nat
  BY <1>1, TxTypes
<1>3. /\ spans' \in Seq(SpanRecords) /\ ParentsOK'
      /\ Len(spans') = IF traced THEN Len(spans) + 1 ELSE Len(spans)
  BY <1>1, StartedSpans
<1>4. Len(spans') \in Nat /\ Len(spans') >= Len(spans)
  BY <1>2, <1>3
<1>5. /\ base \in Frames /\ base.em = <<>> /\ base.own = TRUE /\ base.guarded = FALSE
      /\ base.ctx = ctx /\ base.span = 0
  BY DEF Frames, RunTxFrame
<1>6. /\ frame \in Frames /\ frame.em = <<>>
      /\ frame.ctx.simulation = ctx.simulation /\ frame.ctx.sdk = ctx.sdk
      /\ frame.ctx.active \in 0..Len(spans')
      /\ ctx.active # 0 \/ traced => frame.ctx.active # 0
      /\ frame.span \in 0..Len(spans')
      /\ frame.guarded => (frame.span # 0 <=> AnteTraced)
  <2>1. /\ frame \in Frames /\ frame.em = <<>>
        /\ frame.ctx.simulation = ctx.simulation /\ frame.ctx.sdk = ctx.sdk
        /\ frame.ctx.active \in 0..(IF traced THEN Len(spans) + 1 ELSE Len(spans))
        /\ ctx.active # 0 \/ traced => frame.ctx.active # 0
        /\ frame.span \in 0..(IF traced THEN Len(spans) + 1 ELSE Len(spans))
        /\ frame.guarded => (frame.span # 0 <=> AnteTraced)
    BY <1>1, FirstFrame
  <2>2. QED  BY <1>3, <2>1
<1>7. /\ stack' \in Seq(Frames) /\ Len(stack') = 2
      /\ stack'[1] = base /\ stack'[2] = frame
  BY DEF Depth
<1>8. (AnteTraced' <=> AnteTraced) /\ (TraceRooted' <=> TraceRooted)
  BY SameDecision
<1>9. TypeOK'
  BY <1>1, <1>3, <1>7 DEF TypeOK, SpanRecords
<1>10. FramesOK'
  <2>1. FrameOK(stack[1])'
    BY <1>2, <1>4, <1>5, <1>7, <1>8 DEF FrameOK, CtxOK
  <2>2. FrameOK(stack[2])'
    BY <1>6, <1>7, <1>8 DEF FrameOK, CtxOK
  <2>3. CtxRooted(stack[2].ctx)'
    BY <1>6, <1>7, <1>8 DEF CtxRooted
  <2>4. stack'[1].own
    BY <1>5, <1>7
  <2>5. Depth' = 2
    BY <1>7 DEF Depth
  <2>6. /\ \A i \in 1..2 : i = 1 \/ i = 2
        /\ \A i \in 2..2 : i = 2
    OBVIOUS
  <2>7. QED  BY <2>1, <2>2, <2>3, <2>4, <2>5, <2>6 DEF FramesOK
<1>11. EventsKept'
  <2>1. emitted.current = <<>>
    BY <1>1, NothingHeld
  <2>2. \A i \in 1..2 : stack'[i].em = <<>>
    <3>1. stack'[1].em = <<>> /\ stack'[2].em = <<>>
      BY <1>5, <1>6, <1>7, Zenon
    <3>2. \A i \in 1..2 : i = 1 \/ i = 2
      OBVIOUS
    <3>3. QED  BY <3>1, <3>2, Zenon
  <2>3. \E logs : Kept(stack', logs, <<>>)
    BY <1>7, <2>2, KeptNothing
  <2>4. \A i \in 1..2 : Held(stack', i)
    <3>1. Held(stack', 1)
      BY <1>5, <1>7 DEF Held
    <3>2. Held(stack', 2)
      <4>1. CASE frame.own
        <5>1. 2 \in 1..2 /\ \A j \in (2 + 1)..2 : ~stack'[j].own
          OBVIOUS
        <5>2. QED  BY <1>7, <4>1, <5>1, Zenon DEF Held
      <4>2. CASE ~frame.own
        <5>1. 1 \in 1..2 /\ \A j \in (1 + 1)..2 : j = 2
          OBVIOUS
        <5>2. QED  BY <1>5, <1>7, <4>2, <5>1, Zenon DEF Held
      <4>3. QED  BY <4>1, <4>2
    <3>3. \A i \in 1..2 : i = 1 \/ i = 2
      OBVIOUS
    <3>4. QED  BY <3>1, <3>2, <3>3
  <2>5. stack'[1].em = <<>>
    BY <2>2
  <2>6. phase' \in {"start", "ante"} => emitted'.ante = <<>> /\ events'.ante = <<>>
    BY <1>1 DEF EventsKept
  <2>7. QED  BY <1>7, <2>1, <2>3, <2>4, <2>5, <2>6 DEF EventsKept, Depth
<1>12. QED  BY <1>3, <1>4, <1>7, <1>9, <1>10, <1>11 DEF Depth

\* The ante handler, a message or a query has ended, or all has.
LEMMA CallsEnded ==
    ASSUME TxInv, stack' = <<>>, spans' \in {Finished, Lost}, UNCHANGED <<mode, flags>>,
           phase' \in {"msgs", "done"}, emitted'.current = <<>>
    PROVE  /\ stack' \in Seq(Frames) /\ Depth' = 0 /\ FramesOK' /\ ParentsOK' /\ EventsKept'
           /\ spans' \in Seq(SpanRecords) /\ Len(spans') = Len(spans)
<1>1. TypeOK /\ ParentsOK
  BY DEF TxInv, SpansInv
<1>2. spans' \in Seq(SpanRecords) /\ Len(spans') = Len(spans) /\ ParentsOK'
  BY <1>1, EndedSpans
<1>3. stack' \in Seq(Frames) /\ Len(stack') = 0
  OBVIOUS
<1>4. FramesOK'
  BY <1>3 DEF FramesOK, Depth
<1>5. \E logs : Kept(stack', logs, <<>>)
  BY <1>3, KeptNothing
<1>6. EventsKept'
  BY <1>3, <1>5 DEF EventsKept, Depth
<1>7. QED  BY <1>2, <1>3, <1>4, <1>6 DEF Depth

LEMMA PairOfFrames ==
    ASSUME NEW a, NEW b, NEW st, st = <<a, b>>, a \in Frames, b \in Frames
    PROVE  st \in Seq(Frames) /\ Len(st) = 2 /\ st[1] = a /\ st[2] = b
  OBVIOUS

LEMMA RunTxFrameTyped ==
    ASSUME NEW ctx \in Contexts
    PROVE  RunTxFrame(ctx) \in Frames
  BY DEF RunTxFrame, Frames

\* The context of the transaction, and the one the ante handler runs in.
LEMMA RootCtxOK ==
    /\ RootCtx \in Contexts /\ RootCtx.simulation = FALSE
    /\ RootCtx.active = 0 /\ RootCtx.sdk = TRUE
  BY DEF RootCtx, Contexts

LEMMA AnteCtxOK ==
    ASSUME TypeOK
    PROVE  AnteCtx \in Contexts /\ CtxOK(AnteCtx) /\ AnteCtx.active = 0
<1>1. Len(spans) \in Nat
  BY TxTypes
<1>2. CASE AnteTraced
  <2>1. AnteCtx = [RootCtx EXCEPT !.simulation = (mode = "simulate")]
    BY <1>2 DEF AnteTraced, AnteCtx, WithSimulation
  <2>2. /\ AnteCtx \in Contexts /\ (AnteCtx.simulation <=> mode = "simulate")
        /\ AnteCtx.active = 0 /\ AnteCtx.sdk = TRUE
    BY <2>1 DEF RootCtx, Contexts
  <2>3. QED  BY <1>1, <1>2, <2>2 DEF CtxOK
<1>3. CASE ~AnteTraced
  <2>1. AnteCtx = RootCtx
    BY <1>3 DEF AnteTraced, AnteCtx
  <2>2. QED  BY <1>1, <1>3, <2>1, RootCtxOK DEF CtxOK
<1>4. QED  BY <1>2, <1>3

LEMMA RunAnteStep ==
    ASSUME TxInv, RunAnte
    PROVE  TxInv'
<1>1. TypeOK /\ CallsInPhase /\ ParentsOK /\ EventsKept /\ ResponseFaithful
  BY DEF TxInv, SpansInv
<1> DEFINE traced == flags.tracerEnabled /\ isTraceable(mode = "simulate")
           frame == Frame(TRUE, AnteCtx, traced, FALSE)
<1>2. /\ phase = "start" /\ mode \in TxModes /\ phase' = "ante"
      /\ stack' = <<RunTxFrame(AnteCtx), frame>>
      /\ Started(AnteCtx, traced)
      /\ UNCHANGED <<mode, flags, next, events, emitted, msgs>>
  BY DEF RunAnte, RunTxFrame
<1>3. traced \in BOOLEAN /\ (traced <=> AnteTraced)
  BY DEF AnteTraced
<1>4. AnteCtx \in Contexts /\ CtxOK(AnteCtx) /\ AnteCtx.active = 0
  BY <1>1, AnteCtxOK
<1>5. TraceRooted => traced
  BY <1>2, <1>3 DEF TraceRooted
<1> HIDE DEF traced
<1>6. Depth = 0 /\ Len(spans) = 0
  BY <1>1, <1>2 DEF CallsInPhase, ParentsOK
<1>7. frame \in Frames
  BY <1>1, <1>3, <1>4, FirstFrame
<1>8. /\ stack' \in Seq(Frames) /\ Depth' = 2
      /\ stack'[1] = RunTxFrame(AnteCtx) /\ stack'[2] = frame
  BY <1>2, <1>4, <1>7, PairOfFrames, RunTxFrameTyped DEF Depth
<1>9. /\ TypeOK' /\ Depth' = 2 /\ FramesOK' /\ ParentsOK' /\ EventsKept'
      /\ Len(spans') \in Nat /\ Len(spans') >= Len(spans)
  <2>1. TRUE \in BOOLEAN /\ (TRUE => (traced <=> AnteTraced))
    BY <1>3
  <2>2. TraceRooted => AnteCtx.active # 0 \/ traced
    BY <1>5
  <2>3. TraceRooted /\ traced => (AnteCtx.active = 0 <=> Len(spans) = 0)
    BY <1>4, <1>6
  <2>4. phase' \in {"ante", "msg"} /\ (phase' = "ante" => phase = "start")
    BY <1>2
  <2>5. QED  BY <1>2, <1>3, <1>4, <1>6, <1>8, <2>1, <2>2, <2>3, <2>4, FirstCalls
<1>10. CallsInPhase'
  BY <1>1, <1>2, <1>9 DEF CallsInPhase
<1>11. NextOK'
  BY <1>2 DEF NextOK
<1>12. ResponseFaithful'
  BY <1>1, <1>2 DEF ResponseFaithful
<1>13. QED  BY <1>9, <1>10, <1>11, <1>12 DEF TxInv, SpansInv

LEMMA RunMsgStep ==
    ASSUME TxInv, RunMsg
    PROVE  TxInv'
<1>1. TypeOK /\ CallsInPhase /\ NextOK /\ ParentsOK /\ EventsKept /\ ResponseFaithful
  BY DEF TxInv, SpansInv
<1> DEFINE frame == Frame(FALSE, next, ServiceTraced, FALSE)
<1>2. /\ phase = "msgs" /\ msgs < MaxMsgs /\ phase' = "msg"
      /\ stack' = <<RunTxFrame(next), frame>>
      /\ Started(next, ServiceTraced)
      /\ UNCHANGED <<mode, flags, next, events, emitted, msgs>>
  BY DEF RunMsg, RunTxFrame
<1>3. ServiceTraced \in BOOLEAN
  BY DEF ServiceTraced
<1>4. next \in Contexts /\ CtxOK(next) /\ CtxRooted(next)
  BY <1>1, <1>2, TxTypes DEF NextOK
<1>5. Depth = 0 /\ mode \in TxModes
  BY <1>1, <1>2 DEF CallsInPhase
<1>6. FALSE \in BOOLEAN /\ (FALSE => (ServiceTraced <=> AnteTraced))
  OBVIOUS
<1>7. frame \in Frames
  BY <1>1, <1>3, <1>4, <1>6, FirstFrame
<1>8. /\ stack' \in Seq(Frames) /\ Depth' = 2
      /\ stack'[1] = RunTxFrame(next) /\ stack'[2] = frame
  BY <1>2, <1>4, <1>7, PairOfFrames, RunTxFrameTyped DEF Depth
<1>9. /\ TypeOK' /\ Depth' = 2 /\ FramesOK' /\ ParentsOK' /\ EventsKept'
      /\ Len(spans') \in Nat /\ Len(spans') >= Len(spans)
  <2>1. TraceRooted => next.active # 0 \/ ServiceTraced
    BY <1>4 DEF CtxRooted
  <2>2. TraceRooted /\ ServiceTraced => (next.active = 0 <=> Len(spans) = 0)
    BY <1>1, <1>4, TxTypes DEF CtxOK, CtxRooted
  <2>3. phase' \in {"ante", "msg"} /\ (phase' = "ante" => phase = "start")
    BY <1>2
  <2>4. QED  BY <1>2, <1>3, <1>4, <1>5, <1>6, <1>8, <2>1, <2>2, <2>3, FirstCalls
<1>10. CallsInPhase'
  BY <1>1, <1>2, <1>9 DEF CallsInPhase
<1>11. NextOK'
  <2>1. Len(spans) \in Nat /\ (AnteTraced' <=> AnteTraced) /\ (TraceRooted' <=> TraceRooted)
    BY <1>1, <1>2, TxTypes, SameDecision
  <2>2. QED  BY <1>2, <1>4, <1>9, <2>1 DEF NextOK, CtxOK, CtxRooted
<1>12. ResponseFaithful'
  BY <1>1, <1>2 DEF ResponseFaithful
<1>13. QED  BY <1>9, <1>10, <1>11, <1>12 DEF TxInv, SpansInv

\* A query finds its context where it is traced.
LEMMA RunQueryStep ==
    ASSUME TxInv, RunQuery
    PROVE  TxInv'
<1>1. TypeOK /\ CallsInPhase /\ ParentsOK /\ EventsKept /\ ResponseFaithful
  BY DEF TxInv, SpansInv
<1> DEFINE frame == Frame(FALSE, RootCtx, QueryServiceTraced, FALSE)
           contexts == IF mode = "query" THEN TracedIn(RootCtx, "none", RootCtx)
                       ELSE TracedIn(NoSdkCtx, "context", RootCtx)
<1>2. contexts = {RootCtx}
  BY DEF TracedIn
<1>3. Unwrapped(contexts, QueryServiceTraced)
  BY <1>2, RootCtxOK DEF Unwrapped
<1>4. /\ phase = "start" /\ mode \in {"query", "grpc"} /\ phase' = "msg"
      /\ stack' = <<RunTxFrame(RootCtx), frame>>
      /\ Started(RootCtx, QueryServiceTraced)
      /\ UNCHANGED <<mode, flags, next, events, emitted, msgs>>
  <2>1. /\ phase = "start" /\ mode \in {"query", "grpc"}
        /\ UNCHANGED <<mode, flags, next, events, emitted, msgs>>
    BY DEF RunQuery
  <2>2. \E ctx \in contexts :
           /\ phase' = "msg"
           /\ stack' = << [guarded |-> FALSE, span |-> 0, ctx |-> ctx, own |-> TRUE,
                           em |-> <<>>],
                          Frame(FALSE, ctx, QueryServiceTraced, FALSE) >>
           /\ Started(ctx, QueryServiceTraced)
    BY <1>3, Zenon DEF RunQuery
  <2>3. QED  BY <1>2, <2>1, <2>2 DEF RunTxFrame
<1>5. QueryServiceTraced \in BOOLEAN
  BY DEF QueryServiceTraced
<1>6. ~AnteTraced /\ mode \notin TxModes
  BY <1>4 DEF AnteTraced, isTraceable, TxModes
<1>7. RootCtx \in Contexts /\ CtxOK(RootCtx)
  BY <1>1, <1>6, RootCtxOK, TxTypes DEF CtxOK
<1>8. Depth = 0 /\ Len(spans) = 0
  BY <1>1, <1>4 DEF CallsInPhase, ParentsOK
<1>9. FALSE \in BOOLEAN /\ (FALSE => (QueryServiceTraced <=> AnteTraced))
  OBVIOUS
<1>10. frame \in Frames
  BY <1>1, <1>5, <1>7, <1>9, FirstFrame
<1>11. /\ stack' \in Seq(Frames) /\ Depth' = 2
       /\ stack'[1] = RunTxFrame(RootCtx) /\ stack'[2] = frame
  BY <1>4, <1>7, <1>10, PairOfFrames, RunTxFrameTyped DEF Depth
<1>12. /\ TypeOK' /\ Depth' = 2 /\ FramesOK' /\ ParentsOK' /\ EventsKept'
       /\ Len(spans') \in Nat /\ Len(spans') >= Len(spans)
  <2>1. TraceRooted => RootCtx.active # 0 \/ QueryServiceTraced
    BY <1>6 DEF TraceRooted
  <2>2. TraceRooted /\ QueryServiceTraced => (RootCtx.active = 0 <=> Len(spans) = 0)
    BY <1>8, RootCtxOK
  <2>3. phase' \in {"ante", "msg"} /\ (phase' = "ante" => phase = "start")
    BY <1>4
  <2>4. QED  BY <1>4, <1>5, <1>7, <1>8, <1>9, <1>11, <2>1, <2>2, <2>3, FirstCalls
<1>13. CallsInPhase'
  BY <1>4, <1>6, <1>12 DEF CallsInPhase
<1>14. NextOK'
  BY <1>4, <1>6 DEF NextOK
<1>15. ResponseFaithful'
  BY <1>1, <1>4 DEF ResponseFaithful
<1>16. QED  BY <1>12, <1>13, <1>14, <1>15 DEF TxInv, SpansInv

\* The events of the ante handler are all in one event manager: that of the
\* decorator if the call is traced, else that of runTx.
LEMMA AnteEvents ==
    ASSUME TypeOK, CallsInPhase, FramesOK, EventsKept, phase = "ante"
    PROVE  stack[Holder(stack)].em = emitted.current
<1>1. /\ stack \in Seq(Frames) /\ Len(stack) = 2 /\ Depth = 2
      /\ \A i \in 1..2 : stack[i].em \in Seq(Event)
  BY TxTypes DEF CallsInPhase, Depth
<1>2. Held(stack, Len(stack)) /\ stack[1].own /\ (stack[2].own => stack[1].em = <<>>)
  BY <1>1 DEF EventsKept, FramesOK
<1> DEFINE h == Holder(stack)
<1>3. h \in 1..Len(stack) /\ stack[h].own /\ \A j \in (h + 1)..Len(stack) : ~stack[j].own
  BY <1>1, <1>2, HolderFound
<1>4. PICK logs : Kept(stack, logs, emitted.current)
  BY DEF EventsKept
<1>5. logs[0] = <<>> /\ logs[2] = emitted.current
  <2>1. logs[0] = <<>> /\ logs[Len(stack)] = emitted.current
    BY <1>1, <1>4, KeptFacts, ZenonT(60)
  <2>2. QED  BY <1>1, <2>1
<1>6. logs[1] = logs[1 - 1] \o OwnEvents(stack[1])
  <2>1. 1 \in 1..Len(stack)
    BY <1>1
  <2>2. QED  BY <1>1, <1>4, <2>1, KeptStep, Zenon
<1>7. logs[2] = logs[2 - 1] \o OwnEvents(stack[2])
  <2>1. 2 \in 1..Len(stack)
    BY <1>1
  <2>2. QED  BY <1>1, <1>4, <2>1, KeptStep, ZenonT(40)
<1>8. logs[1] = <<>> \o stack[1].em
  <2>1. logs[1] = logs[0] \o OwnEvents(stack[1])
    BY <1>6
  <2>2. OwnEvents(stack[1]) = stack[1].em
    BY <1>2, Zenon DEF OwnEvents
  <2>3. QED  BY <1>5, <2>1, <2>2, Zenon
<1>9. emitted.current = logs[1] \o OwnEvents(stack[2])
  BY <1>5, <1>7
<1>10. \A s \in Seq(Event) : <<>> \o s = s /\ s \o <<>> = s
  OBVIOUS
<1>11. stack[1].em \in Seq(Event) /\ stack[2].em \in Seq(Event)
  BY <1>1
<1> HIDE DEF h
<1>12. CASE stack[2].own
  <2>1. h = 2
    BY <1>1, <1>3, <1>12
  <2>2. OwnEvents(stack[2]) = stack[2].em
    BY <1>12, Zenon DEF OwnEvents
  <2>3. logs[1] = <<>>
    BY <1>2, <1>8, <1>10, <1>11, <1>12, Zenon
  <2>4. emitted.current = stack[2].em
    BY <1>9, <1>10, <1>11, <2>2, <2>3, Zenon
  <2>5. QED  BY <2>1, <2>4 DEF h
<1>13. CASE ~stack[2].own
  <2>1. h = 1
    BY <1>1, <1>3, <1>13
  <2>2. OwnEvents(stack[2]) = <<>>
    BY <1>13, Zenon DEF OwnEvents
  <2>3. logs[1] = stack[1].em
    BY <1>8, <1>10, <1>11, Zenon
  <2>4. emitted.current = stack[1].em
    BY <1>9, <1>10, <1>11, <2>2, <2>3, Zenon
  <2>5. QED  BY <2>1, <2>4 DEF h
<1>14. QED  BY <1>12, <1>13

LEMMA AnteOkStep ==
    ASSUME TxInv, AnteOk
    PROVE  TxInv'
<1>1. TypeOK /\ CallsInPhase /\ FramesOK /\ ParentsOK /\ EventsKept /\ ResponseFaithful
  BY DEF TxInv, SpansInv
<1>2. /\ phase = "ante" /\ next' = Top.ctx
      /\ events' = [events EXCEPT !.ante = stack[Holder(stack)].em]
      /\ emitted' = [emitted EXCEPT !.ante = emitted.ante \o emitted.current, !.current = <<>>]
      /\ phase' \in {"done", "msgs"} /\ stack' = <<>> /\ spans' = Finished
      /\ UNCHANGED <<mode, flags, msgs>>
  BY DEF AnteOk, AnteReturned
<1>3. /\ emitted \in Logs /\ events \in [ante: Seq(Event), msgs: Seq(Event)]
      /\ Len(spans) \in Nat /\ Depth = 2 /\ stack[2] \in Frames /\ Top = stack[2]
  BY <1>1, <1>2, TxTypes DEF CallsInPhase, Top
<1>4. stack[Holder(stack)].em = emitted.current
  BY <1>1, <1>2, AnteEvents
<1>5. emitted.ante = <<>> /\ emitted.current \in Seq(Event) /\ emitted.msgs \in Seq(Event)
  BY <1>1, <1>2, <1>3 DEF EventsKept, Logs
<1>6. <<>> \o emitted.current = emitted.current
  BY <1>5
<1>7. /\ emitted' \in Logs /\ emitted'.current = <<>> /\ emitted'.ante = emitted.current
      /\ emitted'.msgs = emitted.msgs
  <2>1. emitted' = [emitted EXCEPT !.ante = emitted.current, !.current = <<>>]
    BY <1>2, <1>5, <1>6, Zenon
  <2>2. QED  BY <1>3, <1>5, <2>1 DEF Logs
<1>8. /\ events' \in [ante: Seq(Event), msgs: Seq(Event)]
      /\ events'.ante = emitted.current /\ events'.msgs = events.msgs
  <2>1. events' = [events EXCEPT !.ante = emitted.current]
    BY <1>2, <1>4, Zenon
  <2>2. QED  BY <1>3, <1>5, <2>1
<1>9. /\ stack' \in Seq(Frames) /\ Depth' = 0 /\ FramesOK' /\ ParentsOK' /\ EventsKept'
      /\ spans' \in Seq(SpanRecords) /\ Len(spans') = Len(spans)
  <2>1. spans' \in {Finished, Lost} /\ phase' \in {"msgs", "done"} /\ UNCHANGED <<mode, flags>>
    BY <1>2
  <2>2. stack' = <<>> /\ emitted'.current = <<>>
    BY <1>2, <1>7
  <2>3. QED  BY <2>1, <2>2, CallsEnded
<1>10. FrameOK(stack[2]) /\ CtxRooted(stack[2].ctx) /\ stack[2].ctx \in Contexts
  BY <1>1, <1>3 DEF FramesOK, Frames
<1>11. TypeOK'
  BY <1>1, <1>2, <1>3, <1>7, <1>8, <1>9, <1>10 DEF TypeOK, SpanRecords
<1>12. CallsInPhase'
  BY <1>1, <1>2, <1>9 DEF CallsInPhase
<1>13. NextOK'
  <2>1. (AnteTraced' <=> AnteTraced) /\ (TraceRooted' <=> TraceRooted)
    BY <1>2, SameDecision
  <2>2. next' = stack[2].ctx
    BY <1>2, <1>3
  <2>3. QED  BY <1>2, <1>9, <1>10, <2>1, <2>2 DEF NextOK, FrameOK, CtxOK, CtxRooted
<1>14. ResponseFaithful'
  BY <1>1, <1>7, <1>8 DEF ResponseFaithful
<1>15. QED  BY <1>9, <1>11, <1>12, <1>13, <1>14 DEF TxInv, SpansInv

\* A log is emptied when the call it is of has ended, and another one is set.
LEMMA LogsEnded ==
    ASSUME NEW logs \in Logs, NEW s \in Seq(Event)
    PROVE  LET ended == [logs EXCEPT !.msgs = s, !.current = <<>>] IN
           /\ ended \in Logs /\ ended.current = <<>>
           /\ ended.ante = logs.ante /\ ended.msgs = s
<1>1. PICK ended : ended = [logs EXCEPT !.msgs = s, !.current = <<>>]
  OBVIOUS
<1>2. logs.ante \in Seq(Event) /\ <<>> \in Seq(Event)
  BY DEF Logs
<1>3. /\ ended.current = <<>> /\ ended.ante = logs.ante /\ ended.msgs = s
      /\ ended \in Logs
  BY <1>1, <1>2 DEF Logs
<1>4. QED  BY <1>1, <1>3, Zenon

LEMMA EventsEnded ==
    ASSUME NEW evs \in [ante: Seq(Event), msgs: Seq(Event)], NEW s \in Seq(Event)
    PROVE  LET ended == [evs EXCEPT !.msgs = s] IN
           /\ ended \in [ante: Seq(Event), msgs: Seq(Event)]
           /\ ended.ante = evs.ante /\ ended.msgs = s
  OBVIOUS

\* An error or a panic: what was emitted since the ante handler is dropped.
LEMMA EndFailedStep ==
    ASSUME TxInv, phase \in {"ante", "msg"}, NEW panicked \in BOOLEAN, EndFailed(panicked)
    PROVE  TxInv'
<1>1. TypeOK /\ CallsInPhase /\ EventsKept /\ ResponseFaithful
  BY DEF TxInv, SpansInv
<1>2. /\ phase' = "done" /\ events' = [events EXCEPT !.msgs = <<>>]
      /\ emitted' = [emitted EXCEPT !.msgs = <<>>, !.current = <<>>]
      /\ stack' = <<>> /\ spans' \in {Finished, Lost}
      /\ UNCHANGED <<mode, flags, next, msgs>>
  BY DEF EndFailed
<1>3. /\ emitted \in Logs /\ events \in [ante: Seq(Event), msgs: Seq(Event)]
      /\ <<>> \in Seq(Event)
  BY <1>1, TxTypes
<1>4. /\ emitted' \in Logs /\ emitted'.current = <<>> /\ emitted'.ante = emitted.ante
      /\ emitted'.msgs = <<>>
  BY <1>2, <1>3, LogsEnded, ZenonT(60)
<1>5. /\ events' \in [ante: Seq(Event), msgs: Seq(Event)]
      /\ events'.ante = events.ante /\ events'.msgs = <<>>
  BY <1>2, <1>3, EventsEnded
<1>6. /\ stack' \in Seq(Frames) /\ Depth' = 0 /\ FramesOK' /\ ParentsOK' /\ EventsKept'
      /\ spans' \in Seq(SpanRecords) /\ Len(spans') = Len(spans)
  BY <1>2, <1>4, CallsEnded
<1>7. TypeOK'
  BY <1>1, <1>2, <1>4, <1>5, <1>6 DEF TypeOK, SpanRecords
<1>8. CallsInPhase' /\ NextOK'
  BY <1>1, <1>2, <1>6 DEF CallsInPhase, NextOK
<1>9. ResponseFaithful'
  BY <1>1, <1>4, <1>5 DEF ResponseFaithful
<1>10. QED  BY <1>6, <1>7, <1>8, <1>9 DEF TxInv, SpansInv

LEMMA MsgOkStep ==
    ASSUME TxInv, MsgOk
    PROVE  TxInv'
<1>1. TypeOK /\ CallsInPhase /\ FramesOK /\ NextOK /\ EventsKept /\ ResponseFaithful
  BY DEF TxInv, SpansInv
<1>2. /\ phase = "msg" /\ mode \in TxModes /\ Depth = 2
      /\ events' = [events EXCEPT !.msgs = events.msgs \o Left[1].em]
      /\ emitted' = [emitted EXCEPT !.msgs = emitted.msgs \o emitted.current, !.current = <<>>]
      /\ phase' = "msgs" /\ stack' = <<>> /\ spans' = Finished /\ msgs' = msgs + 1
      /\ UNCHANGED <<mode, flags, next>>
  BY DEF MsgOk
<1>3. /\ emitted \in Logs /\ events \in [ante: Seq(Event), msgs: Seq(Event)]
      /\ msgs \in 0..MaxMsgs
  BY <1>1, TxTypes DEF TypeOK
<1>4. Left[1].em = emitted.current
  <2>1. /\ Left \in Seq(Frames) /\ Len(Left) = 1 /\ Left[1].own = stack[1].own
        /\ \E logs : Kept(Left, logs, emitted.current)
    BY <1>1, <1>2, LeftKeeps
  <2>2. Left[1].own /\ Left[1].em \in Seq(Event)
    <3>1. Left[1].own
      BY <1>1, <1>2, <2>1 DEF FramesOK
    <3>2. Left[1] \in Frames
      BY <2>1
    <3>3. QED  BY <3>1, <3>2 DEF Frames
  <2>3. PICK logs : Kept(Left, logs, emitted.current)
    BY <2>1
  <2>4. logs[0] = <<>> /\ logs[1] = emitted.current
    <3>1. logs[0] = <<>> /\ logs[Len(Left)] = emitted.current
      BY <2>1, <2>3, KeptFacts, Zenon
    <3>2. QED  BY <2>1, <3>1
  <2>5. logs[1] = logs[1 - 1] \o OwnEvents(Left[1])
    <3>1. 1 \in 1..Len(Left)
      BY <2>1
    <3>2. QED  BY <2>1, <2>3, <3>1, KeptStep, Zenon
  <2>6. logs[1] = logs[0] \o OwnEvents(Left[1])
    BY <2>5
  <2>7. OwnEvents(Left[1]) = Left[1].em
    BY <2>2, Zenon DEF OwnEvents
  <2>8. <<>> \o Left[1].em = Left[1].em
    BY <2>2
  <2>9. QED  BY <2>4, <2>6, <2>7, <2>8, Zenon
<1>5. /\ emitted.current \in Seq(Event) /\ emitted.msgs \in Seq(Event)
      /\ emitted.msgs \o emitted.current \in Seq(Event)
  BY <1>3 DEF Logs
<1>6. /\ emitted' \in Logs /\ emitted'.current = <<>> /\ emitted'.ante = emitted.ante
      /\ emitted'.msgs = emitted.msgs \o emitted.current
  <2>1. PICK s \in Seq(Event) : s = emitted.msgs \o emitted.current
    BY <1>5
  <2>2. emitted' = [emitted EXCEPT !.msgs = s, !.current = <<>>]
    BY <1>2, <2>1, Zenon
  <2>3. /\ emitted' \in Logs /\ emitted'.current = <<>>
        /\ emitted'.ante = emitted.ante /\ emitted'.msgs = s
    <3>1. <<>> \in Seq(Event) /\ emitted.ante \in Seq(Event)
      BY <1>3 DEF Logs
    <3>2. QED  BY <1>3, <2>2, <3>1 DEF Logs
  <2>4. QED  BY <2>1, <2>3, Zenon
<1>7. events.msgs = emitted.msgs /\ events.ante = emitted.ante
  BY <1>1 DEF ResponseFaithful
<1>8. /\ events' \in [ante: Seq(Event), msgs: Seq(Event)]
      /\ events'.ante = events.ante /\ events'.msgs = emitted.msgs \o emitted.current
  <2>1. events' = [events EXCEPT !.msgs = emitted.msgs \o emitted.current]
    BY <1>2, <1>4, <1>7, Zenon
  <2>2. QED  BY <1>3, <1>5, <2>1
<1>9. /\ stack' \in Seq(Frames) /\ Depth' = 0 /\ FramesOK' /\ ParentsOK' /\ EventsKept'
      /\ spans' \in Seq(SpanRecords) /\ Len(spans') = Len(spans)
  <2>1. spans' \in {Finished, Lost} /\ phase' \in {"msgs", "done"} /\ UNCHANGED <<mode, flags>>
    BY <1>2
  <2>2. stack' = <<>> /\ emitted'.current = <<>>
    BY <1>2, <1>6
  <2>3. QED  BY <2>1, <2>2, CallsEnded
<1>10. msgs' \in 0..MaxMsgs
  BY <1>1, <1>2, <1>3, BoundsAssumption DEF CallsInPhase
<1>11. TypeOK'
  BY <1>1, <1>2, <1>6, <1>8, <1>9, <1>10 DEF TypeOK, SpanRecords
<1>12. CallsInPhase'
  BY <1>1, <1>2, <1>9 DEF CallsInPhase
<1>13. NextOK'
  <2>1. (AnteTraced' <=> AnteTraced) /\ (TraceRooted' <=> TraceRooted)
    BY <1>2, SameDecision
  <2>2. QED  BY <1>1, <1>2, <1>9, <2>1 DEF NextOK, CtxOK, CtxRooted
<1>14. ResponseFaithful'
  BY <1>6, <1>7, <1>8 DEF ResponseFaithful
<1>15. QED  BY <1>9, <1>11, <1>12, <1>13, <1>14 DEF TxInv, SpansInv

LEMMA QueryOkStep ==
    ASSUME TxInv, QueryOk
    PROVE  TxInv'
<1>1. TypeOK /\ CallsInPhase /\ EventsKept /\ ResponseFaithful
  BY DEF TxInv, SpansInv
<1>2. /\ emitted' = [emitted EXCEPT !.current = <<>>]
      /\ phase' = "done" /\ stack' = <<>> /\ spans' = Finished
      /\ UNCHANGED <<mode, flags, next, events, msgs>>
  BY DEF QueryOk
<1>3. emitted \in Logs
  BY <1>1, TxTypes
<1>4. /\ emitted' \in Logs /\ emitted'.current = <<>> /\ emitted'.ante = emitted.ante
      /\ emitted'.msgs = emitted.msgs
  <2>1. <<>> \in Seq(Event)
    OBVIOUS
  <2>2. QED  BY <1>2, <1>3, <2>1 DEF Logs
<1>5. /\ stack' \in Seq(Frames) /\ Depth' = 0 /\ FramesOK' /\ ParentsOK' /\ EventsKept'
      /\ spans' \in Seq(SpanRecords) /\ Len(spans') = Len(spans)
  BY <1>2, <1>4, CallsEnded
<1>6. TypeOK'
  BY <1>1, <1>2, <1>4, <1>5 DEF TypeOK, SpanRecords
<1>7. CallsInPhase' /\ NextOK'
  BY <1>1, <1>2, <1>5 DEF CallsInPhase, NextOK
<1>8. ResponseFaithful'
  BY <1>1, <1>2, <1>4 DEF ResponseFaithful
<1>9. QED  BY <1>5, <1>6, <1>7, <1>8 DEF TxInv, SpansInv

\* Nothing is called: all messages are done, or services are registered.
LEMMA QuietStep ==
    ASSUME TxInv, phase \in {"start", "msgs"}, phase' = "done",
           UNCHANGED <<mode, flags, stack, next, spans, events, emitted, msgs>>
    PROVE  TxInv'
<1>1. /\ TypeOK /\ CallsInPhase /\ FramesOK /\ NextOK /\ ParentsOK
      /\ EventsKept /\ ResponseFaithful
  BY DEF TxInv, SpansInv
<1>2. (AnteTraced' <=> AnteTraced) /\ (TraceRooted' <=> TraceRooted)
  BY SameDecision
<1>3. TypeOK' /\ CallsInPhase' /\ NextOK' /\ ResponseFaithful'
  BY <1>1 DEF TypeOK, CallsInPhase, Depth, NextOK, ResponseFaithful
<1>4. FramesOK'
  BY <1>1, <1>2 DEF FramesOK, FrameOK, CtxOK, CtxRooted, Depth
<1>5. ParentsOK'
  BY <1>1, <1>2 DEF ParentsOK
<1>6. EventsKept'
  BY <1>1 DEF EventsKept, Depth
<1>7. QED  BY <1>3, <1>4, <1>5, <1>6 DEF TxInv, SpansInv

\* No context is asked for when services are registered.
LEMMA RegisterStep ==
    ASSUME TxInv, Register
    PROVE  TxInv'
<1>1. TracedIn(NoSdkCtx, "noop", NoSdkCtx) = {}
  BY DEF TracedIn
<1>2. Unwrapped(TracedIn(NoSdkCtx, "noop", NoSdkCtx), ServiceTraced)
  BY <1>1 DEF Unwrapped
<1>3. QED  BY <1>2, QuietStep DEF Register

LEMMA StutterStep ==
    ASSUME TxInv, UNCHANGED vars
    PROVE  TxInv'
<1>1. /\ TypeOK /\ CallsInPhase /\ FramesOK /\ NextOK /\ ParentsOK
      /\ EventsKept /\ ResponseFaithful
  BY DEF TxInv, SpansInv
<1>2. UNCHANGED <<mode, flags, phase, stack, next, spans, events, emitted, msgs>>
  BY DEF vars
<1>3. (AnteTraced' <=> AnteTraced) /\ (TraceRooted' <=> TraceRooted)
  BY <1>2, SameDecision
<1>4. TypeOK' /\ CallsInPhase' /\ ResponseFaithful'
  BY <1>1, <1>2 DEF TypeOK, CallsInPhase, Depth, ResponseFaithful
<1>5. FramesOK' /\ NextOK'
  BY <1>1, <1>2, <1>3 DEF FramesOK, FrameOK, NextOK, CtxOK, CtxRooted, Depth
<1>6. ParentsOK'
  BY <1>1, <1>2, <1>3 DEF ParentsOK
<1>7. EventsKept'
  BY <1>1, <1>2 DEF EventsKept, Depth
<1>8. QED  BY <1>4, <1>5, <1>6, <1>7 DEF TxInv, SpansInv

-----------------------------------------------------------------------------
(* The theorems *)

LEMMA InitTxInv ==
    ASSUME Init
    PROVE  TxInv
<1>1. TypeOK
  BY RootCtxOK, BoundsAssumption DEF Init, TypeOK, Logs
<1>2. Depth = 0 /\ Len(spans) = 0
  BY DEF Init, Depth
<1>3. CallsInPhase /\ FramesOK /\ NextOK /\ ParentsOK
  BY <1>2 DEF Init, CallsInPhase, FramesOK, NextOK, ParentsOK
<1>4. EventsKept
  <2>1. \E logs : Kept(stack, logs, <<>>)
    BY <1>2, KeptNothing DEF Depth
  <2>2. QED  BY <1>2, <2>1 DEF EventsKept, Init
<1>5. ResponseFaithful
  BY DEF Init, ResponseFaithful
<1>6. QED  BY <1>1, <1>3, <1>4, <1>5 DEF TxInv, SpansInv

\* Decorated calls, one by one.
LEMMA NestedTxInv ==
    ASSUME TxInv, Nested
    PROVE  TxInv'
<1>1. ASSUME NEW ignoring \in BOOLEAN, EnterGuarded(ignoring) PROVE TxInv'
  <2> DEFINE traced == flags.tracerEnabled /\ IsTraceable(Top.ctx)
  <2>1. TypeOK /\ CallsInPhase /\ FramesOK /\ phase = "msg"
    BY <1>1 DEF TxInv, SpansInv, EnterGuarded, Enter
  <2>2. Depth \in Nat /\ Depth >= 2 /\ Top = stack[Depth]
    BY <2>1, TxTypes DEF CallsInPhase, Top
  <2>3. Top.ctx \in Contexts /\ CtxOK(Top.ctx)
    BY <2>1, <2>2, TxTypes DEF FramesOK, FrameOK
  <2>4. traced \in BOOLEAN /\ (traced <=> AnteTraced)
    BY <2>1, <2>3, GuardDecides
  <2>5. Enter(TRUE, traced, ignoring) /\ TRUE \in BOOLEAN
    BY <1>1 DEF EnterGuarded
  <2> HIDE DEF traced
  <2>6. QED  BY <2>4, <2>5, EnterStep
<1>2. ASSUME NEW traced \in BOOLEAN, NEW ignoring \in BOOLEAN, Enter(FALSE, traced, ignoring)
      PROVE  TxInv'
  <2>1. FALSE \in BOOLEAN /\ (FALSE => (traced <=> AnteTraced))
    OBVIOUS
  <2>2. QED  BY <1>2, <2>1, EnterStep
<1>3. /\ flags.tracerEnabled \in BOOLEAN /\ ServiceTraced \in BOOLEAN
      /\ QueryServiceTraced \in BOOLEAN
  BY TxTypes DEF TxInv, SpansInv, Flags, ServiceTraced, QueryServiceTraced
<1>4. TRUE \in BOOLEAN /\ FALSE \in BOOLEAN
  OBVIOUS
<1>5. CASE MsgRouter \/ GovRouter \/ DispatchMsg \/ HandleQuery \/ OnChannelHandshake \/ OnAckOrTimeout
  BY <1>1, <1>4, <1>5 DEF MsgRouter, GovRouter, DispatchMsg, HandleQuery, OnChannelHandshake, OnAckOrTimeout
<1>6. CASE OnRecvPacket
  BY <1>1, <1>4, <1>6 DEF OnRecvPacket
<1>7. CASE TraceWasmVm
  BY <1>2, <1>3, <1>4, <1>7 DEF TraceWasmVm
<1>8. CASE Service
  BY <1>2, <1>3, <1>4, <1>8 DEF Service
<1>9. CASE QueryService
  BY <1>2, <1>3, <1>4, <1>9 DEF QueryService
<1>10. CASE Return
  BY <1>10, ReturnStep
<1>11. QED  BY <1>5, <1>6, <1>7, <1>8, <1>9, <1>10 DEF Nested

LEMMA NextTxInv ==
    ASSUME TxInv, [Next]_vars
    PROVE  TxInv'
<1>1. CASE RunAnte
  BY <1>1, RunAnteStep
<1>2. CASE AnteOk
  BY <1>2, AnteOkStep
<1>3. CASE RunMsg
  BY <1>3, RunMsgStep
<1>4. CASE MsgOk
  BY <1>4, MsgOkStep
<1>5. CASE MsgFails
  BY <1>5, EndFailedStep DEF MsgFails
<1>6. CASE MsgPanics
  BY <1>6, EndFailedStep DEF MsgPanics
<1>7. CASE AllMsgsDone
  BY <1>7, QuietStep DEF AllMsgsDone
<1>8. CASE \E panicked \in BOOLEAN : AnteFails(panicked)
  BY <1>8, EndFailedStep DEF AnteFails
<1>9. CASE \E e \in Event : EmitEvent(e)
  BY <1>9, EmitEventStep
<1>10. CASE Nested
  BY <1>10, NestedTxInv
<1>11. CASE Register
  BY <1>11, RegisterStep
<1>12. CASE RunQuery
  BY <1>12, RunQueryStep
<1>13. CASE QueryOk
  BY <1>13, QueryOkStep
<1>14. CASE Terminated
  BY <1>14, StutterStep DEF Terminated
<1>15. CASE UNCHANGED vars
  BY <1>15, StutterStep
<1>16. QED
  BY <1>1, <1>2, <1>3, <1>4, <1>5, <1>6, <1>7, <1>8, <1>9, <1>10, <1>11, <1>12, <1>13,
     <1>14, <1>15 DEF Next

\* The invariant holds: types, contexts, parents of spans and events together.
THEOREM TxInvariant == Spec => []TxInv
<1>1. Init => TxInv
  BY InitTxInv
<1>2. TxInv /\ [Next]_vars => TxInv'
  BY NextTxInv
<1>3. QED  BY <1>1, <1>2, PTL DEF Spec

\* Frames, contexts, spans and logs have their types, in every behaviour of runTx
\* and of the decorators.
THEOREM TxTypeCorrect == Spec => []TypeOK
<1>1. TxInv => TypeOK
  BY DEF TxInv, SpansInv
<1>2. QED  BY <1>1, TxInvariant, PTL

\* Every decorator that asks IsTraceable decides as the ante handler did: the mark
\* of WithSimulation travels with the context however deep the calls are.
THEOREM DecidersAgree == Spec => []GuardsAgree
<1>1. TxInv => GuardsAgree
  <2> SUFFICES ASSUME TxInv PROVE GuardsAgree
    OBVIOUS
  <2>1. TypeOK /\ FramesOK
    BY DEF TxInv, SpansInv
  <2>2. DOMAIN stack = 1..Depth
    BY <2>1, TxTypes
  <2>3. QED  BY <2>1, <2>2 DEF GuardsAgree, FramesOK, FrameOK
<1>2. QED  BY <1>1, TxInvariant, PTL

\* A transaction, or query, that is traced is one trace: every span but the first
\* is a child of an earlier one, through ante handler, messages and nested calls.
THEOREM TracedAsOne == Spec => []OneTrace
<1>1. TxInv => OneTrace
  <2> SUFFICES ASSUME TxInv PROVE OneTrace
    OBVIOUS
  <2>1. TypeOK /\ ParentsOK
    BY DEF TxInv, SpansInv
  <2>2. DOMAIN spans = 1..Len(spans)
    BY <2>1, TxTypes
  <2>3. QED  BY <2>1, <2>2 DEF OneTrace, ParentsOK, TraceRooted
<1>2. QED  BY <1>1, TxInvariant, PTL

\* A decorated service never unwraps a context that has no sdk.Context in it.
THEOREM ContextAlwaysFound == Spec => []ContextFound
<1>1. TxInv => ContextFound
  <2> SUFFICES ASSUME TxInv PROVE ContextFound
    OBVIOUS
  <2>1. TypeOK /\ CallsInPhase /\ FramesOK
    BY DEF TxInv, SpansInv
  <2>2. DOMAIN stack = 1..Depth
    BY <2>1, TxTypes
  <2>3. QED  BY <2>1, <2>2 DEF ContextFound, CallsInPhase, FramesOK, FrameOK, CtxOK
<1>2. QED  BY <1>1, TxInvariant, PTL

\* The response has the events the undecorated application emitted, each once and in
\* order, although the decorators work on event managers of their own.
THEOREM ResponseIsFaithful == Spec => []ResponseFaithful
<1>1. TxInv => ResponseFaithful
  BY DEF TxInv
<1>2. QED  BY <1>1, TxInvariant, PTL
=============================================================================
