----------------------------- MODULE TracingProofs -----------------------------
(***************************************************************************)
(* Proofs about Tracing and Transparency, for every program, every number  *)
(* of calls and every value of the constants: the shape of the state, what *)
(* becomes of the events, the refinement of Untraced, and what the spans   *)
(* say about the calls they stand for.  They settle with their calls, they *)
(* nest in time, and their gas traces and store logs account for what the  *)
(* calls did.                                                              *)
(***************************************************************************)
EXTENDS Transparency, TLAPS, SequenceTheorems, WellFoundedInduction

-----------------------------------------------------------------------------
(* Facts about sequences *)

\* What DoWithTracing and the layers build element by element is a sequence.
LEMMA SeqMade ==
    ASSUME NEW S, NEW n \in Nat, NEW f \in [1..n -> S]
    PROVE  f \in Seq(S) /\ Len(f) = n
  OBVIOUS

LEMMA SeqUpdated ==
    ASSUME NEW S, NEW s \in Seq(S), NEW i \in 1..Len(s), NEW x \in S
    PROVE  /\ [s EXCEPT ![i] = x] \in Seq(S)
           /\ Len([s EXCEPT ![i] = x]) = Len(s)
           /\ \A j \in 1..Len(s) : [s EXCEPT ![i] = x][j] = IF j = i THEN x ELSE s[j]
  OBVIOUS

LEMMA SeqShortened ==
    ASSUME NEW S, NEW s \in Seq(S), s # <<>>
    PROVE  /\ SubSeq(s, 1, Len(s) - 1) \in Seq(S)
           /\ Len(SubSeq(s, 1, Len(s) - 1)) = Len(s) - 1
           /\ \A j \in 1..(Len(s) - 1) : SubSeq(s, 1, Len(s) - 1)[j] = s[j]
<1>1. Len(s) \in Nat /\ Len(s) >= 1
  OBVIOUS
<1>2. SubSeq(s, 1, Len(s) - 1) \in Seq(S)
  OBVIOUS
<1>3. \A j \in 1..(Len(s) - 1) : SubSeq(s, 1, Len(s) - 1)[j] = s[j]
  OBVIOUS
<1>4. Len(SubSeq(s, 1, Len(s) - 1)) = Len(s) - 1
  BY <1>1
<1>5. QED  BY <1>2, <1>3, <1>4

LEMMA SeqGrown ==
    ASSUME NEW S, NEW s \in Seq(S), NEW x \in S
    PROVE  /\ Append(s, x) \in Seq(S)
           /\ Len(Append(s, x)) = Len(s) + 1
           /\ \A j \in 1..(Len(s) + 1) : Append(s, x)[j] = IF j <= Len(s) THEN s[j] ELSE x
  OBVIOUS
-----------------------------------------------------------------------------
(* Type correctness of Tracing *)

TypeInv == TypeOK /\ ContextsLineUp

\* The running context, its span and its branch exist.
LEMMA TopFacts ==
    ASSUME TypeInv
    PROVE  /\ Depth \in Nat /\ Depth >= 1 /\ Len(stores) \in Nat /\ Len(stores) >= 1
           /\ Len(spans) \in Nat
           /\ stack \in Seq(Contexts) /\ spans \in Seq(Spans) /\ stores \in Seq([Key -> Value])
           /\ Top \in Contexts /\ Top.ms.base = Len(stores)
           /\ stores[Len(stores)] \in [Key -> Value]
           /\ Top.kind # "root" => Depth >= 2 /\ Caller \in Contexts
           /\ Top.kind = "call" => /\ Top.span \in 1..Len(spans) /\ Top.clock \in Clocks
                                   /\ Caller.ms.base = Len(stores)
           /\ Top.kind = "branch" => Len(stores) >= 2 /\ Caller.ms.base = Len(stores) - 1
           /\ \A s \in 1..Len(spans) : spans[s] \in Spans
<1> USE DEF TypeInv
<1>1. /\ Depth \in Nat /\ Depth >= 1 /\ Len(stores) \in Nat /\ Len(spans) \in Nat
      /\ stack \in Seq(Contexts) /\ spans \in Seq(Spans) /\ stores \in Seq([Key -> Value])
      /\ Top \in Contexts
      /\ \A i \in 1..Depth : stack[i] \in Contexts
      /\ \A s \in 1..Len(spans) : spans[s] \in Spans
  BY DEF TypeOK, Depth, Top
<1>2. Top.ms.base = Len(stores) /\ Top.ms.base >= 1
  BY <1>1 DEF ContextsLineUp, StoresLineUp, Top
<1>3. stores[Len(stores)] \in [Key -> Value]
  BY <1>1, <1>2
<1>4. ASSUME Top.kind # "root"
      PROVE  Depth >= 2 /\ Depth - 1 \in 1..Depth /\ Caller \in Contexts
  <2>1. Depth # 1
    BY <1>1, <1>4 DEF ContextsLineUp, StoresLineUp, Top
  <2>2. Depth >= 2 /\ Depth - 1 \in 1..Depth
    BY <1>1, <2>1
  <2>3. QED  BY <1>1, <2>2 DEF Caller
<1>5. ASSUME Top.kind = "call"
      PROVE  /\ Top.span \in 1..Len(spans) /\ Top.clock \in Clocks
             /\ Caller.ms.base = Len(stores)
  <2>1. Top.span \in 1..Len(spans) /\ Top.clock # NoClock
    BY <1>1, <1>5 DEF ContextsLineUp, SpansExist, Top
  <2>2. Top.clock \in Clocks \cup {NoClock}
    BY <1>1 DEF Contexts
  <2>3. Caller.ms.base = Len(stores)
    BY <1>1, <1>2, <1>4, <1>5 DEF ContextsLineUp, StoresLineUp, Top, Caller
  <2>4. QED  BY <2>1, <2>2, <2>3
<1>6. ASSUME Top.kind = "branch"
      PROVE  Len(stores) >= 2 /\ Caller.ms.base = Len(stores) - 1
  <2>1. Top.ms.base = Caller.ms.base + 1 /\ Caller.ms.base >= 1
    BY <1>1, <1>4, <1>6 DEF ContextsLineUp, StoresLineUp, Top, Caller
  <2>2. Caller.ms.base \in Nat
    BY <1>4, <1>6 DEF Contexts, MultiStores
  <2>3. QED  BY <1>2, <2>1, <2>2
<1>7. QED  BY <1>1, <1>2, <1>3, <1>4, <1>5, <1>6

\* The stack changes only at its top.
LEMMA TopChanged ==
    ASSUME TypeInv, NEW c \in Contexts,
           c.kind = Top.kind, c.ms = Top.ms, c.span = Top.span, c.clock = Top.clock,
           Started(c.ignoring, Len(spans')),
           stack' = [stack EXCEPT ![Depth] = c],
           Len(spans') \in Nat, Len(spans') >= Len(spans), Len(stores') = Len(stores)
    PROVE  stack' \in Seq(Contexts) /\ stack' # <<>> /\ ContextsLineUp'
<1>1. /\ stack' \in Seq(Contexts) /\ Depth' = Depth /\ Depth \in Nat /\ Depth >= 1
      /\ \A i \in 1..Depth : stack'[i] = IF i = Depth THEN c ELSE stack[i]
  BY TopFacts, SeqUpdated DEF Depth
<1>2. stack' # <<>>
  BY <1>1 DEF Depth
<1>3. \A i \in 1..Depth : /\ stack'[i].kind = stack[i].kind
                          /\ stack'[i].ms = stack[i].ms
                          /\ stack'[i].span = stack[i].span
                          /\ stack'[i].clock = stack[i].clock
  BY <1>1 DEF Top
<1>4. StoresLineUp'
  BY <1>1, <1>3 DEF TypeInv, ContextsLineUp, StoresLineUp, Top
<1>5. SpansExist'
  <2>1. \A i \in 1..Depth :
          /\ stack[i].kind = "call" => stack[i].span \in 1..Len(spans') /\ stack[i].clock # NoClock
          /\ Started(stack[i].ignoring, Len(spans'))
    BY TopFacts DEF TypeInv, ContextsLineUp, SpansExist, Started
  <2>2. \A i \in 1..Depth : Started(stack'[i].ignoring, Len(spans'))
    BY <1>1, <2>1
  <2>3. QED  BY <1>1, <1>3, <2>1, <2>2 DEF SpansExist
<1>6. QED  BY <1>1, <1>2, <1>4, <1>5 DEF ContextsLineUp

\* A context is pushed.
LEMMA Pushed ==
    ASSUME TypeInv, NEW c \in Contexts, c.ignoring = <<>>,
           stack' = Append(stack, c),
           \/ /\ c.kind = "call" /\ c.ms.base = Top.ms.base
              /\ c.span \in 1..Len(spans') /\ c.clock # NoClock
           \/ c.kind = "branch" /\ c.ms.base = Top.ms.base + 1,
           Len(spans') \in Nat, Len(spans') >= Len(spans), Len(stores') = c.ms.base
    PROVE  stack' \in Seq(Contexts) /\ stack' # <<>> /\ ContextsLineUp'
<1> USE DEF Depth
<1>1. /\ stack' \in Seq(Contexts) /\ Depth' = Depth + 1 /\ Depth \in Nat /\ Depth >= 1
      /\ \A i \in 1..(Depth + 1) : stack'[i] = IF i <= Depth THEN stack[i] ELSE c
  BY TopFacts, SeqGrown DEF Depth
<1>2. stack' # <<>>
  BY <1>1 DEF Depth
<1>3. /\ \A i \in 1..Depth : stack'[i] = stack[i]
      /\ stack'[Depth + 1] = c
  BY <1>1
<1>4. StoresLineUp'
  <2>1. stack'[1] = stack[1]
    BY <1>1, <1>3
  <2>2. \A i \in 2..(Depth + 1) :
          /\ stack'[i].kind # "root"
          /\ stack'[i].kind = "call" => stack'[i].ms.base = stack'[i - 1].ms.base
          /\ stack'[i].kind = "branch" => stack'[i].ms.base = stack'[i - 1].ms.base + 1
    <3> SUFFICES ASSUME NEW i \in 2..(Depth + 1)
                 PROVE  /\ stack'[i].kind # "root"
                        /\ stack'[i].kind = "call" => stack'[i].ms.base = stack'[i - 1].ms.base
                        /\ stack'[i].kind = "branch" => stack'[i].ms.base = stack'[i - 1].ms.base + 1
      OBVIOUS
    <3>1. CASE i <= Depth
      BY <1>1, <1>3, <3>1 DEF TypeInv, ContextsLineUp, StoresLineUp
    <3>2. CASE i = Depth + 1
      BY <1>1, <1>3, <3>2 DEF Top
    <3>3. QED  BY <1>1, <3>1, <3>2
  <2>3. \A i \in 1..(Depth + 1) : stack'[i].ms.base >= 1
    <3>1. c.ms.base >= 1
      BY <1>1, TopFacts
    <3>2. \A i \in 1..Depth : stack'[i].ms.base >= 1
      BY <1>3 DEF TypeInv, ContextsLineUp, StoresLineUp
    <3>3. QED  BY <1>1, <1>3, <3>1, <3>2
  <2>4. QED  BY <1>1, <1>3, <2>1, <2>2, <2>3 DEF TypeInv, ContextsLineUp, StoresLineUp, Top
<1>5. SpansExist'
  <2>1. \A i \in 1..Depth :
          /\ stack[i].kind = "call" => stack[i].span \in 1..Len(spans') /\ stack[i].clock # NoClock
          /\ Started(stack[i].ignoring, Len(spans'))
    BY TopFacts DEF TypeInv, ContextsLineUp, SpansExist, Started
  <2>2. Started(c.ignoring, Len(spans'))
    BY DEF Started
  <2>3. QED  BY <1>1, <1>3, <2>1, <2>2 DEF SpansExist
<1>6. QED  BY <1>1, <1>2, <1>4, <1>5 DEF ContextsLineUp

\* A context is popped and its caller may have received events.
LEMMA PoppedTo ==
    ASSUME TypeInv, Top.kind # "root", NEW c \in Contexts,
           c.kind = Caller.kind, c.ms = Caller.ms, c.span = Caller.span,
           c.clock = Caller.clock, c.ignoring = Caller.ignoring,
           stack' = [i \in 1..(Depth - 1) |-> IF i = Depth - 1 THEN c ELSE stack[i]],
           Len(spans') = Len(spans), Len(stores') = Caller.ms.base
    PROVE  stack' \in Seq(Contexts) /\ stack' # <<>> /\ ContextsLineUp'
<1> USE DEF Depth
<1>1. /\ Depth \in Nat /\ Depth >= 2 /\ \A i \in 1..Depth : stack[i] \in Contexts
  BY TopFacts DEF Depth
<1>2. /\ stack' \in Seq(Contexts) /\ Len(stack') = Depth - 1
      /\ \A i \in 1..(Depth - 1) : stack'[i] = IF i = Depth - 1 THEN c ELSE stack[i]
  <2>1. Depth - 1 \in Nat /\ stack' \in [1..(Depth - 1) -> Contexts]
    BY <1>1
  <2>2. QED  BY <2>1, SeqMade
<1>3. Depth' = Depth - 1 /\ stack' # <<>>
  <2>1. Len(stack') # 0
    BY <1>1, <1>2
  <2>2. Len(<<>>) = 0
    OBVIOUS
  <2>3. QED  BY <1>2, <2>1, <2>2
<1>4. \A i \in 1..(Depth - 1) : /\ stack'[i].kind = stack[i].kind
                                /\ stack'[i].ms = stack[i].ms
                                /\ stack'[i].span = stack[i].span
                                /\ stack'[i].clock = stack[i].clock
                                /\ stack'[i].ignoring = stack[i].ignoring
  <2> SUFFICES ASSUME NEW i \in 1..(Depth - 1)
               PROVE  /\ stack'[i].kind = stack[i].kind
                      /\ stack'[i].ms = stack[i].ms
                      /\ stack'[i].span = stack[i].span
                      /\ stack'[i].clock = stack[i].clock
                      /\ stack'[i].ignoring = stack[i].ignoring
    OBVIOUS
  <2>1. CASE i = Depth - 1
    BY <1>1, <1>2, <2>1 DEF Caller
  <2>2. CASE i # Depth - 1
    BY <1>1, <1>2, <2>2
  <2>3. QED  BY <2>1, <2>2
<1>5. StoresLineUp'
  <2>1. \A i \in 1..(Depth - 1) :
          /\ stack'[i].kind = stack[i].kind
          /\ stack'[i].ms.base = stack[i].ms.base
    BY <1>4
  <2>2. Top.ms.base' = Len(stores')
    BY <1>1, <1>3, <2>1 DEF Top, Caller
  <2>3. StoresLineUp
    BY DEF TypeInv, ContextsLineUp
  <2>4. stack'[1].kind = "root" /\ stack'[1].ms.base = 1
    <3>1. 1 \in 1..(Depth - 1)
      BY <1>1
    <3>2. QED  BY <2>1, <2>3, <3>1 DEF StoresLineUp
  <2>5. ASSUME NEW i \in 2..(Depth - 1)
        PROVE  /\ stack'[i].kind # "root"
               /\ stack'[i].kind = "call" => stack'[i].ms.base = stack'[i - 1].ms.base
               /\ stack'[i].kind = "branch" => stack'[i].ms.base = stack'[i - 1].ms.base + 1
    <3>1. i \in 2..Depth /\ i \in 1..(Depth - 1) /\ i - 1 \in 1..(Depth - 1)
      BY <1>1
    <3>2. QED  BY <2>1, <2>3, <3>1 DEF StoresLineUp
  <2>6. \A i \in 1..(Depth - 1) : stack'[i].ms.base >= 1
    <3>1. \A i \in 1..(Depth - 1) : i \in 1..Depth
      BY <1>1
    <3>2. QED  BY <2>1, <2>3, <3>1 DEF StoresLineUp
  <2>7. QED  BY <1>1, <1>3, <2>2, <2>4, <2>5, <2>6 DEF StoresLineUp
<1>6. SpansExist'
  <2>1. SpansExist
    BY DEF TypeInv, ContextsLineUp
  <2>2. ASSUME NEW i \in 1..(Depth - 1)
        PROVE  /\ stack'[i].kind = "call" =>
                     stack'[i].span \in 1..Len(spans) /\ stack'[i].clock # NoClock
               /\ Started(stack'[i].ignoring, Len(spans))
    <3>1. i \in 1..Depth
      BY <1>1
    <3>2. QED  BY <1>4, <2>1, <3>1 DEF SpansExist
  <2>3. QED  BY <1>3, <2>2 DEF SpansExist
<1>7. QED  BY <1>2, <1>3, <1>5, <1>6 DEF ContextsLineUp

\* The clock arithmetic of context.go yields clocks and times.
LEMMA ClockTypes ==
    ASSUME NEW clock \in Clocks \cup {NoClock}, NEW now \in Int, NEW t \in Int
    PROVE  ClockOf(clock, now, t) \in Clocks /\ TimeOf(clock, now, t) \in Int
<1>1. CASE clock = NoClock
  BY <1>1 DEF ClockOf, TimeOf, NewBlockTimeClock, Clocks
<1>2. CASE clock # NoClock
  BY <1>2 DEF ClockOf, TimeOf, Now, Clocks
<1>3. QED  BY <1>1, <1>2

\* The fields of a span that the meters, the store layers and an unwinding
\* panic change.
LEMMA SpanUpdates ==
    ASSUME NEW span \in Spans
    PROVE  /\ \A trace \in GasTraces :
                [span EXCEPT !.application = Append(@, trace)] \in Spans
           /\ \A io \in Seq({"read", "write"} \X Key), g \in Nat :
                [span EXCEPT !.io = io, !.storage = g] \in Spans
           /\ [span EXCEPT !.state = "lost"] \in Spans
           /\ span.io \in Seq({"read", "write"} \X Key)
           /\ span.storage \in Nat
<1>1. ASSUME NEW trace \in GasTraces
      PROVE  [span EXCEPT !.application = Append(@, trace)] \in Spans
  <2>1. Append(span.application, trace) \in Seq(GasTraces)
    BY DEF Spans
  <2>2. QED  BY <2>1 DEF Spans
<1>2. ASSUME NEW io \in Seq({"read", "write"} \X Key), NEW g \in Nat
      PROVE  [span EXCEPT !.io = io, !.storage = g] \in Spans
  BY DEF Spans
<1>3. [span EXCEPT !.state = "lost"] \in Spans
  BY DEF Spans
<1>4. span.io \in Seq({"read", "write"} \X Key) /\ span.storage \in Nat
  BY DEF Spans
<1>5. QED  BY <1>1, <1>2, <1>3, <1>4

LEMMA MeteredTypes ==
    ASSUME NEW sp \in Seq(Spans), NEW trace \in GasTraces
    PROVE  Metered(sp, trace) \in Seq(Spans) /\ Len(Metered(sp, trace)) = Len(sp)
<1>1. Len(sp) \in Nat /\ DOMAIN sp = 1..Len(sp)
  OBVIOUS
<1>2. ASSUME NEW s \in 1..Len(sp)
      PROVE  [sp[s] EXCEPT !.application = Append(@, trace)] \in Spans /\ sp[s] \in Spans
  <2>1. sp[s] \in Spans
    OBVIOUS
  <2>2. QED  BY <2>1, SpanUpdates
<1>3. Metered(sp, trace) \in [1..Len(sp) -> Spans]
  BY <1>1, <1>2 DEF Metered
<1>4. QED  BY <1>1, <1>3, SeqMade

LEMMA ChargedTypes ==
    ASSUME NEW sp \in Seq(Spans), NEW amount \in Nat, gas \in Nat
    PROVE  /\ Charged(sp, amount) \in Seq(Spans) /\ Len(Charged(sp, amount)) = Len(sp)
           /\ Credited(sp, amount) \in Seq(Spans) /\ Len(Credited(sp, amount)) = Len(sp)
<1>1. ConsumeGasTrace(amount, gas) \in GasTraces /\ RefundGasTrace(amount, gas) \in GasTraces
  BY DEF ConsumeGasTrace, RefundGasTrace, NewGasTrace, GasTraces
<1>2. QED  BY <1>1, MeteredTypes DEF Charged, Credited

LEMMA RecordedTypes ==
    ASSUME NEW sp \in Seq(Spans), NEW records, NEW charges,
           NEW op \in {"read", "write"}, NEW k \in Key
    PROVE  /\ Recorded(sp, records, charges, op, k) \in Seq(Spans)
           /\ Len(Recorded(sp, records, charges, op, k)) = Len(sp)
<1>1. Len(sp) \in Nat /\ DOMAIN sp = 1..Len(sp)
  OBVIOUS
<1>2. ASSUME NEW s \in 1..Len(sp), NEW io \in Seq({"read", "write"} \X Key), NEW g \in Nat
      PROVE  [sp[s] EXCEPT !.io = io, !.storage = g] \in Spans
  <2>1. sp[s] \in Spans
    OBVIOUS
  <2>2. QED  BY <2>1, SpanUpdates
<1>3. ASSUME NEW s \in 1..Len(sp)
      PROVE  /\ (IF s \in records THEN Append(sp[s].io, <<op, k>>) ELSE sp[s].io)
                    \in Seq({"read", "write"} \X Key)
             /\ (IF s \in charges THEN sp[s].storage + AccessGas ELSE sp[s].storage) \in Nat
  <2> sp[s] \in Spans
    OBVIOUS
  <2>1. sp[s].io \in Seq({"read", "write"} \X Key) /\ sp[s].storage \in Nat
    BY SpanUpdates
  <2>2. <<op, k>> \in {"read", "write"} \X Key
    OBVIOUS
  <2>3. QED  BY <2>1, <2>2, ConstantsAssumption
<1>4. Recorded(sp, records, charges, op, k) \in [1..Len(sp) -> Spans]
  BY <1>1, <1>2, <1>3 DEF Recorded
<1>5. QED  BY <1>1, <1>4, SeqMade

LEMMA LostTypes ==
    ASSUME spans \in Seq(Spans), NEW ids
    PROVE  Lost(ids) \in Seq(Spans) /\ Len(Lost(ids)) = Len(spans)
<1>1. Len(spans) \in Nat /\ DOMAIN spans = 1..Len(spans)
  OBVIOUS
<1>2. ASSUME NEW s \in 1..Len(spans)
      PROVE  [spans[s] EXCEPT !.state = "lost"] \in Spans /\ spans[s] \in Spans
  <2>1. spans[s] \in Spans
    OBVIOUS
  <2>2. QED  BY <2>1, SpanUpdates
<1>3. Lost(ids) \in [1..Len(spans) -> Spans]
  BY <1>1, <1>2 DEF Lost
<1>4. QED  BY <1>1, <1>3, SeqMade

LEMMA FinishedTypes ==
    ASSUME NEW span \in Spans, NEW clock \in Clocks, sys \in Int,
           NEW events \in Seq(Event), NEW failed \in BOOLEAN
    PROVE  Finished(span, clock, events, failed) \in Spans
<1>1. Now(clock, sys) \in Int
  BY DEF Now, Clocks
<1>2. QED  BY <1>1 DEF Finished, Spans

LEMMA NewSpanTypes ==
    ASSUME TypeInv, NEW log \in LogSetting
    PROVE  NewSpan(log, Top.clock) \in Spans
<1>1. Top.clock \in Clocks \cup {NoClock} /\ Top.span \in Nat /\ sys \in Int
  BY TopFacts DEF Contexts, TypeInv, TypeOK
<1>2. TimeOf(Top.clock, sys, BlockTime) \in Int
  BY <1>1, ClockTypes, ConstantsAssumption
<1>3. QED  BY <1>1, <1>2 DEF NewSpan, Spans, NoTime

\* Starting a span, with and without a work context for the callback.
LEMMA StartSpanTypes ==
    ASSUME TypeInv, NEW log \in LogSetting, StartSpan(log)
    PROVE  spans' \in Seq(Spans) /\ Len(spans') = Len(spans) + 1 /\ Len(spans) \in Nat
<1>1. NewSpan(log, Top.clock) \in Spans
  BY NewSpanTypes
<1>2. QED  BY <1>1, TopFacts, SeqGrown DEF StartSpan

LEMMA WorkCtxTypes ==
    ASSUME TypeInv, NEW log \in LogSetting
    PROVE  /\ WorkCtx(log) \in Contexts /\ WorkCtx(log).kind = "call"
           /\ WorkCtx(log).ms.base = Top.ms.base /\ WorkCtx(log).ignoring = <<>>
           /\ WorkCtx(log).span = Len(spans) + 1 /\ WorkCtx(log).em = <<>>
           /\ WorkCtx(log).clock # NoClock
<1> DEFINE s  == Len(spans) + 1
           ms == IF log = "nothing" THEN Top.ms
                 ELSE NewTracingMultiStore(Top.ms, s, log = "writesOnly")
<1>1. /\ s \in Nat /\ sys \in Int /\ Top.ms \in MultiStores
      /\ Top.clock \in Clocks \cup {NoClock} /\ Top.meters \in SUBSET Nat
  BY TopFacts DEF TypeInv, TypeOK, Contexts
<1>2. ClockOf(Top.clock, sys, BlockTime) \in Clocks
  BY <1>1, ClockTypes, ConstantsAssumption
<1>3. ms \in MultiStores /\ ms.base = Top.ms.base
  <2>1. CASE log = "nothing"
    BY <1>1, <2>1
  <2>2. CASE log # "nothing"
    <3>1. [span |-> s, writesOnly |-> (log = "writesOnly")] \in Layers
      BY <1>1 DEF Layers
    <3>2. Append(Top.ms.layers, [span |-> s, writesOnly |-> (log = "writesOnly")]) \in Seq(Layers)
      BY <1>1, <3>1 DEF MultiStores
    <3>3. QED  BY <1>1, <2>2, <3>2 DEF MultiStores, NewTracingMultiStore
  <2>3. QED  BY <2>1, <2>2
<1>4. Top.meters \cup {s} \in SUBSET Nat
  BY <1>1
<1> HIDE DEF ms
<1>5. WorkCtx(log) = [kind |-> "call", em |-> <<>>, span |-> s,
                      clock |-> ClockOf(Top.clock, sys, BlockTime), ms |-> ms,
                      meters |-> Top.meters \cup {s}, ignoring |-> <<>>]
  BY DEF WorkCtx, ms
<1>6. ClockOf(Top.clock, sys, BlockTime) # NoClock
  BY <1>2, NoClockAssumption
<1>7. QED  BY <1>1, <1>2, <1>3, <1>4, <1>5, <1>6 DEF Contexts

LEMMA BranchCtxTypes ==
    ASSUME TypeInv
    PROVE  /\ BranchCtx \in Contexts /\ BranchCtx.kind = "branch"
           /\ BranchCtx.ms.base = Top.ms.base + 1 /\ BranchCtx.ignoring = <<>>
           /\ BranchCtx.em = <<>>
<1>1. Top \in Contexts /\ Top.ms.base \in Nat
  BY TopFacts DEF Contexts, MultiStores
<1>2. CacheMultiStore(Top.ms) \in MultiStores /\ CacheMultiStore(Top.ms).base = Top.ms.base + 1
  BY <1>1 DEF CacheMultiStore, PlainMultiStore, MultiStores
<1>3. ASSUME NEW ms \in MultiStores
      PROVE  LET c == [Top EXCEPT !.kind = "branch", !.em = <<>>, !.ignoring = <<>>, !.ms = ms]
             IN  c \in Contexts /\ c.kind = "branch" /\ c.ms = ms /\ c.ignoring = <<>> /\ c.em = <<>>
  <2>1. <<>> \in Seq(Event) /\ <<>> \in Seq(IgnoringCalls)
    OBVIOUS
  <2>2. QED  BY <1>1, <2>1 DEF Contexts
<1>4. QED  BY <1>2, <1>3 DEF BranchCtx

\* Popping without handing anything back: the caller stays as it is.
LEMMA PopIsPoppedTo ==
    ASSUME TypeInv, Top.kind # "root"
    PROVE  SubSeq(stack, 1, Depth - 1)
               = [i \in 1..(Depth - 1) |-> IF i = Depth - 1 THEN Caller ELSE stack[i]]
<1> USE DEF Depth
<1>1. stack \in Seq(Contexts) /\ stack # <<>> /\ Depth \in Nat /\ Depth >= 2
  BY TopFacts DEF TypeInv, TypeOK
<1>2. SubSeq(stack, 1, Depth - 1) = [i \in 1..(Depth - 1) |-> stack[i]]
  BY <1>1
<1>3. QED  BY <1>1, <1>2 DEF Caller

\* A cache branch is dropped.
LEMMA StoresPopped ==
    ASSUME TypeInv, Top.kind = "branch"
    PROVE  /\ SubSeq(stores, 1, Len(stores) - 1) \in Seq([Key -> Value])
           /\ Len(SubSeq(stores, 1, Len(stores) - 1)) = Caller.ms.base
<1>1. stores \in Seq([Key -> Value]) /\ Len(stores) \in Nat /\ Len(stores) >= 2
      /\ Caller.ms.base = Len(stores) - 1
  BY TopFacts
<1>2. stores # <<>>
  BY <1>1
<1>3. QED  BY <1>1, <1>2, SeqShortened

LEMMA AppliedTypes ==
    ASSUME TypeInv, NEW op \in {"read", "write"}, NEW k \in Key, NEW v \in Value
    PROVE  Applied(op, k, v) \in Seq([Key -> Value]) /\ Len(Applied(op, k, v)) = Len(stores)
<1>1. /\ stores \in Seq([Key -> Value]) /\ Top.ms.base \in 1..Len(stores)
      /\ stores[Top.ms.base] \in [Key -> Value]
  BY TopFacts
<1>2. [stores[Top.ms.base] EXCEPT ![k] = v] \in [Key -> Value]
  BY <1>1
<1>3. [stores EXCEPT ![Top.ms.base][k] = v]
          = [stores EXCEPT ![Top.ms.base] = [stores[Top.ms.base] EXCEPT ![k] = v]]
  BY <1>1
<1>4. ASSUME NEW d \in [Key -> Value]
      PROVE  /\ [stores EXCEPT ![Top.ms.base] = d] \in Seq([Key -> Value])
             /\ Len([stores EXCEPT ![Top.ms.base] = d]) = Len(stores)
  BY <1>1, SeqUpdated
<1>5. CASE op = "write"
  BY <1>2, <1>3, <1>4, <1>5 DEF Applied
<1>6. CASE op # "write"
  BY <1>1, <1>6 DEF Applied
<1>7. QED  BY <1>5, <1>6

-----------------------------------------------------------------------------
LEMMA InitTypeInv == Init => TypeInv
<1> SUFFICES ASSUME Init PROVE TypeInv
  OBVIOUS
<1>1. PlainMultiStore(1) \in MultiStores /\ PlainMultiStore(1).base = 1
  BY DEF PlainMultiStore, MultiStores
<1>2. [kind |-> "root", em |-> <<>>, span |-> 0, clock |-> NoClock,
       ms |-> PlainMultiStore(1), meters |-> {}, ignoring |-> <<>>] \in Contexts
  BY <1>1 DEF Contexts
<1>3. stack \in Seq(Contexts) /\ Depth = 1 /\ stack # <<>> /\ stack[1].kind = "root"
      /\ stack[1].ms.base = 1 /\ stack[1].ignoring = <<>>
  BY <1>1, <1>2 DEF Init, Depth
<1>4. spans \in Seq(Spans) /\ Len(spans) = 0
  BY DEF Init
<1>5. stores \in Seq([Key -> Value]) /\ Len(stores) = 1
  <2>1. PICK v \in Value : stores = <<[k \in Key |-> v]>>
    BY DEF Init
  <2>2. [k \in Key |-> v] \in [Key -> Value]
    OBVIOUS
  <2>3. QED  BY <2>1, <2>2
<1>6. TypeOK
  BY <1>3, <1>4, <1>5 DEF TypeOK, Init
<1>7. ContextsLineUp
  <2>1. StoresLineUp
    BY <1>3, <1>5 DEF StoresLineUp, Top
  <2>2. Started(<<>>, Len(spans))
    BY DEF Started
  <2>3. SpansExist
    BY <1>3, <1>4, <2>2 DEF SpansExist
  <2>4. QED  BY <2>1, <2>3 DEF ContextsLineUp
<1>8. QED  BY <1>6, <1>7 DEF TypeInv

\* Steps that leave the contexts alone.
LEMMA StackUnchanged ==
    ASSUME TypeInv, UNCHANGED stack, Len(spans') = Len(spans), Len(stores') = Len(stores)
    PROVE  stack' \in Seq(Contexts) /\ stack' # <<>> /\ ContextsLineUp'
  BY DEF TypeInv, TypeOK, ContextsLineUp, StoresLineUp, SpansExist, Top, Depth

LEMMA NextTypeInv == TypeInv /\ [Next]_vars => TypeInv'
<1> SUFFICES ASSUME TypeInv, [Next]_vars PROVE TypeInv'
  OBVIOUS
<1>0. /\ gas \in Nat /\ sys \in Nat /\ steps \in Nat
      /\ mode \in {"run", "panic", "done", "aborted"}
  BY DEF TypeInv, TypeOK
<1>1. ASSUME NEW e \in Event, EmitEvent(e)
      PROVE  TypeInv'
  <2> DEFINE c == [Top EXCEPT !.em = Append(@, e)]
  <2>1. stack' = [stack EXCEPT ![Depth] = c]
    BY <1>1 DEF EmitEvent, Top
  <2>2. /\ c \in Contexts /\ c.kind = Top.kind /\ c.ms = Top.ms /\ c.span = Top.span
        /\ c.clock = Top.clock /\ c.ignoring = Top.ignoring
    <3>1. Top \in Contexts
      BY TopFacts
    <3>2. Append(Top.em, e) \in Seq(Event)
      BY <3>1 DEF Contexts
    <3>3. QED  BY <3>1, <3>2 DEF Contexts
  <2>3. Started(Top.ignoring, Len(spans))
    BY TopFacts DEF TypeInv, ContextsLineUp, SpansExist, Top
  <2> HIDE DEF c
  <2>4. stack' \in Seq(Contexts) /\ stack' # <<>> /\ ContextsLineUp'
    <3>1. Started(c.ignoring, Len(spans')) /\ Len(stores') = Len(stores)
          /\ Len(spans') \in Nat /\ Len(spans') >= Len(spans)
      BY <1>1, <2>2, <2>3, TopFacts DEF EmitEvent
    <3>2. QED  BY <2>1, <2>2, <3>1, TopChanged
  <2>5. QED  BY <1>0, <1>1, <2>4 DEF EmitEvent, Step, TypeInv, TypeOK
<1>2. ASSUME NEW n \in {1, 2}, ConsumeGas(n) \/ RefundGas(n)
      PROVE  TypeInv'
  <2>1. spans' \in Seq(Spans) /\ Len(spans') = Len(spans)
    BY <1>0, <1>2, TopFacts, ChargedTypes DEF ConsumeGas, RefundGas
  <2>2. gas' \in Nat
    BY <1>0, <1>2 DEF ConsumeGas, RefundGas, Consumed, Refunded, RefundRefused
  <2>3. mode' \in {"run", "panic"} /\ UNCHANGED <<stack, stores, sys>> /\ steps' = steps + 1
    BY <1>2 DEF ConsumeGas, RefundGas, Step
  <2>4. QED  BY <1>0, <2>1, <2>2, <2>3, StackUnchanged DEF TypeInv, TypeOK
<1>3. ASSUME NEW op \in {"read", "write"}, NEW k \in Key, NEW v \in Value,
             KVStore(op, k, v) \/ Store(op, k, v)
      PROVE  TypeInv'
  <2>1. /\ Charged(spans, AccessGas) \in Seq(Spans)
        /\ Len(Charged(spans, AccessGas)) = Len(spans)
    BY <1>0, TopFacts, ChargedTypes, ConstantsAssumption
  <2>2. spans' \in Seq(Spans) /\ Len(spans') = Len(spans)
    <3>1. CASE KVStore(op, k, v)
      <4>1. \/ spans' = Charged(spans, AccessGas)
            \/ spans' = Recorded(Charged(spans, AccessGas), KVStoreRecords(Top.ms, op),
                                 KVStoreCharges(Top.ms), op, k)
        BY <3>1 DEF KVStore
      <4>2. \A r, c : /\ Recorded(Charged(spans, AccessGas), r, c, op, k) \in Seq(Spans)
                      /\ Len(Recorded(Charged(spans, AccessGas), r, c, op, k)) = Len(spans)
        BY <2>1, RecordedTypes
      <4>3. QED  BY <2>1, <4>1, <4>2
    <3>2. CASE Store(op, k, v)
      <4>1. spans' = Recorded(spans, StoreRecords(Top.ms, op), StoreCharges(Top.ms), op, k)
        BY <3>2 DEF Store
      <4>2. spans \in Seq(Spans)
        BY TopFacts
      <4>3. QED  BY <4>1, <4>2, RecordedTypes
    <3>3. QED  BY <1>3, <3>1, <3>2
  <2>3. stores' \in Seq([Key -> Value]) /\ Len(stores') = Len(stores)
    BY <1>3, TopFacts, AppliedTypes DEF KVStore, Store
  <2>4. gas' \in Nat
    BY <1>0, <1>3, ConstantsAssumption DEF KVStore, Store, Consumed
  <2>5. mode' \in {"run", "panic"} /\ UNCHANGED <<stack, sys>> /\ steps' = steps + 1
    BY <1>3 DEF KVStore, Store, Step, Running
  <2>6. QED  BY <1>0, <2>2, <2>3, <2>4, <2>5, StackUnchanged DEF TypeInv, TypeOK
<1>4. ASSUME NEW log \in LogSetting, Call(log)
      PROVE  TypeInv'
  <2>1. StartSpan(log) /\ stack' = Append(stack, WorkCtx(log))
    BY <1>4 DEF Call
  <2>2. spans' \in Seq(Spans) /\ Len(spans') = Len(spans) + 1 /\ Len(spans) \in Nat
    BY <2>1, StartSpanTypes
  <2>3. stores' = stores /\ gas' = gas /\ sys' = sys /\ mode' = mode /\ steps' = steps + 1
    BY <2>1 DEF StartSpan, Step
  <2>4. WorkCtx(log).span \in 1..Len(spans')
    BY <2>2, WorkCtxTypes
  <2>5. stack' \in Seq(Contexts) /\ stack' # <<>> /\ ContextsLineUp'
    BY <2>1, <2>2, <2>3, <2>4, TopFacts, WorkCtxTypes, Pushed
  <2>6. QED  BY <1>0, <2>2, <2>3, <2>5 DEF TypeInv, TypeOK
<1>5. ASSUME CallIgnoring
      PROVE  TypeInv'
  <2> DEFINE call == [span |-> Len(spans) + 1, clock |-> ClockOf(Top.clock, sys, BlockTime)]
             c == [Top EXCEPT !.ignoring = Append(@, call)]
  <2>1. StartSpan("all") /\ stack' = [stack EXCEPT ![Depth] = c]
    BY <1>5 DEF CallIgnoring, Top
  <2>2. spans' \in Seq(Spans) /\ Len(spans') = Len(spans) + 1 /\ Len(spans) \in Nat
    BY <2>1, StartSpanTypes DEF LogSetting
  <2>3. stores' = stores /\ gas' = gas /\ sys' = sys /\ mode' = mode /\ steps' = steps + 1
    BY <2>1 DEF StartSpan, Step
  <2>4. Top \in Contexts /\ Top.clock \in Clocks \cup {NoClock} /\ sys \in Int
        /\ Top.ignoring \in Seq(IgnoringCalls)
    BY <1>0, TopFacts DEF Contexts
  <2>5. call \in IgnoringCalls /\ call.span = Len(spans) + 1
    <3>1. ClockOf(Top.clock, sys, BlockTime) \in Clocks
      BY <2>4, ClockTypes, ConstantsAssumption
    <3>2. QED  BY <2>2, <3>1 DEF IgnoringCalls
  <2> HIDE DEF call
  <2>6. /\ Append(Top.ignoring, call) \in Seq(IgnoringCalls)
        /\ Len(Append(Top.ignoring, call)) = Len(Top.ignoring) + 1
        /\ \A j \in 1..(Len(Top.ignoring) + 1) :
              Append(Top.ignoring, call)[j] = IF j <= Len(Top.ignoring) THEN Top.ignoring[j] ELSE call
    BY <2>4, <2>5, SeqGrown
  <2>7. /\ c \in Contexts /\ c.kind = Top.kind /\ c.ms = Top.ms /\ c.span = Top.span
        /\ c.clock = Top.clock /\ c.ignoring = Append(Top.ignoring, call)
    BY <2>4, <2>6 DEF Contexts
  <2>8. Started(Top.ignoring, Len(spans))
    BY TopFacts DEF TypeInv, ContextsLineUp, SpansExist, Top
  <2> HIDE DEF c
  <2>9. Started(c.ignoring, Len(spans'))
    BY <2>2, <2>4, <2>5, <2>6, <2>7, <2>8 DEF Started
  <2>10. stack' \in Seq(Contexts) /\ stack' # <<>> /\ ContextsLineUp'
    <3>1. Len(stores') = Len(stores) /\ Len(spans') \in Nat /\ Len(spans') >= Len(spans)
      BY <2>2, <2>3
    <3>2. QED  BY <2>1, <2>7, <2>9, <3>1, TopChanged
  <2>11. QED  BY <1>0, <2>2, <2>3, <2>10 DEF TypeInv, TypeOK
<1>6. ASSUME OpenBranch
      PROVE  TypeInv'
  <2>1. /\ stack' = Append(stack, BranchCtx) /\ stores' = Append(stores, stores[Top.ms.base])
        /\ UNCHANGED <<spans, gas, sys, mode>> /\ steps' = steps + 1
    BY <1>6 DEF OpenBranch, Step
  <2>2. stores' \in Seq([Key -> Value]) /\ Len(stores') = Top.ms.base + 1
    BY <2>1, TopFacts, SeqGrown
  <2>3. stack' \in Seq(Contexts) /\ stack' # <<>> /\ ContextsLineUp'
    BY <2>1, <2>2, TopFacts, BranchCtxTypes, Pushed
  <2>4. QED  BY <1>0, <2>1, <2>2, <2>3 DEF TypeInv, TypeOK
<1>7. ASSUME Panic \/ Abort \/ Done \/ Tick
      PROVE  TypeInv'
  <2>1. UNCHANGED <<stack, stores, gas>>
    BY <1>7 DEF Panic, Abort, Done, Tick
  <2>2. spans' \in Seq(Spans) /\ Len(spans') = Len(spans)
    BY <1>7, TopFacts, LostTypes DEF Panic, Abort, Done, Tick
  <2>3. sys' \in Nat /\ steps' \in Nat /\ mode' \in {"run", "panic", "done", "aborted"}
    BY <1>0, <1>7 DEF Panic, Abort, Done, Tick, Step
  <2>4. QED  BY <1>0, <2>1, <2>2, <2>3, StackUnchanged DEF TypeInv, TypeOK
<1>8. ASSUME NEW failed \in BOOLEAN, Return(failed)
      PROVE  TypeInv'
  <2> DEFINE c == [Caller EXCEPT !.em = @ \o Top.em]
  <2>1. /\ Top.kind = "call"
        /\ spans' = [spans EXCEPT ![Top.span] = Finished(@, Top.clock, Top.em, failed)]
        /\ stack' = [i \in 1..(Depth - 1) |-> IF i = Depth - 1 THEN c ELSE stack[i]]
        /\ UNCHANGED <<stores, gas, sys, mode, steps>>
    BY <1>8 DEF Return, HandedOn
  <2>2. /\ Top \in Contexts /\ Caller \in Contexts /\ Top.span \in 1..Len(spans)
        /\ spans \in Seq(Spans) /\ spans[Top.span] \in Spans /\ Caller.ms.base = Len(stores)
    BY <2>1, TopFacts
  <2>3. Top.clock \in Clocks /\ Top.em \in Seq(Event) /\ Caller.em \in Seq(Event)
    BY <2>1, <2>2, TopFacts DEF Contexts
  <2>4. Finished(spans[Top.span], Top.clock, Top.em, failed) \in Spans
    BY <1>0, <2>2, <2>3, FinishedTypes
  <2>5. spans' \in Seq(Spans) /\ Len(spans') = Len(spans)
    BY <2>1, <2>2, <2>4, SeqUpdated
  <2>6. /\ c \in Contexts /\ c.kind = Caller.kind /\ c.ms = Caller.ms /\ c.span = Caller.span
        /\ c.clock = Caller.clock /\ c.ignoring = Caller.ignoring
    <3>1. Caller.em \o Top.em \in Seq(Event)
      BY <2>3
    <3>2. QED  BY <2>2, <3>1 DEF Contexts
  <2> HIDE DEF c
  <2>7. stack' \in Seq(Contexts) /\ stack' # <<>> /\ ContextsLineUp'
    BY <2>1, <2>2, <2>5, <2>6, PoppedTo
  <2>8. QED  BY <1>0, <2>1, <2>5, <2>7 DEF TypeInv, TypeOK
<1>9. ASSUME NEW failed \in BOOLEAN, ReturnIgnoring(failed)
      PROVE  TypeInv'
  <2> DEFINE n == Len(Top.ignoring)
             call == Top.ignoring[n]
             c == [Top EXCEPT !.ignoring = SubSeq(@, 1, n - 1)]
  <2>1. /\ Top.ignoring # <<>>
        /\ spans' = [spans EXCEPT ![call.span] = Finished(@, call.clock, <<>>, failed)]
        /\ stack' = [stack EXCEPT ![Depth] = c]
        /\ UNCHANGED <<stores, gas, sys, mode, steps>>
    BY <1>9 DEF ReturnIgnoring, Top
  <2>2. /\ Top \in Contexts /\ Top.ignoring \in Seq(IgnoringCalls)
        /\ n \in Nat /\ n >= 1 /\ call \in IgnoringCalls /\ call.clock \in Clocks
    <3>1. Top \in Contexts /\ Top.ignoring \in Seq(IgnoringCalls)
      BY TopFacts DEF Contexts
    <3>2. n \in Nat /\ n >= 1 /\ call \in IgnoringCalls
      BY <2>1, <3>1
    <3>3. call.clock \in Clocks
      BY <3>2 DEF IgnoringCalls
    <3>4. QED  BY <3>1, <3>2, <3>3
  <2>3. Started(Top.ignoring, Len(spans))
    BY TopFacts DEF TypeInv, ContextsLineUp, SpansExist, Top
  <2>4. spans' \in Seq(Spans) /\ Len(spans') = Len(spans) /\ Len(spans) \in Nat
    <3>1. /\ spans \in Seq(Spans) /\ Len(spans) \in Nat
          /\ call.span \in 1..Len(spans) /\ spans[call.span] \in Spans
      BY <2>2, <2>3, TopFacts DEF Started
    <3>2. <<>> \in Seq(Event)
      OBVIOUS
    <3>3. sys \in Int
      BY <1>0
    <3>4. Finished(spans[call.span], call.clock, <<>>, failed) \in Spans
      BY <2>2, <3>1, <3>2, <3>3, FinishedTypes, Zenon
    <3>5. QED  BY <2>1, <3>1, <3>4, SeqUpdated
  <2>5. /\ SubSeq(Top.ignoring, 1, n - 1) \in Seq(IgnoringCalls)
        /\ Len(SubSeq(Top.ignoring, 1, n - 1)) = n - 1
        /\ \A j \in 1..(n - 1) : SubSeq(Top.ignoring, 1, n - 1)[j] = Top.ignoring[j]
    BY <2>1, <2>2, SeqShortened
  <2>6. /\ c \in Contexts /\ c.kind = Top.kind /\ c.ms = Top.ms /\ c.span = Top.span
        /\ c.clock = Top.clock /\ c.ignoring = SubSeq(Top.ignoring, 1, n - 1)
    BY <2>2, <2>5 DEF Contexts
  <2> HIDE DEF c
  <2>7. Started(c.ignoring, Len(spans'))
    BY <2>2, <2>3, <2>4, <2>5, <2>6 DEF Started
  <2>8. stack' \in Seq(Contexts) /\ stack' # <<>> /\ ContextsLineUp'
    <3>1. Len(stores') = Len(stores) /\ Len(spans') \in Nat /\ Len(spans') >= Len(spans)
      BY <2>1, <2>4
    <3>2. QED  BY <2>1, <2>6, <2>7, <3>1, TopChanged
  <2>9. QED  BY <1>0, <2>1, <2>4, <2>8 DEF TypeInv, TypeOK
<1>10. ASSUME Commit
       PROVE  TypeInv'
  <2> DEFINE c == [Caller EXCEPT !.em = @ \o Top.em]
  <2>1. /\ Top.kind = "branch"
        /\ stack' = [i \in 1..(Depth - 1) |-> IF i = Depth - 1 THEN c ELSE stack[i]]
        /\ stores' = [b \in 1..(Len(stores) - 1) |->
                        IF b = Len(stores) - 1 THEN stores[Len(stores)] ELSE stores[b]]
        /\ UNCHANGED <<spans, gas, sys, mode, steps>>
    BY <1>10 DEF Commit
  <2>2. /\ Top \in Contexts /\ Caller \in Contexts /\ spans \in Seq(Spans)
        /\ stores \in Seq([Key -> Value]) /\ Len(stores) \in Nat /\ Len(stores) >= 2
        /\ Caller.ms.base = Len(stores) - 1
    BY <2>1, TopFacts
  <2>3. stores' \in Seq([Key -> Value]) /\ Len(stores') = Caller.ms.base
    <3>1. Len(stores) - 1 \in Nat /\ stores' \in [1..(Len(stores) - 1) -> [Key -> Value]]
      BY <2>1, <2>2
    <3>2. QED  BY <2>2, <3>1, SeqMade
  <2>4. /\ c \in Contexts /\ c.kind = Caller.kind /\ c.ms = Caller.ms /\ c.span = Caller.span
        /\ c.clock = Caller.clock /\ c.ignoring = Caller.ignoring
    <3>1. Caller.em \o Top.em \in Seq(Event)
      BY <2>2 DEF Contexts
    <3>2. QED  BY <2>2, <3>1 DEF Contexts
  <2> HIDE DEF c
  <2>5. stack' \in Seq(Contexts) /\ stack' # <<>> /\ ContextsLineUp'
    BY <2>1, <2>3, <2>4, PoppedTo
  <2>6. QED  BY <1>0, <2>1, <2>2, <2>3, <2>5 DEF TypeInv, TypeOK
<1>11. ASSUME Discard \/ UnwindCall \/ \E recovered \in BOOLEAN : UnwindBranch(recovered)
       PROVE  TypeInv'
  <2>1. /\ Top.kind # "root" /\ stack' = SubSeq(stack, 1, Depth - 1)
        /\ UNCHANGED <<gas, sys, steps>> /\ mode' \in {"run", "panic"}
    BY <1>11 DEF Discard, UnwindCall, UnwindBranch, PopBranch, Running
  <2>2. spans' \in Seq(Spans) /\ Len(spans') = Len(spans)
    BY <1>11, TopFacts, LostTypes DEF Discard, UnwindCall, UnwindBranch
  <2>3. stores' \in Seq([Key -> Value]) /\ Len(stores') = Caller.ms.base
    <3>1. CASE UnwindCall
      BY <3>1, TopFacts DEF UnwindCall
    <3>2. CASE Discard \/ \E recovered \in BOOLEAN : UnwindBranch(recovered)
      BY <3>2, StoresPopped DEF Discard, UnwindBranch, PopBranch
    <3>3. QED  BY <1>11, <3>1, <3>2
  <2>4. Caller \in Contexts
    BY <2>1, TopFacts
  <2>5. stack' \in Seq(Contexts) /\ stack' # <<>> /\ ContextsLineUp'
    BY <2>1, <2>2, <2>3, <2>4, PopIsPoppedTo, PoppedTo
  <2>6. QED  BY <1>0, <2>1, <2>2, <2>3, <2>5 DEF TypeInv, TypeOK
<1>12. ASSUME UNCHANGED vars
       PROVE  TypeInv'
  BY <1>12, StackUnchanged DEF vars, TypeInv, TypeOK
<1>13. QED
  BY <1>1, <1>2, <1>3, <1>4, <1>5, <1>6, <1>7, <1>8, <1>9, <1>10, <1>11, <1>12
     DEF Next, Program, Unwinding, Terminated

\* The state always has the shape TypeOK gives it, and the contexts line up
\* with the branches and spans they refer to: no call finishes a span that was
\* never started, no operation goes to a branch that is gone.
THEOREM TypeCorrect == Spec => [](TypeOK /\ ContextsLineUp)
<1>1. Spec => []TypeInv
  BY InitTypeInv, NextTypeInv, PTL DEF Spec
<1>2. QED  BY <1>1, PTL DEF TypeInv

-----------------------------------------------------------------------------
(* Transparency of the events *)

LEMMA AppendConcat ==
    ASSUME NEW S, NEW e \in S
    PROVE  \A s, t \in Seq(S) : Append(s \o t, e) = s \o Append(t, e)
<1> SUFFICES ASSUME NEW s \in Seq(S), NEW t \in Seq(S)
             PROVE  Append(s \o t, e) = s \o Append(t, e)
  OBVIOUS
<1>1. s \o t \in Seq(S) /\ <<e>> \in Seq(S)
  OBVIOUS
<1>2. Append(s \o t, e) = (s \o t) \o <<e>>
  BY <1>1, AppendIsConcat
<1>3. Append(t, e) = t \o <<e>>
  BY AppendIsConcat
<1>4. QED  BY <1>1, <1>2, <1>3, ConcatAssociative

\* plain[i] for the context i of a stack st with logs pl.
Row(st, pl, i) ==
    pl[i] = IF st[i].kind = "call" THEN pl[i - 1] \o st[i].em ELSE st[i].em

PlainOK == plain \in Seq(Seq(Event)) /\ Len(plain) = Depth

TransInv ==
    /\ TypeInv
    /\ PlainOK
    /\ \A i \in 1..Depth : Row(stack, plain, i)

\* What the proofs of the steps use of the invariant.
LEMMA TransFacts ==
    ASSUME TransInv
    PROVE  /\ Depth \in Nat /\ Depth >= 1 /\ Top \in Contexts /\ Top.em \in Seq(Event)
           /\ plain \in Seq(Seq(Event)) /\ Len(plain) = Depth /\ plain[Depth] \in Seq(Event)
           /\ \A i \in 1..Depth : stack[i].em \in Seq(Event) /\ plain[i] \in Seq(Event)
           /\ stack[1].kind = "root"
           /\ Top.kind = "call" => Depth >= 2 /\ plain[Depth] = plain[Depth - 1] \o Top.em
           /\ Top.kind # "call" => plain[Depth] = Top.em
           /\ Top.kind # "root" => Depth >= 2
<1> USE DEF TransInv
<1>1. /\ Depth \in Nat /\ Depth >= 1 /\ Top \in Contexts
      /\ \A i \in 1..Depth : stack[i] \in Contexts
      /\ Top.kind # "root" => Depth >= 2
  BY TopFacts DEF Depth
<1>2. \A i \in 1..Depth : stack[i].em \in Seq(Event)
  BY <1>1 DEF Contexts
<1>3. plain \in Seq(Seq(Event)) /\ Len(plain) = Depth /\ \A i \in 1..Depth : plain[i] \in Seq(Event)
  BY <1>1 DEF PlainOK
<1>4. stack[1].kind = "root"
  BY DEF TypeInv, ContextsLineUp, StoresLineUp
<1>5. Row(stack, plain, Depth)
  BY <1>1
<1>6. Top.em \in Seq(Event) /\ plain[Depth] \in Seq(Event)
  BY <1>1, <1>2, <1>3 DEF Top
<1>7. Top.kind = "call" => plain[Depth] = plain[Depth - 1] \o Top.em
  BY <1>5 DEF Row, Top
<1>8. Top.kind # "call" => plain[Depth] = Top.em
  BY <1>5 DEF Row, Top
<1>9. Top.kind = "call" => Depth >= 2
  BY <1>1
<1>10. QED  BY <1>1, <1>2, <1>3, <1>4, <1>6, <1>7, <1>8, <1>9

LEMMA InitTransInv == InitH => TransInv
<1> SUFFICES ASSUME InitH PROVE TransInv
  OBVIOUS
<1>1. TypeInv
  BY InitTypeInv DEF InitH
<1>2. Depth = 1 /\ stack[1].kind = "root" /\ stack[1].em = <<>>
  BY DEF InitH, Init, Depth
<1>3. plain = << <<>> >> /\ plain \in Seq(Seq(Event))
  <2>1. <<>> \in Seq(Event)
    OBVIOUS
  <2>2. QED  BY <2>1 DEF InitH
<1>4. QED  BY <1>1, <1>2, <1>3 DEF TransInv, PlainOK, Row

\* A step of the product is a step of Tracing.
LEMMA StepOfTracing == [NextH]_varsH => [Next]_vars
  BY DEF NextH, varsH, Next, Program, Unwinding

\* A row none of whose parts changed.
LEMMA RowKept ==
    ASSUME TransInv, NEW i \in 1..Depth,
           stack'[i].kind = stack[i].kind, stack'[i].em = stack[i].em,
           plain'[i] = plain[i], i # 1 => plain'[i - 1] = plain[i - 1]
    PROVE  Row(stack', plain', i)
<1>1. Row(stack, plain, i)
  BY DEF TransInv
<1>2. i = 1 => stack[i].kind = "root"
  BY TransFacts
<1>3. CASE i = 1
  <2>1. stack[i].kind # "call"
    BY <1>2, <1>3
  <2>2. QED  BY <1>1, <2>1 DEF Row
<1>4. CASE i # 1
  BY <1>1, <1>4 DEF Row
<1>5. QED  BY <1>3, <1>4

\* Steps that keep the managers, and so the rows.
LEMMA RowsUnchanged ==
    ASSUME TransInv, Depth' = Depth, UNCHANGED plain,
           \A i \in 1..Depth : stack'[i].kind = stack[i].kind /\ stack'[i].em = stack[i].em
    PROVE  PlainOK' /\ \A i \in 1..Depth' : Row(stack, plain, i)'
  BY DEF TransInv, PlainOK, Row

\* Steps that push a context with an empty manager.
LEMMA RowsPushed ==
    ASSUME TransInv, NEW c, NEW log \in Seq(Event),
           stack' = Append(stack, c), c.em = <<>>, plain' = Append(plain, log),
           IF c.kind = "call" THEN log = plain[Depth] ELSE log = <<>>
    PROVE  PlainOK' /\ \A i \in 1..Depth' : Row(stack, plain, i)'
<1> USE DEF Depth
<1>1. Len(stack) \in Nat /\ Len(stack) >= 1 /\ Len(plain) = Len(stack) /\ plain \in Seq(Seq(Event))
  BY TransFacts
<1>2. stack \in Seq(Contexts)
  BY DEF TransInv, TypeInv, TypeOK
<1>3. /\ Len(stack') = Len(stack) + 1
      /\ \A i \in 1..Len(stack) : stack'[i] = stack[i]
      /\ stack'[Len(stack) + 1] = c
  BY <1>1, <1>2
<1>4. /\ plain' \in Seq(Seq(Event)) /\ Len(plain') = Len(plain) + 1
      /\ \A i \in 1..(Len(stack) + 1) : plain'[i] = IF i <= Len(stack) THEN plain[i] ELSE log
  BY <1>1, SeqGrown
<1>5. plain[Len(stack)] \o <<>> = plain[Len(stack)]
  BY TransFacts, ConcatEmptySeq
<1>6. ASSUME NEW i \in 1..Len(stack)
      PROVE  Row(stack', plain', i)
  <2>1. Row(stack, plain, i) /\ plain'[i] = plain[i] /\ stack'[i] = stack[i]
    BY <1>1, <1>3, <1>4 DEF TransInv
  <2>2. CASE i = 1
    BY <2>1, <2>2, TransFacts DEF Row
  <2>3. CASE i # 1
    <3>1. plain'[i - 1] = plain[i - 1]
      BY <1>1, <1>4, <2>3
    <3>2. QED  BY <2>1, <3>1 DEF Row
  <2>4. QED  BY <2>2, <2>3
<1>7. Row(stack', plain', Len(stack) + 1)
  <2> DEFINE n == Len(stack) + 1
  <2>1. plain'[n] = log /\ plain'[n - 1] = plain[Len(stack)] /\ stack'[n] = c
    BY <1>1, <1>3, <1>4
  <2>2. c.kind = "call" => log = plain[Len(stack)] \o c.em
    BY <1>5
  <2> HIDE DEF n
  <2>3. Row(stack', plain', n)
    BY <2>1, <2>2 DEF Row
  <2>4. QED  BY <2>3 DEF n
<1>8. \A i \in 1..(Len(stack) + 1) : Row(stack', plain', i)
  <2>1. \A i \in 1..(Len(stack) + 1) : i \in 1..Len(stack) \/ i = Len(stack) + 1
    BY <1>1
  <2>2. QED  BY <1>6, <1>7, <2>1
<1>9. PlainOK'
  BY <1>1, <1>3, <1>4 DEF PlainOK
<1>10. \A i \in 1..Len(stack') : Row(stack', plain', i)
  BY <1>3, <1>8
<1>11. QED  BY <1>9, <1>10 DEF Row

LEMMA PoppedLogs ==
    ASSUME plain \in Seq(Seq(Event)), Len(plain) = Depth, Depth \in Nat, Depth >= 2
    PROVE  /\ Popped \in Seq(Seq(Event)) /\ Len(Popped) = Depth - 1
           /\ \A i \in 1..(Depth - 1) : Popped[i] = plain[i]
<1>1. plain # <<>>
  OBVIOUS
<1>2. QED  BY <1>1, SeqShortened DEF Popped

\* Steps that pop a context: the caller's row is the one to look at.
LEMMA RowsPopped ==
    ASSUME TransInv, Top.kind # "root", NEW c, NEW log \in Seq(Event), c.kind = Caller.kind,
           stack' = [i \in 1..(Depth - 1) |-> IF i = Depth - 1 THEN c ELSE stack[i]],
           plain' = [Popped EXCEPT ![Depth - 1] = log],
           IF c.kind = "call" THEN log = plain[Depth - 2] \o c.em ELSE log = c.em
    PROVE  PlainOK' /\ \A i \in 1..Depth' : Row(stack, plain, i)'
<1> DEFINE n == Depth - 1
<1>1. Depth \in Nat /\ Depth >= 2 /\ plain \in Seq(Seq(Event)) /\ Len(plain) = Depth
  BY TransFacts
<1>2. /\ Len(stack') = n
      /\ stack'[n] = c
      /\ \A i \in 1..(n - 1) : stack'[i] = stack[i]
  BY <1>1
<1>3. /\ Popped \in Seq(Seq(Event)) /\ Len(Popped) = n
      /\ \A i \in 1..n : Popped[i] = plain[i]
  BY <1>1, PoppedLogs
<1>4. /\ plain' \in Seq(Seq(Event)) /\ Len(plain') = n
      /\ \A i \in 1..n : plain'[i] = IF i = n THEN log ELSE plain[i]
  <2>1. n \in 1..Len(Popped)
    BY <1>1, <1>3
  <2>2. QED  BY <1>3, <2>1, SeqUpdated
<1>5. ASSUME NEW i \in 1..(n - 1)
      PROVE  Row(stack', plain', i)
  <2>1. i \in 1..Depth /\ plain'[i] = plain[i] /\ stack'[i] = stack[i]
    BY <1>1, <1>2, <1>4
  <2>2. i # 1 => plain'[i - 1] = plain[i - 1]
    <3>1. i # 1 => i - 1 \in 1..n /\ i - 1 # n
      BY <1>1
    <3>2. QED  BY <1>4, <3>1
  <2>3. QED  BY <2>1, <2>2, RowKept
<1>6. Row(stack', plain', n)
  <2>1. plain'[n] = log
    BY <1>1, <1>4
  <2>2. CASE c.kind = "call"
    <3>1. n >= 2
      <4>1. stack[n].kind = "call"
        BY <2>2 DEF Caller
      <4>2. n # 1
        BY <4>1, TransFacts
      <4>3. QED  BY <1>1, <4>2
    <3>2. plain'[n - 1] = plain[Depth - 2]
      <4>1. n - 1 \in 1..n /\ n - 1 # n /\ n - 1 = Depth - 2
        BY <1>1, <3>1
      <4>2. QED  BY <1>4, <4>1
    <3>3. QED  BY <1>2, <2>1, <2>2, <3>2 DEF Row
  <2>3. CASE c.kind # "call"
    BY <1>2, <2>1, <2>3 DEF Row
  <2>4. QED  BY <2>2, <2>3
<1>7. \A i \in 1..n : Row(stack', plain', i)
  <2>1. \A i \in 1..n : i \in 1..(n - 1) \/ i = n
    BY <1>1
  <2>2. QED  BY <1>5, <1>6, <2>1
<1>8. Depth' = n
  BY <1>2 DEF Depth
<1>9. QED  BY <1>4, <1>7, <1>8 DEF PlainOK, Row

\* Steps that pop a context whose events are dropped.
LEMMA RowsDropped ==
    ASSUME TransInv, Top.kind # "root", stack' = SubSeq(stack, 1, Depth - 1), plain' = Popped
    PROVE  PlainOK' /\ \A i \in 1..Depth' : Row(stack, plain, i)'
<1>1. stack' = [i \in 1..(Depth - 1) |-> IF i = Depth - 1 THEN Caller ELSE stack[i]]
  BY PopIsPoppedTo DEF TransInv
<1>2. Depth \in Nat /\ Depth >= 2 /\ plain \in Seq(Seq(Event)) /\ Len(plain) = Depth
  BY TransFacts
<1>3. plain' = [Popped EXCEPT ![Depth - 1] = plain[Depth - 1]]
  <2>1. plain # <<>>
    BY <1>2
  <2>2. Popped \in Seq(Seq(Event)) /\ \A i \in 1..(Depth - 1) : Popped[i] = plain[i]
    BY <1>2, <2>1, PoppedLogs
  <2>3. Popped[Depth - 1] = plain[Depth - 1]
    <3>1. Depth - 1 \in 1..(Depth - 1)
      BY <1>2
    <3>2. QED  BY <2>2, <3>1, Zenon
  <2>4. QED  BY <2>2, <2>3
<1>4. plain[Depth - 1] \in Seq(Event)
  BY <1>2
<1>5. Row(stack, plain, Depth - 1)
  BY <1>2 DEF TransInv
<1>6. IF Caller.kind = "call" THEN plain[Depth - 1] = plain[Depth - 2] \o Caller.em
                              ELSE plain[Depth - 1] = Caller.em
  <2>1. Depth - 1 - 1 = Depth - 2
    BY <1>2
  <2>2. QED  BY <1>5, <2>1 DEF Row, Caller
<1>7. QED  BY <1>1, <1>3, <1>4, <1>6, RowsPopped

LEMMA NextTransInv == TransInv /\ [NextH]_varsH => TransInv'
<1> SUFFICES ASSUME TransInv, [NextH]_varsH PROVE TransInv'
  OBVIOUS
<1> DEFINE Rows == PlainOK' /\ \A i \in 1..Depth' : Row(stack, plain, i)'
<1>0. TypeInv'
  BY NextTypeInv, StepOfTracing DEF TransInv
<1>1. /\ Depth \in Nat /\ Depth >= 1 /\ stack \in Seq(Contexts) /\ Len(stack) = Depth
      /\ Top \in Contexts /\ plain \in Seq(Seq(Event)) /\ Len(plain) = Depth
      /\ plain[Depth] \in Seq(Event) /\ Top.em \in Seq(Event)
  BY TransFacts DEF TransInv, TypeInv, TypeOK, Depth
<1>2. ASSUME NEW e \in Event, EmitEvent(e), plain' = [plain EXCEPT ![Depth] = Append(@, e)]
      PROVE  Rows
  <2>1. /\ Depth' = Depth
        /\ \A i \in 1..Depth : /\ stack'[i].kind = stack[i].kind
                               /\ i # Depth => stack'[i].em = stack[i].em
        /\ stack'[Depth].em = Append(Top.em, e)
    BY <1>1, <1>2 DEF EmitEvent, Depth, Top, Contexts
  <2>2. Append(plain[Depth], e) \in Seq(Event)
    BY <1>1
  <2>3. /\ plain' \in Seq(Seq(Event)) /\ Len(plain') = Depth
        /\ \A i \in 1..Depth : plain'[i] = IF i = Depth THEN Append(plain[Depth], e) ELSE plain[i]
    BY <1>1, <1>2, <2>2, SeqUpdated
  <2>4. ASSUME NEW i \in 1..Depth, i # Depth
        PROVE  Row(stack', plain', i)
    <3>1. i # 1 => i - 1 \in 1..Depth /\ i - 1 # Depth
      BY <1>1, <2>4
    <3>2. QED  BY <2>1, <2>3, <2>4, <3>1, RowKept
  <2>5. Row(stack', plain', Depth)
    <3>1. stack'[Depth].kind = Top.kind /\ plain'[Depth] = Append(plain[Depth], e)
      BY <1>1, <2>1, <2>3 DEF Top
    <3>2. CASE Top.kind = "call"
      <4>1. Depth >= 2 /\ plain[Depth] = plain[Depth - 1] \o Top.em
        BY <3>2, TransFacts
      <4>2. plain'[Depth - 1] = plain[Depth - 1] /\ plain[Depth - 1] \in Seq(Event)
        <5>1. Depth - 1 \in 1..Depth /\ Depth - 1 # Depth
          BY <1>1, <4>1
        <5>2. QED  BY <1>1, <2>3, <5>1
      <4>3. Append(plain[Depth], e) = plain[Depth - 1] \o Append(Top.em, e)
        <5>1. Top.em \in Seq(Event) /\ plain[Depth - 1] \in Seq(Event)
          BY <1>1, <4>2
        <5>2. Append(plain[Depth - 1] \o Top.em, e) = plain[Depth - 1] \o Append(Top.em, e)
          <6>1. \A a, b \in Seq(Event) : Append(a \o b, e) = a \o Append(b, e)
            BY AppendConcat
          <6>2. QED  BY <5>1, <6>1, Zenon
        <5>3. QED  BY <4>1, <5>2
      <4>4. QED  BY <2>1, <3>1, <3>2, <4>2, <4>3 DEF Row
    <3>3. CASE Top.kind # "call"
      BY <2>1, <3>1, <3>3, TransFacts DEF Row
    <3>4. QED  BY <3>2, <3>3
  <2>6. \A i \in 1..Depth' : Row(stack', plain', i)
    BY <2>1, <2>4, <2>5
  <2>7. PlainOK'
    BY <2>1, <2>3 DEF PlainOK
  <2>8. QED  BY <2>6, <2>7 DEF Row
<1>3. ASSUME NEW log \in LogSetting, Call(log), plain' = Append(plain, plain[Depth])
      PROVE  Rows
  <2>1. stack' = Append(stack, WorkCtx(log))
    BY <1>3 DEF Call
  <2>2. WorkCtx(log).em = <<>> /\ WorkCtx(log).kind = "call"
    BY DEF WorkCtx
  <2>3. QED  BY <1>1, <1>3, <2>1, <2>2, RowsPushed
<1>4. ASSUME OpenBranch, plain' = Append(plain, <<>>)
      PROVE  Rows
  <2>1. stack' = Append(stack, BranchCtx)
    BY <1>4 DEF OpenBranch
  <2>2. BranchCtx.em = <<>> /\ BranchCtx.kind = "branch"
    BY <1>1 DEF BranchCtx, Contexts
  <2>3. <<>> \in Seq(Event)
    OBVIOUS
  <2>4. QED  BY <1>4, <2>1, <2>2, <2>3, RowsPushed
<1>5. ASSUME Top.kind # "root"
      PROVE  /\ Depth >= 2 /\ Caller \in Contexts /\ Caller.em \in Seq(Event)
             /\ plain[Depth - 1] \in Seq(Event)
             /\ Caller.kind = "call" => /\ Depth - 2 \in 1..Depth
                                        /\ plain[Depth - 2] \in Seq(Event)
                                        /\ plain[Depth - 1] = plain[Depth - 2] \o Caller.em
             /\ Caller.kind # "call" => plain[Depth - 1] = Caller.em
  <2>1. Depth >= 2 /\ Caller \in Contexts
    BY <1>5, TopFacts DEF TransInv
  <2>2. Caller.em \in Seq(Event) /\ plain[Depth - 1] \in Seq(Event)
    BY <1>1, <2>1 DEF Contexts
  <2>3. Row(stack, plain, Depth - 1) /\ Depth - 1 - 1 = Depth - 2
    BY <1>1, <2>1 DEF TransInv
  <2>4. ASSUME Caller.kind = "call"
        PROVE  Depth - 2 \in 1..Depth /\ plain[Depth - 2] \in Seq(Event)
    <3>1. Depth - 1 # 1
      BY <2>4, TransFacts DEF Caller
    <3>2. QED  BY <1>1, <2>1, <3>1
  <2>5. QED  BY <2>1, <2>2, <2>3, <2>4 DEF Row, Caller
<1>6. ASSUME NEW failed \in BOOLEAN, Return(failed),
             plain' = [Popped EXCEPT ![Depth - 1] = plain[Depth]]
      PROVE  Rows
  <2> DEFINE c == [Caller EXCEPT !.em = @ \o Top.em]
  <2>1. /\ Top.kind = "call" /\ Top.kind # "root"
        /\ stack' = [i \in 1..(Depth - 1) |-> IF i = Depth - 1 THEN c ELSE stack[i]]
    BY <1>6 DEF Return, HandedOn
  <2>2. c.kind = Caller.kind /\ c.em = Caller.em \o Top.em
    BY <1>5, <2>1 DEF Contexts
  <2>3. plain[Depth] = plain[Depth - 1] \o Top.em
    BY <2>1, TransFacts
  <2>4. IF c.kind = "call" THEN plain[Depth] = plain[Depth - 2] \o c.em ELSE plain[Depth] = c.em
    <3>1. CASE c.kind = "call"
      <4>1. plain[Depth] = (plain[Depth - 2] \o Caller.em) \o Top.em
        BY <1>5, <2>1, <2>2, <2>3, <3>1
      <4>2. /\ plain[Depth - 2] \in Seq(Event) /\ Caller.em \in Seq(Event)
            /\ Top.em \in Seq(Event)
        BY <1>1, <1>5, <2>1, <2>2, <3>1
      <4>3. (plain[Depth - 2] \o Caller.em) \o Top.em
               = plain[Depth - 2] \o (Caller.em \o Top.em)
        <5>1. \A a, b, d \in Seq(Event) : (a \o b) \o d = a \o (b \o d)
          BY ConcatAssociative
        <5>2. QED  BY <4>2, <5>1, Zenon
      <4>4. QED  BY <2>2, <3>1, <4>1, <4>3
    <3>2. CASE c.kind # "call"
      BY <1>5, <2>1, <2>2, <2>3, <3>2
    <3>3. QED  BY <3>1, <3>2
  <2> HIDE DEF c
  <2>5. QED  BY <1>1, <1>6, <2>1, <2>2, <2>4, RowsPopped
<1>7. ASSUME Commit, plain' = [Popped EXCEPT ![Depth - 1] = @ \o plain[Depth]]
      PROVE  Rows
  <2> DEFINE c == [Caller EXCEPT !.em = @ \o Top.em]
             log == plain[Depth - 1] \o plain[Depth]
  <2>1. /\ Top.kind = "branch" /\ Top.kind # "root" /\ Top.kind # "call"
        /\ stack' = [i \in 1..(Depth - 1) |-> IF i = Depth - 1 THEN c ELSE stack[i]]
    BY <1>7 DEF Commit
  <2>2. c.kind = Caller.kind /\ c.em = Caller.em \o Top.em
    BY <1>5, <2>1 DEF Contexts
  <2>3. plain[Depth] = Top.em
    BY <2>1, TransFacts
  <2>4. IF c.kind = "call" THEN log = plain[Depth - 2] \o c.em ELSE log = c.em
    <3>1. CASE c.kind = "call"
      <4>1. log = (plain[Depth - 2] \o Caller.em) \o Top.em
        BY <1>5, <2>1, <2>2, <2>3, <3>1
      <4>2. /\ plain[Depth - 2] \in Seq(Event) /\ Caller.em \in Seq(Event)
            /\ Top.em \in Seq(Event)
        BY <1>1, <1>5, <2>1, <2>2, <3>1
      <4>3. (plain[Depth - 2] \o Caller.em) \o Top.em
               = plain[Depth - 2] \o (Caller.em \o Top.em)
        <5>1. \A a, b, d \in Seq(Event) : (a \o b) \o d = a \o (b \o d)
          BY ConcatAssociative
        <5>2. QED  BY <4>2, <5>1, Zenon
      <4>4. QED  BY <2>2, <3>1, <4>1, <4>3
    <3>2. CASE c.kind # "call"
      BY <1>5, <2>1, <2>2, <2>3, <3>2
    <3>3. QED  BY <3>1, <3>2
  <2>5. log \in Seq(Event)
    BY <1>1, <1>5, <2>1
  <2>6. Popped[Depth - 1] = plain[Depth - 1]
    BY <1>1, <1>5, <2>1 DEF Popped
  <2>7. plain' = [Popped EXCEPT ![Depth - 1] = log]
    BY <1>7, <2>6
  <2> HIDE DEF c, log
  <2>8. QED  BY <2>1, <2>2, <2>4, <2>5, <2>7, RowsPopped
<1>8. ASSUME Discard \/ UnwindCall \/ \E recovered \in BOOLEAN : UnwindBranch(recovered),
             plain' = Popped
      PROVE  Rows
  <2>1. Top.kind # "root" /\ stack' = SubSeq(stack, 1, Depth - 1)
    BY <1>8 DEF Discard, UnwindCall, UnwindBranch, PopBranch
  <2>2. QED  BY <1>8, <2>1, RowsDropped
<1>9. ASSUME UNCHANGED plain,
             CallIgnoring \/ \E failed \in BOOLEAN : ReturnIgnoring(failed)
      PROVE  Rows
  <2>1. \E calls : stack' = [stack EXCEPT ![Depth].ignoring = calls]
    BY <1>9 DEF CallIgnoring, ReturnIgnoring
  <2>2. Depth' = Depth /\ \A i \in 1..Depth : /\ stack'[i].kind = stack[i].kind
                                              /\ stack'[i].em = stack[i].em
    BY <1>1, <2>1 DEF Depth, Contexts
  <2>3. QED  BY <1>9, <2>2, RowsUnchanged
<1>10. ASSUME UNCHANGED plain, UNCHANGED stack
       PROVE  Rows
  BY <1>10, RowsUnchanged DEF Depth
<1>11. Rows
  <2>1. CASE UNCHANGED varsH
    BY <1>10, <2>1 DEF varsH, vars
  <2>2. CASE /\ UNCHANGED plain
             /\ \/ \E amount \in {1, 2} : ConsumeGas(amount) \/ RefundGas(amount)
                \/ \E op \in {"read", "write"}, k \in Key, v \in Value :
                      KVStore(op, k, v) \/ Store(op, k, v)
                \/ Panic \/ Abort \/ Done \/ Tick \/ Terminated
    <3>1. UNCHANGED stack
      BY <2>2 DEF ConsumeGas, RefundGas, KVStore, Store, Panic, Abort, Done, Tick,
                  Terminated, vars
    <3>2. QED  BY <1>10, <2>2, <3>1
  <2>3. QED
    BY <1>2, <1>3, <1>4, <1>6, <1>7, <1>8, <1>9, <2>1, <2>2 DEF NextH
<1>12. QED  BY <1>0, <1>11 DEF TransInv

\* Tracing keeps the events of the undecorated program: every event manager
\* holds what that program emitted, up to the traced calls in progress.
THEOREM EventsTransparent == SpecH => []TransparentEvents
<1>1. TransInv => TransparentEvents
  <2> SUFFICES ASSUME TransInv PROVE TransparentEvents
    OBVIOUS
  <2>1. stack \in Seq(Contexts) /\ Len(plain) = Depth
    BY DEF TransInv, PlainOK, TypeInv, TypeOK
  <2>2. DOMAIN stack = 1..Depth
    BY <2>1 DEF Depth
  <2>3. QED  BY <2>1, <2>2 DEF TransInv, TransparentEvents, Row
<1>2. QED  BY <1>1, InitTransInv, NextTransInv, PTL DEF SpecH

\* A call that returns reports what the undecorated program emitted meanwhile.
THEOREM EventsReported == SpecH => ReportsItsEvents
<1>1. ASSUME TransInv, [NextH]_varsH, Returned
      PROVE  plain[Depth] = plain[Depth - 1] \o spans'[Top.span].events
  <2>1. /\ Depth \in Nat /\ Depth >= 1 /\ stack \in Seq(Contexts) /\ Len(stack) = Depth
        /\ spans \in Seq(Spans) /\ Top.kind = "call" /\ Top.span \in 1..Len(spans)
    BY <1>1, TopFacts DEF TransInv, Depth, Returned
  <2>2. ~(Depth' = Depth) /\ ~(Depth' = Depth + 1)
    BY <1>1, <2>1 DEF Returned
  <2>3. ~UNCHANGED stack
    BY <2>2 DEF Depth
  <2>4. ~(\E c : stack' = Append(stack, c))
    BY <2>1, <2>2 DEF Depth
  <2>5. ~(\E c : stack' = [stack EXCEPT ![Depth] = c])
    BY <2>1, <2>2 DEF Depth
  <2>6. ~UnwindCall
    <3>1. Lost(Ignoring(Top) \cup {Top.span})[Top.span].state = "lost"
      BY <2>1 DEF Lost, Spans
    <3>2. QED  BY <1>1, <3>1 DEF Returned, UnwindCall
  <2>7. PICK failed \in BOOLEAN : Return(failed)
    <3>1. ~(\E e \in Event : EmitEvent(e)) /\ ~CallIgnoring
             /\ ~(\E failed \in BOOLEAN : ReturnIgnoring(failed))
      BY <2>5 DEF EmitEvent, CallIgnoring, ReturnIgnoring
    <3>2. ~(\E log \in LogSetting : Call(log)) /\ ~OpenBranch
      BY <2>4 DEF Call, OpenBranch
    <3>3. ~Commit /\ ~Discard /\ ~(\E recovered \in BOOLEAN : UnwindBranch(recovered))
      BY <2>1 DEF Commit, Discard, UnwindBranch
    <3>4. ~(\E amount \in {1, 2} : ConsumeGas(amount) \/ RefundGas(amount))
             /\ ~(\E op \in {"read", "write"}, k \in Key, v \in Value :
                     KVStore(op, k, v) \/ Store(op, k, v))
             /\ ~Panic /\ ~Abort /\ ~Done /\ ~Tick /\ ~Terminated
      BY <2>3 DEF ConsumeGas, RefundGas, KVStore, Store, Panic, Abort, Done, Tick,
                  Terminated, vars
    <3>5. ~UNCHANGED varsH
      BY <2>3 DEF varsH, vars
    <3>6. QED  BY <1>1, <2>6, <3>1, <3>2, <3>3, <3>4, <3>5 DEF NextH
  <2>8. spans'[Top.span].events = Top.em
    <3>1. /\ spans' = [spans EXCEPT ![Top.span] =
                          Finished(spans[Top.span], Top.clock, Top.em, failed)]
          /\ spans[Top.span] \in Spans
      BY <2>1, <2>7 DEF Return
    <3>2. QED  BY <2>1, <3>1 DEF Finished, Spans
  <2>9. QED  BY <2>1, <2>8, TransFacts, <1>1
<1>2. QED  BY <1>1, InitTransInv, NextTransInv, PTL DEF SpecH, ReportsItsEvents

-----------------------------------------------------------------------------
(* The refinement.  LogsUpTo follows the stack and has one log of events for *)
(* each cache branch: a branch begins one, a traced call adds what it holds   *)
(* to the last one.  Facts about its recursion come from the well-founded     *)
(* order of the naturals, for sets.                                           *)

\* Every set of naturals that holds zero and with each number the next is Nat.
LEMMA NatWellFounded ==
    ASSUME NEW S, 0 \in S, \A n \in Nat : n \in S => n + 1 \in S
    PROVE  \A n \in Nat : n \in S
<1> DEFINE Less == {ss \in Nat \X Nat : ss[1] < ss[2]}
           Left == Nat \ S
<1>1. IsWellFoundedOn(Less, Nat)
  BY NatLessThanWellFounded DEF OpToRel
<1>2. ASSUME Left # {}
      PROVE  FALSE
  <2> HIDE DEF Less
  <2>1. PICK x \in Left : \A y \in Left : <<y, x>> \notin Less
    BY <1>1, <1>2, WFMin
  <2>2. x \in Nat /\ x \notin S /\ x # 0
    BY <2>1
  <2>3. x - 1 \in Nat /\ <<x - 1, x>> \in Less
    BY <2>2 DEF Less
  <2>4. x - 1 \in S
    BY <2>1, <2>3
  <2>5. QED  BY <2>2, <2>3, <2>4
<1>3. QED  BY <1>2

\* LogsUpTo is what its definition says.
LEMMA LogsStep ==
    ASSUME NEW st, Len(st) \in Nat
    PROVE  /\ LogsUpTo(st)[0] = <<>>
           /\ \A i \in 1..Len(st) : LogsUpTo(st)[i] = Logged(LogsUpTo(st)[i - 1], st[i])
<1> DEFINE To(n, f) == f = [i \in 0..n |-> IF i = 0 THEN <<>> ELSE Logged(f[i - 1], st[i])]
           S == {n \in Nat : \E f : To(n, f)}
<1>1. 0 \in S
  <2>1. To(0, [i \in 0..0 |-> <<>>])
    OBVIOUS
  <2>2. QED  BY <2>1
<1>2. ASSUME NEW n \in Nat, n \in S
      PROVE  n + 1 \in S
  <2>1. PICK f : To(n, f)
    BY <1>2
  <2> DEFINE g == [i \in 0..(n + 1) |-> IF i = n + 1 THEN Logged(f[n], st[n + 1]) ELSE f[i]]
  <2>2. \A i \in 0..n : g[i] = f[i]
    OBVIOUS
  <2>3. \A i \in 0..(n + 1) : g[i] = IF i = 0 THEN <<>> ELSE Logged(g[i - 1], st[i])
    <3>1. ASSUME NEW i \in 0..(n + 1)
          PROVE  g[i] = IF i = 0 THEN <<>> ELSE Logged(g[i - 1], st[i])
      <4>1. CASE i = 0
        BY <4>1, <2>1
      <4>2. CASE i \in 1..n
        <5>1. g[i] = f[i] /\ g[i - 1] = f[i - 1]
          BY <2>2, <4>2
        <5>2. f[i] = Logged(f[i - 1], st[i])
          BY <2>1, <4>2
        <5> HIDE DEF g
        <5>3. i # 0
          BY <4>2
        <5>4. QED  BY <5>1, <5>2, <5>3, Zenon
      <4>3. CASE i = n + 1
        <5>1. g[i] = Logged(f[n], st[n + 1]) /\ g[i - 1] = f[n]
          BY <2>2, <4>3
        <5> HIDE DEF g
        <5>2. i # 0
          BY <4>3
        <5>3. QED  BY <4>3, <5>1, <5>2, Zenon
      <4>4. QED  BY <4>1, <4>2, <4>3
    <3>2. QED  BY <3>1
  <2>4. To(n + 1, g)
    <3>1. g = [i \in 0..(n + 1) |-> g[i]]
      OBVIOUS
    <3> HIDE DEF g
    <3>2. QED  BY <2>3, <3>1
  <2> HIDE DEF g, To
  <2>5. n + 1 \in Nat
    OBVIOUS
  <2>6. QED  BY <2>4, <2>5
<1>3. \A n \in Nat : n \in S
  <2> HIDE DEF S
  <2>1. QED  BY <1>1, <1>2, NatWellFounded
<1>4. PICK f : To(Len(st), f)
  BY <1>3
<1> DEFINE g == LogsUpTo(st)
<1>5. g = [i \in 0..Len(st) |-> IF i = 0 THEN <<>> ELSE Logged(g[i - 1], st[i])]
  BY <1>4 DEF LogsUpTo
<1> HIDE DEF g
<1>6. g[0] = <<>> /\ \A i \in 1..Len(st) : g[i] = Logged(g[i - 1], st[i])
  BY <1>5
<1>7. QED  BY <1>6 DEF g

\* The logs of the first contexts depend on nothing but their events.
LEMMA LogsSame ==
    ASSUME NEW st, NEW st2, NEW n \in Nat, Len(st) \in Nat, Len(st2) \in Nat,
           n <= Len(st), n <= Len(st2),
           \A i \in 1..n : st2[i].kind = st[i].kind /\ st2[i].em = st[i].em
    PROVE  LogsUpTo(st2)[n] = LogsUpTo(st)[n]
<1> DEFINE S == {i \in Nat : i <= n => LogsUpTo(st2)[i] = LogsUpTo(st)[i]}
<1>1. 0 \in S
  <2>1. LogsUpTo(st2)[0] = <<>> /\ LogsUpTo(st)[0] = <<>>
    BY LogsStep
  <2>2. QED  BY <2>1
<1>2. ASSUME NEW i \in Nat, i \in S
      PROVE  i + 1 \in S
  <2>1. ASSUME i + 1 <= n
        PROVE  LogsUpTo(st2)[i + 1] = LogsUpTo(st)[i + 1]
    <3>1. LogsUpTo(st2)[i] = LogsUpTo(st)[i]
      BY <1>2, <2>1
    <3>2. i + 1 \in 1..Len(st) /\ i + 1 \in 1..Len(st2) /\ i + 1 \in 1..n /\ i + 1 - 1 = i
      BY <2>1
    <3>3. /\ LogsUpTo(st2)[i + 1] = Logged(LogsUpTo(st2)[i], st2[i + 1])
          /\ LogsUpTo(st)[i + 1] = Logged(LogsUpTo(st)[i], st[i + 1])
      <4>1. /\ LogsUpTo(st2)[i + 1] = Logged(LogsUpTo(st2)[i + 1 - 1], st2[i + 1])
            /\ LogsUpTo(st)[i + 1] = Logged(LogsUpTo(st)[i + 1 - 1], st[i + 1])
        BY <3>2, LogsStep
      <4>2. QED  BY <3>2, <4>1
    <3>4. st2[i + 1].kind = st[i + 1].kind /\ st2[i + 1].em = st[i + 1].em
      BY <3>2
    <3>5. QED  BY <3>1, <3>3, <3>4 DEF Logged
  <2>2. QED  BY <2>1
<1>3. \A i \in Nat : i \in S
  <2> HIDE DEF S
  <2>1. QED  BY <1>1, <1>2, NatWellFounded
<1>4. QED  BY <1>3

EventLogs == Seq(Seq(Event))

\* A branch has a log of its own.
LEMMA LoggedBranch ==
    ASSUME NEW logs \in EventLogs, NEW c \in Contexts, c.kind # "call"
    PROVE  /\ Logged(logs, c) \in EventLogs /\ Len(Logged(logs, c)) = Len(logs) + 1
           /\ Logged(logs, c) = Append(logs, c.em)
           /\ \A b \in 1..Len(logs) : Logged(logs, c)[b] = logs[b]
           /\ Logged(logs, c)[Len(logs) + 1] = c.em
<1>1. c.em \in Seq(Event) /\ logs \in Seq(Seq(Event))
  BY DEF Contexts, EventLogs
<1>2. Logged(logs, c) = Append(logs, c.em)
  BY DEF Logged
<1>3. QED  BY <1>1, <1>2, SeqGrown DEF EventLogs

\* A traced call goes on with that of its caller.
LEMMA LoggedCall ==
    ASSUME NEW logs \in EventLogs, NEW c \in Contexts, c.kind = "call", Len(logs) > 0
    PROVE  /\ Logged(logs, c) \in EventLogs /\ Len(Logged(logs, c)) = Len(logs)
           /\ \A b \in 1..(Len(logs) - 1) : Logged(logs, c)[b] = logs[b]
           /\ Logged(logs, c)[Len(logs)] = logs[Len(logs)] \o c.em
<1> DEFINE x == logs[Len(logs)] \o c.em
<1>1. /\ c.em \in Seq(Event) /\ logs \in Seq(Seq(Event)) /\ Len(logs) \in Nat
      /\ Len(logs) \in 1..Len(logs)
  BY DEF Contexts, EventLogs
<1>2. x \in Seq(Event)
  BY <1>1
<1>3. Logged(logs, c) = [logs EXCEPT ![Len(logs)] = x]
  BY DEF Logged
<1> HIDE DEF x
<1>4. /\ Logged(logs, c) \in Seq(Seq(Event)) /\ Len(Logged(logs, c)) = Len(logs)
      /\ \A b \in 1..Len(logs) : Logged(logs, c)[b] = IF b = Len(logs) THEN x ELSE logs[b]
  BY <1>1, <1>2, <1>3, SeqUpdated
<1>5. \A b \in 1..(Len(logs) - 1) : Logged(logs, c)[b] = logs[b]
  <2>1. \A b \in 1..(Len(logs) - 1) : b \in 1..Len(logs) /\ b # Len(logs)
    BY <1>1
  <2>2. QED  BY <1>4, <2>1
<1>6. Logged(logs, c)[Len(logs)] = x
  BY <1>1, <1>4
<1>7. QED  BY <1>4, <1>5, <1>6 DEF EventLogs, x

LogsOf(st) == LogsUpTo(st)[Len(st)]

\* There is one log for each branch.
LEMMA LogsTypes ==
    ASSUME TypeInv
    PROVE  \A i \in 1..Depth : /\ LogsUpTo(stack)[i] \in EventLogs
                               /\ Len(LogsUpTo(stack)[i]) = stack[i].ms.base
<1> DEFINE S == {i \in Nat : i \in 1..Depth => /\ LogsUpTo(stack)[i] \in EventLogs
                                               /\ Len(LogsUpTo(stack)[i]) = stack[i].ms.base}
<1>1. Depth \in Nat /\ \A i \in 1..Depth : stack[i] \in Contexts /\ stack[i].ms.base \in Nat
  <2>1. Depth \in Nat /\ \A i \in 1..Depth : stack[i] \in Contexts
    BY TopFacts DEF Depth
  <2>2. QED  BY <2>1 DEF Contexts, MultiStores
<1>2. 0 \in S
  OBVIOUS
<1>3. ASSUME NEW i \in Nat, i \in S
      PROVE  i + 1 \in S
  <2>1. SUFFICES ASSUME i + 1 \in 1..Depth
                 PROVE  /\ LogsUpTo(stack)[i + 1] \in EventLogs
                        /\ Len(LogsUpTo(stack)[i + 1]) = stack[i + 1].ms.base
    BY <1>1
  <2>2. LogsUpTo(stack)[i + 1] = Logged(LogsUpTo(stack)[i], stack[i + 1])
    <3>1. LogsUpTo(stack)[i + 1] = Logged(LogsUpTo(stack)[i + 1 - 1], stack[i + 1])
      BY <1>1, <2>1, LogsStep DEF Depth
    <3>2. QED  BY <3>1
  <2>3. stack[i + 1] \in Contexts
    BY <1>1, <2>1
  <2>4. CASE i = 0
    <3>1. stack[1].kind = "root" /\ stack[1].ms.base = 1
      BY DEF TypeInv, ContextsLineUp, StoresLineUp
    <3>2. LogsUpTo(stack)[0] = <<>>
      BY <1>1, LogsStep DEF Depth
    <3>3. <<>> \in EventLogs /\ Len(<<>>) = 0
      BY DEF EventLogs
    <3>4. stack[1] \in Contexts
      BY <2>3, <2>4
    <3>5. Logged(<<>>, stack[1]) \in EventLogs /\ Len(Logged(<<>>, stack[1])) = 1
      <4> DEFINE none == <<>>
      <4>1. none \in EventLogs /\ Len(none) = 0
        BY <3>3
      <4> HIDE DEF none
      <4>2. stack[1].kind # "call"
        BY <3>1
      <4>3. Logged(none, stack[1]) \in EventLogs /\ Len(Logged(none, stack[1])) = Len(none) + 1
        BY <3>4, <4>1, <4>2, LoggedBranch
      <4>4. Logged(none, stack[1]) \in EventLogs /\ Len(Logged(none, stack[1])) = 1
        BY <4>1, <4>3
      <4>5. QED  BY <4>4 DEF none
    <3>6. LogsUpTo(stack)[1] = Logged(<<>>, stack[1])
      BY <2>2, <2>4, <3>2
    <3>7. LogsUpTo(stack)[1] \in EventLogs /\ Len(LogsUpTo(stack)[1]) = stack[1].ms.base
      BY <3>1, <3>5, <3>6
    <3>8. i + 1 = 1
      BY <2>4
    <3>9. QED  BY <3>7, <3>8
  <2>5. CASE i # 0
    <3>1. i \in 1..Depth /\ i + 1 \in 2..Depth /\ i + 1 - 1 = i
      BY <1>1, <2>1, <2>5
    <3> DEFINE c == stack[i + 1]
               logs == LogsUpTo(stack)[i]
    <3>2. logs \in EventLogs /\ Len(logs) = stack[i].ms.base
      BY <1>3, <3>1
    <3>3. /\ c.kind # "root"
          /\ c.kind = "call" => c.ms.base = stack[i].ms.base
          /\ c.kind = "branch" => c.ms.base = stack[i].ms.base + 1
      <4>1. /\ stack[i + 1].kind # "root"
            /\ stack[i + 1].kind = "call" => stack[i + 1].ms.base = stack[i + 1 - 1].ms.base
            /\ stack[i + 1].kind = "branch" => stack[i + 1].ms.base = stack[i + 1 - 1].ms.base + 1
        BY <3>1 DEF TypeInv, ContextsLineUp, StoresLineUp
      <4>2. QED  BY <3>1, <4>1
    <3>4. stack[i].ms.base >= 1
      BY <3>1 DEF TypeInv, ContextsLineUp, StoresLineUp
    <3>5. c \in Contexts /\ c.kind \in {"root", "call", "branch"}
      BY <2>3 DEF Contexts
    <3>6. LogsUpTo(stack)[i + 1] = Logged(logs, c)
      BY <2>2
    <3> HIDE DEF c, logs
    <3>7. Logged(logs, c) \in EventLogs /\ Len(Logged(logs, c)) = c.ms.base
      <4>1. CASE c.kind = "call"
        <5>1. Len(logs) > 0
          BY <1>1, <3>1, <3>2, <3>4
        <5>2. QED  BY <3>2, <3>3, <3>5, <4>1, <5>1, LoggedCall
      <4>2. CASE c.kind # "call"
        BY <3>2, <3>3, <3>5, <4>2, LoggedBranch
      <4>3. QED  BY <4>1, <4>2
    <3>8. QED  BY <3>6, <3>7 DEF c
  <2>6. QED  BY <2>4, <2>5
<1>4. \A i \in Nat : i \in S
  <2> HIDE DEF S
  <2>1. QED  BY <1>2, <1>3, NatWellFounded
<1>5. QED  BY <1>1, <1>4

-----------------------------------------------------------------------------
(* The refinement: what steps do to the logs *)

\* Each context adds to the logs of those below it.
LEMMA LogsBelow ==
    ASSUME TypeInv
    PROVE  /\ Depth \in Nat /\ Depth >= 1
           /\ \A i \in 1..Depth :
                /\ stack[i] \in Contexts
                /\ LogsUpTo(stack)[i - 1] \in EventLogs
                /\ stack[i].kind = "call" => Len(LogsUpTo(stack)[i - 1]) > 0
                /\ LogsUpTo(stack)[i] = Logged(LogsUpTo(stack)[i - 1], stack[i])
<1>1. Depth \in Nat /\ Depth >= 1 /\ \A i \in 1..Depth : stack[i] \in Contexts
  BY TopFacts DEF Depth
<1>2. \A i \in 1..Depth : LogsUpTo(stack)[i] = Logged(LogsUpTo(stack)[i - 1], stack[i])
  BY <1>1, LogsStep DEF Depth
<1>3. ASSUME NEW i \in 1..Depth
      PROVE  /\ LogsUpTo(stack)[i - 1] \in EventLogs
             /\ stack[i].kind = "call" => Len(LogsUpTo(stack)[i - 1]) > 0
  <2>1. CASE i = 1
    <3>1. LogsUpTo(stack)[0] = <<>>
      BY <1>1, LogsStep DEF Depth
    <3>2. <<>> \in EventLogs
      BY DEF EventLogs
    <3>3. stack[1].kind = "root"
      BY DEF TypeInv, ContextsLineUp, StoresLineUp
    <3>4. i - 1 = 0
      BY <2>1
    <3>5. QED  BY <2>1, <3>1, <3>2, <3>3, <3>4
  <2>2. CASE i # 1
    <3>1. i - 1 \in 1..Depth
      BY <1>1, <2>2
    <3>2. stack[i - 1].ms.base >= 1
      BY <3>1 DEF TypeInv, ContextsLineUp, StoresLineUp
    <3>3. LogsUpTo(stack)[i - 1] \in EventLogs /\ Len(LogsUpTo(stack)[i - 1]) = stack[i - 1].ms.base
      BY <3>1, LogsTypes
    <3>4. Len(LogsUpTo(stack)[i - 1]) \in Nat
      BY <3>3 DEF EventLogs
    <3>5. QED  BY <3>2, <3>3, <3>4
  <2>3. QED  BY <2>1, <2>2
<1>4. QED  BY <1>1, <1>2, <1>3

\* The running context is the last.
LEMMA LogsTop ==
    ASSUME TypeInv
    PROVE  /\ LogsOf(stack) \in EventLogs /\ Len(LogsOf(stack)) = Len(stores)
           /\ LogsOf(stack) = Logged(LogsUpTo(stack)[Depth - 1], Top)
           /\ LogsUpTo(stack)[Depth - 1] \in EventLogs
           /\ Top.kind = "call" => Len(LogsUpTo(stack)[Depth - 1]) > 0
           /\ Top.kind = "root" => Depth = 1 /\ Len(stores) = 1
           /\ Top.kind # "root" => Len(LogsUpTo(stack)[Depth - 1]) = Caller.ms.base
<1>1. Depth \in 1..Depth /\ Depth \in Nat
  BY LogsBelow
<1>2. LogsOf(stack) \in EventLogs /\ Len(LogsOf(stack)) = Len(stores)
  <2>1. /\ LogsUpTo(stack)[Depth] \in EventLogs
        /\ Len(LogsUpTo(stack)[Depth]) = stack[Depth].ms.base
    BY <1>1, LogsTypes
  <2>2. stack[Depth].ms.base = Len(stores)
    BY TopFacts DEF Top
  <2>3. QED  BY <2>1, <2>2 DEF LogsOf, Depth
<1>3. /\ LogsOf(stack) = Logged(LogsUpTo(stack)[Depth - 1], Top)
      /\ LogsUpTo(stack)[Depth - 1] \in EventLogs
      /\ Top.kind = "call" => Len(LogsUpTo(stack)[Depth - 1]) > 0
  <2>1. /\ LogsUpTo(stack)[Depth - 1] \in EventLogs
        /\ stack[Depth].kind = "call" => Len(LogsUpTo(stack)[Depth - 1]) > 0
        /\ LogsUpTo(stack)[Depth] = Logged(LogsUpTo(stack)[Depth - 1], stack[Depth])
    BY <1>1, LogsBelow
  <2>2. LogsOf(stack) = LogsUpTo(stack)[Depth]
    BY DEF LogsOf, Depth
  <2>3. QED  BY <2>1, <2>2 DEF Top
<1>4. ASSUME Top.kind = "root"
      PROVE  Depth = 1 /\ Len(stores) = 1
  <2>1. Depth = 1
    <3>1. Depth \notin 2..Depth
      BY <1>4 DEF TypeInv, ContextsLineUp, StoresLineUp, Top
    <3>2. QED  BY <1>1, <3>1
  <2>2. stack[1].ms.base = 1 /\ stack[Depth].ms.base = Len(stores)
    BY DEF TypeInv, ContextsLineUp, StoresLineUp, Top
  <2>3. QED  BY <2>1, <2>2
<1>5. ASSUME Top.kind # "root"
      PROVE  Len(LogsUpTo(stack)[Depth - 1]) = Caller.ms.base
  <2>1. Depth - 1 \in 1..Depth
    BY <1>1, <1>5, TopFacts
  <2>2. QED  BY <2>1, LogsTypes DEF Caller
<1>6. QED  BY <1>2, <1>3, <1>4, <1>5

\* A context is pushed, and one is popped whose events are dropped.
LEMMA LogsPushed ==
    ASSUME TypeInv, NEW c \in Contexts
    PROVE  LogsOf(Append(stack, c)) = Logged(LogsOf(stack), c)
<1> DEFINE st == Append(stack, c)
<1>1. /\ Len(st) = Depth + 1 /\ Depth \in Nat
      /\ \A i \in 1..(Depth + 1) : st[i] = IF i <= Depth THEN stack[i] ELSE c
  BY TopFacts, SeqGrown DEF Depth
<1> HIDE DEF st
<1>2. LogsUpTo(st)[Depth] = LogsUpTo(stack)[Depth]
  <2>1. \A i \in 1..Depth : st[i].kind = stack[i].kind /\ st[i].em = stack[i].em
    BY <1>1
  <2>2. Len(st) \in Nat /\ Depth <= Len(st) /\ Len(stack) \in Nat /\ Depth <= Len(stack)
    BY <1>1 DEF Depth
  <2>3. QED  BY <1>1, <2>1, <2>2, LogsSame
<1>3. LogsUpTo(st)[Depth + 1] = Logged(LogsUpTo(st)[Depth + 1 - 1], st[Depth + 1])
  BY <1>1, LogsStep
<1>4. Depth + 1 - 1 = Depth /\ st[Depth + 1] = c
  BY <1>1
<1>5. QED  BY <1>1, <1>2, <1>3, <1>4 DEF LogsOf, st, Depth

\* The last context is replaced, of st or of what is left of it.
LEMMA LogsReplaced ==
    ASSUME NEW st, NEW st2, NEW n \in Nat, n >= 1, Len(st) \in Nat, n <= Len(st), Len(st2) = n,
           \A i \in 1..(n - 1) : st2[i].kind = st[i].kind /\ st2[i].em = st[i].em
    PROVE  LogsOf(st2) = Logged(LogsUpTo(st)[n - 1], st2[n])
<1>1. LogsUpTo(st2)[n - 1] = LogsUpTo(st)[n - 1]
  <2>1. n - 1 \in Nat /\ n - 1 <= Len(st) /\ n - 1 <= Len(st2) /\ Len(st2) \in Nat
    OBVIOUS
  <2>2. QED  BY <2>1, LogsSame
<1>2. LogsUpTo(st2)[n] = Logged(LogsUpTo(st2)[n - 1], st2[n])
  <2>1. Len(st2) \in Nat /\ n \in 1..Len(st2)
    OBVIOUS
  <2>2. QED  BY <2>1, LogsStep
<1>3. QED  BY <1>1, <1>2 DEF LogsOf

LEMMA LogsPopped ==
    ASSUME TypeInv, Top.kind # "root"
    PROVE  LogsOf(SubSeq(stack, 1, Depth - 1)) = LogsUpTo(stack)[Depth - 1]
<1> DEFINE st == SubSeq(stack, 1, Depth - 1)
<1>1. /\ Len(st) = Depth - 1 /\ Depth - 1 \in Nat
      /\ \A i \in 1..(Depth - 1) : st[i] = stack[i]
  <2>1. stack \in Seq(Contexts) /\ stack # <<>> /\ Depth \in Nat /\ Depth >= 1
    BY TopFacts DEF Depth
  <2>2. QED  BY <2>1, SeqShortened DEF Depth
<1> HIDE DEF st
<1>2. \A i \in 1..(Depth - 1) : st[i].kind = stack[i].kind /\ st[i].em = stack[i].em
  BY <1>1
<1>3. Len(stack) \in Nat /\ Depth - 1 <= Len(stack) /\ Depth - 1 <= Len(st) /\ Len(st) \in Nat
  BY <1>1, TopFacts DEF Depth
<1>4. LogsUpTo(st)[Depth - 1] = LogsUpTo(stack)[Depth - 1]
  BY <1>1, <1>2, <1>3, LogsSame
<1>5. QED  BY <1>1, <1>4 DEF LogsOf, st

\* Events are added to the last log.
Extended(a, a2, t) ==
    /\ a \in EventLogs /\ a2 \in EventLogs
    /\ Len(a) \in Nat /\ Len(a) >= 1 /\ Len(a2) = Len(a)
    /\ \A b \in 1..(Len(a) - 1) : a2[b] = a[b]
    /\ a2[Len(a)] = a[Len(a)] \o t

LEMMA MoreLogged ==
    ASSUME NEW below \in EventLogs, NEW c \in Contexts, NEW c2 \in Contexts, NEW t \in Seq(Event),
           c2.kind = c.kind, c2.em = c.em \o t, c.kind = "call" => Len(below) > 0
    PROVE  Extended(Logged(below, c), Logged(below, c2), t)
<1>1. Len(below) \in Nat /\ c.em \in Seq(Event) /\ \A b \in 1..Len(below) : below[b] \in Seq(Event)
  BY DEF EventLogs, Contexts
<1> DEFINE a == Logged(below, c)
           a2 == Logged(below, c2)
<1>2. CASE c.kind # "call"
  <2>1. /\ a \in EventLogs /\ Len(a) = Len(below) + 1
        /\ \A b \in 1..Len(below) : a[b] = below[b]
        /\ a[Len(below) + 1] = c.em
    BY <1>2, LoggedBranch
  <2>2. /\ a2 \in EventLogs /\ Len(a2) = Len(below) + 1
        /\ \A b \in 1..Len(below) : a2[b] = below[b]
        /\ a2[Len(below) + 1] = c.em \o t
    BY <1>2, LoggedBranch
  <2> HIDE DEF a, a2
  <2>3. \A b \in 1..(Len(a) - 1) : a2[b] = a[b]
    BY <1>1, <2>1, <2>2
  <2>4. a2[Len(a)] = a[Len(a)] \o t
    BY <2>1, <2>2
  <2>5. Len(a) \in Nat /\ Len(a) >= 1 /\ Len(a2) = Len(a)
    BY <1>1, <2>1, <2>2
  <2>6. QED  BY <2>1, <2>2, <2>3, <2>4, <2>5 DEF a, a2, Extended
<1>3. CASE c.kind = "call"
  <2>1. /\ a \in EventLogs /\ Len(a) = Len(below)
        /\ \A b \in 1..(Len(below) - 1) : a[b] = below[b]
        /\ a[Len(below)] = below[Len(below)] \o c.em
    BY <1>3, LoggedCall
  <2>2. /\ a2 \in EventLogs /\ Len(a2) = Len(below)
        /\ \A b \in 1..(Len(below) - 1) : a2[b] = below[b]
        /\ a2[Len(below)] = below[Len(below)] \o (c.em \o t)
    BY <1>3, LoggedCall
  <2>3. below[Len(below)] \in Seq(Event)
    BY <1>1, <1>3
  <2> HIDE DEF a, a2
  <2>4. below[Len(below)] \o (c.em \o t) = (below[Len(below)] \o c.em) \o t
    <3> DEFINE x == below[Len(below)]
               y == c.em
    <3>1. x \in Seq(Event) /\ y \in Seq(Event) /\ t \in Seq(Event)
      BY <1>1, <2>3
    <3> HIDE DEF x, y
    <3>2. (x \o y) \o t = x \o (y \o t)
      BY <3>1, ConcatAssociative
    <3>3. QED  BY <3>2 DEF x, y
  <2>5. \A b \in 1..(Len(a) - 1) : a2[b] = a[b]
    BY <1>1, <2>1, <2>2
  <2>6. a2[Len(a)] = a[Len(a)] \o t
    BY <2>1, <2>2, <2>4
  <2>7. Len(a) \in Nat /\ Len(a) >= 1 /\ Len(a2) = Len(a)
    BY <1>1, <1>3, <2>1, <2>2
  <2>8. QED  BY <2>1, <2>2, <2>5, <2>6, <2>7 DEF a, a2, Extended
<1>4. QED  BY <1>2, <1>3

-----------------------------------------------------------------------------
(* The refinement: contexts of the undecorated program *)

LEMMA LastIndex ==
    ASSUME NEW n \in Nat, n >= 1
    PROVE  /\ n \in 1..n
           /\ \A b \in 1..(n - 1) : b \in 1..n /\ b # n
           /\ \A b \in 1..n : b = n \/ b \in 1..(n - 1)
OBVIOUS

UCtxs == [events: Seq(Event), db: [Key -> Value]]

View(logs, db, md) ==
    [b \in DOMAIN db |->
        [events |-> IF b = Len(db) /\ md \in {"panic", "aborted"} THEN <<>> ELSE logs[b],
         db |-> db[b]]]

Views(logs, db) ==
    logs \in EventLogs /\ db \in Seq([Key -> Value]) /\ Len(logs) = Len(db) /\ Len(db) >= 1

\* The contexts of the program, and with the last one panicking.
Shown(u, logs, db) ==
    /\ u \in Seq(UCtxs) /\ Len(u) = Len(db) /\ Len(db) \in Nat /\ Len(db) >= 1
    /\ \A b \in 1..Len(db) : u[b] = [events |-> logs[b], db |-> db[b]] /\ logs[b] \in Seq(Event)

ShownBelow(u, logs, db) ==
    /\ u \in Seq(UCtxs) /\ Len(u) = Len(db) /\ Len(db) \in Nat /\ Len(db) >= 1
    /\ \A b \in 1..(Len(db) - 1) :
            u[b] = [events |-> logs[b], db |-> db[b]] /\ logs[b] \in Seq(Event)
    /\ u[Len(db)] = [events |-> <<>>, db |-> db[Len(db)]]

LEMMA ViewFacts ==
    ASSUME NEW logs, NEW db, NEW md, Views(logs, db)
    PROVE  /\ md \in {"run", "done"} => Shown(View(logs, db, md), logs, db)
           /\ md \in {"panic", "aborted"} => ShownBelow(View(logs, db, md), logs, db)
<1>1. /\ Len(db) \in Nat /\ Len(db) >= 1 /\ DOMAIN db = 1..Len(db)
      /\ \A b \in 1..Len(db) : logs[b] \in Seq(Event) /\ db[b] \in [Key -> Value]
  BY DEF Views, EventLogs
<1> DEFINE log(b) == IF b = Len(db) /\ md \in {"panic", "aborted"} THEN <<>> ELSE logs[b]
           u(b) == [events |-> log(b), db |-> db[b]]
<1>2. \A b \in 1..Len(db) : log(b) \in Seq(Event)
  <2>1. ASSUME NEW b \in 1..Len(db)
        PROVE  log(b) \in Seq(Event)
    <3>1. logs[b] \in Seq(Event) /\ <<>> \in Seq(Event)
      BY <1>1
    <3>2. QED  BY <3>1, Zenon
  <2>2. QED  BY <2>1
<1>3. \A b \in 1..Len(db) : u(b) \in UCtxs
  <2> HIDE DEF log
  <2>1. QED  BY <1>1, <1>2 DEF UCtxs
<1>4. View(logs, db, md) = [b \in 1..Len(db) |-> u(b)]
  BY <1>1 DEF View
<1>5. \A b \in 1..(Len(db) - 1) : u(b) = [events |-> logs[b], db |-> db[b]]
  <2>1. ASSUME NEW b \in 1..(Len(db) - 1)
        PROVE  log(b) = logs[b]
    <3>1. Len(db) \in Nat
      BY <1>1
    <3>2. b # Len(db)
      BY <3>1
    <3>3. QED  BY <3>2
  <2> HIDE DEF log
  <2>2. QED  BY <2>1
<1>6. md \in {"run", "done"} => u(Len(db)) = [events |-> logs[Len(db)], db |-> db[Len(db)]]
  OBVIOUS
<1>7. md \in {"panic", "aborted"} => u(Len(db)) = [events |-> <<>>, db |-> db[Len(db)]]
  OBVIOUS
<1> HIDE DEF u
<1>8. /\ View(logs, db, md) \in Seq(UCtxs) /\ Len(View(logs, db, md)) = Len(db)
      /\ \A b \in 1..Len(db) : View(logs, db, md)[b] = u(b)
  BY <1>1, <1>3, <1>4
<1>9. /\ \A b \in 1..(Len(db) - 1) : b \in 1..Len(db) /\ b # Len(db)
      /\ \A b \in 1..Len(db) : b = Len(db) \/ b \in 1..(Len(db) - 1)
      /\ Len(db) \in 1..Len(db)
  <2> DEFINE n == Len(db)
  <2>1. n \in Nat /\ n >= 1
    BY <1>1
  <2> HIDE DEF n
  <2>2. /\ n \in 1..n
        /\ \A b \in 1..(n - 1) : b \in 1..n /\ b # n
        /\ \A b \in 1..n : b = n \/ b \in 1..(n - 1)
    BY <2>1, LastIndex
  <2>3. QED  BY <2>2 DEF n
<1>10. ASSUME md \in {"run", "done"}
       PROVE  Shown(View(logs, db, md), logs, db)
  <2>1. \A b \in 1..Len(db) : View(logs, db, md)[b] = [events |-> logs[b], db |-> db[b]]
    BY <1>5, <1>6, <1>8, <1>9, <1>10
  <2>2. QED  BY <1>1, <1>8, <2>1 DEF Shown
<1>11. ASSUME md \in {"panic", "aborted"}
       PROVE  ShownBelow(View(logs, db, md), logs, db)
  <2>1. /\ \A b \in 1..(Len(db) - 1) : View(logs, db, md)[b] = [events |-> logs[b], db |-> db[b]]
        /\ View(logs, db, md)[Len(db)] = [events |-> <<>>, db |-> db[Len(db)]]
    BY <1>5, <1>7, <1>8, <1>9, <1>11
  <2>2. QED  BY <1>1, <1>8, <1>9, <2>1 DEF ShownBelow
<1>12. QED  BY <1>10, <1>11

\* What the actions of Untraced do to contexts, element by element.
LEMMA EventsChanged ==
    ASSUME NEW u \in Seq(UCtxs), NEW v \in Seq(UCtxs), Len(u) >= 1, Len(v) = Len(u),
           \A b \in 1..(Len(u) - 1) : v[b] = u[b], v[Len(u)].db = u[Len(u)].db
    PROVE  v = [u EXCEPT ![Len(u)].events = v[Len(u)].events]
<1> DEFINE n == Len(u)
           x == [u[n] EXCEPT !.events = v[n].events]
<1>1. n \in 1..n /\ n \in Nat /\ u[n] \in UCtxs /\ v[n] \in UCtxs
  OBVIOUS
<1>2. x = v[n]
  BY <1>1 DEF UCtxs
<1>3. [u EXCEPT ![n].events = v[n].events] = [u EXCEPT ![n] = x]
  OBVIOUS
<1> HIDE DEF x
<1> DEFINE w == [u EXCEPT ![n] = x]
<1>4. /\ w \in Seq(UCtxs) /\ Len(w) = Len(u)
      /\ \A j \in 1..Len(u) : w[j] = IF j = n THEN x ELSE u[j]
  BY <1>1, <1>2, SeqUpdated
<1> HIDE DEF w
<1>5. \A j \in 1..Len(v) : v[j] = w[j]
  BY <1>1, <1>2, <1>4
<1>6. v = w
  BY <1>4, <1>5, SeqEqual
<1>7. QED  BY <1>3, <1>6 DEF w

LEMMA ShownPanics ==
    ASSUME NEW u, NEW v, NEW logs, NEW db, Shown(u, logs, db), ShownBelow(v, logs, db)
    PROVE  v = [u EXCEPT ![Len(u)].events = <<>>]
<1> DEFINE n == Len(db)
<1>1. /\ u \in Seq(UCtxs) /\ v \in Seq(UCtxs) /\ Len(u) = n /\ Len(v) = n
      /\ n \in Nat /\ n >= 1
      /\ \A b \in 1..n : u[b] = [events |-> logs[b], db |-> db[b]]
      /\ \A b \in 1..(n - 1) : v[b] = [events |-> logs[b], db |-> db[b]]
      /\ v[n] = [events |-> <<>>, db |-> db[n]]
  BY DEF Shown, ShownBelow
<1> HIDE DEF n
<1>2. n \in 1..n /\ \A b \in 1..(n - 1) : b \in 1..n
  BY <1>1, LastIndex
<1>3. \A b \in 1..(n - 1) : v[b] = u[b]
  BY <1>1, <1>2
<1>4. u[n] = [events |-> logs[n], db |-> db[n]]
  BY <1>1, <1>2
<1>5. v[n].db = u[n].db /\ v[n].events = <<>>
  BY <1>1, <1>4
<1>6. v = [u EXCEPT ![Len(u)].events = v[Len(u)].events]
  BY <1>1, <1>3, <1>5, EventsChanged
<1>7. QED  BY <1>1, <1>5, <1>6

LEMMA ShownEvent ==
    ASSUME NEW u, NEW v, NEW a, NEW a2, NEW db, NEW e \in Event, Len(a) = Len(db),
           Shown(u, a, db), Shown(v, a2, db), Extended(a, a2, <<e>>)
    PROVE  v = [u EXCEPT ![Len(u)].events = Append(@, e)]
<1> DEFINE n == Len(db)
<1>1. /\ u \in Seq(UCtxs) /\ v \in Seq(UCtxs) /\ Len(u) = n /\ Len(v) = n
      /\ n \in Nat /\ n >= 1
      /\ \A b \in 1..n : u[b] = [events |-> a[b], db |-> db[b]] /\ a[b] \in Seq(Event)
      /\ \A b \in 1..n : v[b] = [events |-> a2[b], db |-> db[b]]
  BY DEF Shown
<1>2. (\A b \in 1..(n - 1) : a2[b] = a[b]) /\ a2[n] = a[n] \o <<e>>
  BY DEF Extended
<1> HIDE DEF n
<1>3. n \in 1..n /\ \A b \in 1..(n - 1) : b \in 1..n
  BY <1>1, LastIndex
<1>4. \A b \in 1..(n - 1) : v[b] = u[b]
  BY <1>1, <1>2, <1>3
<1>5. /\ u[n] = [events |-> a[n], db |-> db[n]] /\ a[n] \in Seq(Event)
      /\ v[n] = [events |-> a2[n], db |-> db[n]]
  BY <1>1, <1>3
<1>6. v[n].db = u[n].db /\ v[n].events = Append(u[n].events, e)
  <2>1. a[n] \o <<e>> = Append(a[n], e)
    BY <1>5, AppendIsConcat
  <2>2. QED  BY <1>2, <1>5, <2>1
<1>7. v = [u EXCEPT ![Len(u)].events = v[Len(u)].events]
  BY <1>1, <1>4, <1>6, EventsChanged
<1>8. QED  BY <1>1, <1>6, <1>7

LEMMA DbChanged ==
    ASSUME NEW u \in Seq(UCtxs), NEW v \in Seq(UCtxs), Len(u) >= 1, Len(v) = Len(u),
           NEW k, NEW y,
           \A b \in 1..(Len(u) - 1) : v[b] = u[b], v[Len(u)].events = u[Len(u)].events,
           v[Len(u)].db = [u[Len(u)].db EXCEPT ![k] = y]
    PROVE  v = [u EXCEPT ![Len(u)].db[k] = y]
<1> DEFINE n == Len(u)
           x == [u[n] EXCEPT !.db[k] = y]
<1>1. n \in 1..n /\ n \in Nat /\ u[n] \in UCtxs /\ v[n] \in UCtxs
  OBVIOUS
<1>2. x = v[n]
  BY <1>1 DEF UCtxs
<1>3. [u EXCEPT ![n].db[k] = y] = [u EXCEPT ![n] = x]
  OBVIOUS
<1> HIDE DEF x
<1> DEFINE w == [u EXCEPT ![n] = x]
<1>4. /\ w \in Seq(UCtxs) /\ Len(w) = Len(u)
      /\ \A j \in 1..Len(u) : w[j] = IF j = n THEN x ELSE u[j]
  BY <1>1, <1>2, SeqUpdated
<1> HIDE DEF w
<1>5. \A j \in 1..Len(v) : v[j] = w[j]
  BY <1>1, <1>2, <1>4
<1>6. v = w
  BY <1>4, <1>5, SeqEqual
<1>7. QED  BY <1>3, <1>6 DEF w

LEMMA BranchAdded ==
    ASSUME NEW u \in Seq(UCtxs), NEW v \in Seq(UCtxs), Len(u) >= 1, Len(v) = Len(u) + 1,
           \A b \in 1..Len(u) : v[b] = u[b],
           v[Len(u) + 1] = [events |-> <<>>, db |-> u[Len(u)].db]
    PROVE  v = Append(u, [events |-> <<>>, db |-> u[Len(u)].db])
<1> DEFINE x == [events |-> <<>>, db |-> u[Len(u)].db]
           w == Append(u, x)
<1>1. Len(u) \in Nat /\ x \in UCtxs
  <2>1. Len(u) \in Nat /\ Len(u) + 1 \in 1..Len(v)
    OBVIOUS
  <2>2. v[Len(u) + 1] \in UCtxs
    BY <2>1
  <2>3. QED  BY <2>1, <2>2
<1>2. v[Len(u) + 1] = x
  OBVIOUS
<1> HIDE DEF x
<1>3. /\ w \in Seq(UCtxs) /\ Len(w) = Len(u) + 1
      /\ \A j \in 1..(Len(u) + 1) : w[j] = IF j <= Len(u) THEN u[j] ELSE x
  BY <1>1, SeqGrown
<1> HIDE DEF w
<1>4. \A j \in 1..Len(v) : v[j] = w[j]
  <2>1. ASSUME NEW j \in 1..Len(v)
        PROVE  v[j] = w[j]
    <3>1. CASE j = Len(u) + 1
      BY <1>1, <1>2, <1>3, <3>1
    <3>2. CASE j # Len(u) + 1
      <4>1. j \in 1..Len(u) /\ j <= Len(u) /\ j \in 1..(Len(u) + 1)
        BY <1>1, <3>2
      <4>2. QED  BY <1>3, <4>1
    <3>3. QED  BY <3>1, <3>2
  <2>2. QED  BY <2>1
<1>5. v = w
  BY <1>3, <1>4, SeqEqual
<1>6. QED  BY <1>5 DEF w, x

LEMMA BranchDropped ==
    ASSUME NEW u \in Seq(UCtxs), NEW v \in Seq(UCtxs), Len(u) >= 2, Len(v) = Len(u) - 1,
           \A b \in 1..(Len(u) - 1) : v[b] = u[b]
    PROVE  v = SubSeq(u, 1, Len(u) - 1)
<1> DEFINE w == SubSeq(u, 1, Len(u) - 1)
<1>1. u # <<>>
  OBVIOUS
<1>2. /\ w \in Seq(UCtxs) /\ Len(w) = Len(u) - 1
      /\ \A j \in 1..(Len(u) - 1) : w[j] = u[j]
  BY <1>1, SeqShortened
<1> HIDE DEF w
<1>3. \A j \in 1..Len(v) : v[j] = w[j]
  BY <1>2
<1>4. v = w
  BY <1>2, <1>3, SeqEqual
<1>5. QED  BY <1>4 DEF w

Written(db, k, y) == [db EXCEPT ![Len(db)][k] = y]

LEMMA ShownWrite ==
    ASSUME NEW u, NEW v, NEW a, NEW db, NEW db2, NEW k, NEW y, db \in Seq([Key -> Value]),
           Shown(u, a, db), Shown(v, a, db2), db2 = Written(db, k, y)
    PROVE  v = [u EXCEPT ![Len(u)].db[k] = y]
<1> DEFINE n == Len(db)
<1>1. /\ Len(db2) = n
      /\ \A b \in 1..n : b # n => db2[b] = db[b]
      /\ n \in 1..n => db2[n] = [db[n] EXCEPT ![k] = y]
  BY DEF Written
<1>2. /\ u \in Seq(UCtxs) /\ v \in Seq(UCtxs) /\ Len(u) = n /\ Len(v) = n
      /\ n \in Nat /\ n >= 1
      /\ \A b \in 1..n : u[b] = [events |-> a[b], db |-> db[b]]
      /\ \A b \in 1..n : v[b] = [events |-> a[b], db |-> db2[b]]
  BY <1>1 DEF Shown
<1> HIDE DEF n
<1>3. n \in 1..n /\ \A b \in 1..(n - 1) : b \in 1..n /\ b # n
  BY <1>2, LastIndex
<1>4. \A b \in 1..(n - 1) : v[b] = u[b]
  BY <1>1, <1>2, <1>3
<1>5. /\ u[n] = [events |-> a[n], db |-> db[n]]
      /\ v[n] = [events |-> a[n], db |-> [db[n] EXCEPT ![k] = y]]
  BY <1>1, <1>2, <1>3
<1>6. v[n].events = u[n].events /\ v[n].db = [u[n].db EXCEPT ![k] = y]
  BY <1>5
<1>7. QED  BY <1>2, <1>4, <1>6, DbChanged

LEMMA ShownBranch ==
    ASSUME NEW u, NEW v, NEW a, NEW a2, NEW db, NEW db2,
           a \in EventLogs, Len(a) = Len(db), db \in Seq([Key -> Value]),
           Shown(u, a, db), Shown(v, a2, db2),
           a2 = Append(a, <<>>), db2 = Append(db, db[Len(db)])
    PROVE  v = Append(u, [events |-> <<>>, db |-> u[Len(u)].db])
<1> DEFINE n == Len(db)
<1>1. n \in Nat /\ n >= 1 /\ n \in 1..n
  BY DEF Shown
<1>2. /\ \A b \in 1..(n + 1) : a2[b] = IF b <= n THEN a[b] ELSE <<>>
      /\ Len(db2) = n + 1
      /\ \A b \in 1..(n + 1) : db2[b] = IF b <= n THEN db[b] ELSE db[n]
  <2>1. <<>> \in Seq(Event) /\ a \in Seq(Seq(Event))
    BY DEF EventLogs
  <2>2. db[n] \in [Key -> Value]
    BY <1>1
  <2>3. QED  BY <2>1, <2>2, SeqGrown
<1>3. /\ u \in Seq(UCtxs) /\ v \in Seq(UCtxs) /\ Len(u) = n /\ Len(v) = n + 1
      /\ \A b \in 1..n : u[b] = [events |-> a[b], db |-> db[b]]
      /\ \A b \in 1..(n + 1) : v[b] = [events |-> a2[b], db |-> db2[b]]
  BY <1>2 DEF Shown
<1> HIDE DEF n
<1>4. /\ \A b \in 1..n : b \in 1..(n + 1) /\ b <= n
      /\ n + 1 \in 1..(n + 1) /\ ~(n + 1 <= n)
  BY <1>1
<1>5. /\ \A b \in 1..n : a2[b] = a[b] /\ db2[b] = db[b]
      /\ a2[n + 1] = <<>> /\ db2[n + 1] = db[n]
  BY <1>2, <1>4
<1>6. \A b \in 1..n : v[b] = u[b]
  <2>1. ASSUME NEW b \in 1..n
        PROVE  v[b] = u[b]
    <3>1. b \in 1..(n + 1) /\ a2[b] = a[b] /\ db2[b] = db[b]
      BY <1>4, <1>5
    <3>2. v[b] = [events |-> a2[b], db |-> db2[b]] /\ u[b] = [events |-> a[b], db |-> db[b]]
      BY <1>3, <3>1
    <3>3. QED  BY <3>1, <3>2
  <2>2. QED  BY <2>1
<1>7. v[n + 1] = [events |-> <<>>, db |-> db[n]] /\ u[n].db = db[n]
  <2>1. v[n + 1] = [events |-> a2[n + 1], db |-> db2[n + 1]]
    BY <1>3, <1>4
  <2>2. u[n] = [events |-> a[n], db |-> db[n]]
    BY <1>1, <1>3
  <2>3. QED  BY <1>5, <2>1, <2>2
<1>8. QED  BY <1>1, <1>3, <1>6, <1>7, BranchAdded

\* The contexts below the last one, as they are known of either sort.
LEMMA ShownSame ==
    ASSUME NEW u, NEW logs, NEW db, Shown(u, logs, db) \/ ShownBelow(u, logs, db)
    PROVE  /\ u \in Seq(UCtxs) /\ Len(u) = Len(db) /\ Len(db) \in Nat /\ Len(db) >= 1
           /\ \A b \in 1..(Len(db) - 1) : u[b] = [events |-> logs[b], db |-> db[b]]
<1>1. /\ u \in Seq(UCtxs) /\ Len(u) = Len(db) /\ Len(db) \in Nat /\ Len(db) >= 1
  BY DEF Shown, ShownBelow
<1>2. \A b \in 1..(Len(db) - 1) : b \in 1..Len(db)
  BY <1>1
<1>3. QED  BY <1>1, <1>2 DEF Shown, ShownBelow

\* A branch is dropped: when its context was panicking and when not.
LEMMA ShownDropped ==
    ASSUME NEW u, NEW v, NEW a, NEW a2, NEW db, NEW db2, Len(db) >= 2,
           Shown(u, a, db) \/ ShownBelow(u, a, db), Shown(v, a2, db2),
           Len(db2) = Len(db) - 1,
           \A b \in 1..(Len(db) - 1) : a2[b] = a[b] /\ db2[b] = db[b]
    PROVE  v = SubSeq(u, 1, Len(u) - 1)
<1>1. /\ u \in Seq(UCtxs) /\ Len(u) = Len(db) /\ Len(db) \in Nat
      /\ \A b \in 1..(Len(db) - 1) : u[b] = [events |-> a[b], db |-> db[b]]
  BY ShownSame
<1>2. /\ v \in Seq(UCtxs) /\ Len(v) = Len(db) - 1
      /\ \A b \in 1..(Len(db) - 1) : v[b] = [events |-> a2[b], db |-> db2[b]]
  BY DEF Shown
<1>3. \A b \in 1..(Len(db) - 1) : v[b] = u[b]
  BY <1>1, <1>2
<1>4. QED  BY <1>1, <1>2, <1>3, BranchDropped

LEMMA LastChanged ==
    ASSUME NEW m \in Nat, m >= 1, NEW u \in Seq(UCtxs), NEW v \in Seq(UCtxs),
           Len(u) = m + 1, Len(v) = m, \A b \in 1..(m - 1) : v[b] = u[b]
    PROVE  v = [SubSeq(u, 1, m) EXCEPT ![m] = v[m]] /\ SubSeq(u, 1, m)[m] = u[m]
<1> DEFINE s == SubSeq(u, 1, m)
           x == v[m]
           w == [s EXCEPT ![m] = x]
<1>1. u # <<>> /\ Len(u) - 1 = m
  OBVIOUS
<1>2. s \in Seq(UCtxs) /\ Len(s) = m /\ \A j \in 1..m : s[j] = u[j]
  <2>1. /\ SubSeq(u, 1, Len(u) - 1) \in Seq(UCtxs)
        /\ Len(SubSeq(u, 1, Len(u) - 1)) = Len(u) - 1
        /\ \A j \in 1..(Len(u) - 1) : SubSeq(u, 1, Len(u) - 1)[j] = u[j]
    BY <1>1, SeqShortened
  <2>2. QED  BY <1>1, <2>1
<1>3. m \in 1..m /\ \A b \in 1..m : b = m \/ b \in 1..(m - 1)
  BY LastIndex
<1>4. x \in UCtxs
  BY <1>3
<1> HIDE DEF s, x
<1>5. w \in Seq(UCtxs) /\ Len(w) = m /\ \A j \in 1..m : w[j] = IF j = m THEN x ELSE s[j]
  BY <1>2, <1>3, <1>4, SeqUpdated
<1> HIDE DEF w
<1>6. \A j \in 1..Len(v) : v[j] = w[j]
  <2>1. ASSUME NEW j \in 1..m
        PROVE  v[j] = w[j]
    <3>1. CASE j = m
      BY <1>5, <3>1 DEF x
    <3>2. CASE j # m
      BY <1>2, <1>3, <1>5, <3>2
    <3>3. QED  BY <3>1, <3>2
  <2>2. QED  BY <2>1
<1>7. v = w
  BY <1>5, <1>6, SeqEqual
<1>8. s[m] = u[m]
  BY <1>2, <1>3
<1>9. QED  BY <1>7, <1>8 DEF w, s, x

\* A branch is written to the context below.
LEMMA ShownCommit ==
    ASSUME NEW u, NEW v, NEW a, NEW below, NEW a2, NEW t, NEW db, NEW db2,
           NEW m \in Nat, m >= 1, Len(db) = m + 1, Len(db2) = m, Len(below) = m,
           Shown(u, a, db), Shown(v, a2, db2), Extended(below, a2, t),
           a = Append(below, t), t \in Seq(Event),
           \A b \in 1..(m - 1) : db2[b] = db[b], db2[m] = db[m + 1]
    PROVE  v = [SubSeq(u, 1, Len(u) - 1) EXCEPT ![Len(u) - 1] =
                    [events |-> @.events \o u[Len(u)].events, db |-> u[Len(u)].db]]
<1>1. /\ u \in Seq(UCtxs) /\ v \in Seq(UCtxs) /\ Len(u) = m + 1 /\ Len(v) = m
      /\ Len(u) - 1 = m
      /\ \A b \in 1..(m + 1) : u[b] = [events |-> a[b], db |-> db[b]]
      /\ \A b \in 1..m : v[b] = [events |-> a2[b], db |-> db2[b]]
  BY DEF Shown
<1>2. (\A b \in 1..m : a[b] = below[b]) /\ a[m + 1] = t
  <2>1. below \in Seq(Seq(Event)) /\ Len(below) = m
    BY DEF Extended, EventLogs
  <2>2. \A b \in 1..(m + 1) : a[b] = IF b <= m THEN below[b] ELSE t
    BY <2>1, SeqGrown
  <2>3. (\A b \in 1..m : b \in 1..(m + 1) /\ b <= m) /\ m + 1 \in 1..(m + 1) /\ ~(m + 1 <= m)
    OBVIOUS
  <2>4. QED  BY <2>2, <2>3
<1>3. (\A b \in 1..(m - 1) : a2[b] = below[b]) /\ a2[m] = below[m] \o t
  BY DEF Extended
<1>4. /\ m + 1 \in 1..(m + 1) /\ m \in 1..(m + 1) /\ m \in 1..m
      /\ \A b \in 1..(m - 1) : b \in 1..(m + 1) /\ b \in 1..m
  OBVIOUS
<1>5. \A b \in 1..(m - 1) : v[b] = u[b]
  <2>1. ASSUME NEW b \in 1..(m - 1)
        PROVE  v[b] = u[b]
    <3>1. a2[b] = a[b] /\ db2[b] = db[b]
      BY <1>2, <1>3, <1>4
    <3>2. QED  BY <1>1, <1>4, <3>1
  <2>2. QED  BY <2>1
<1>6. v[m] = [events |-> u[m].events \o u[m + 1].events, db |-> u[m + 1].db]
  <2>1. /\ u[m] = [events |-> below[m], db |-> db[m]]
        /\ u[m + 1] = [events |-> t, db |-> db[m + 1]]
    BY <1>1, <1>2, <1>4
  <2>2. v[m] = [events |-> below[m] \o t, db |-> db[m + 1]]
    BY <1>1, <1>3, <1>4
  <2>3. QED  BY <2>1, <2>2
<1> DEFINE s == SubSeq(u, 1, m)
<1>7. v = [s EXCEPT ![m] = v[m]] /\ s[m] = u[m]
  BY <1>1, <1>5, LastChanged
<1> HIDE DEF s
<1>8. v = [s EXCEPT ![m] = [events |-> s[m].events \o u[m + 1].events, db |-> u[m + 1].db]]
  BY <1>6, <1>7
<1>9. QED  BY <1>1, <1>8 DEF s

\* The panic passes a branch.
LEMMA ShownUnwound ==
    ASSUME NEW u, NEW v, NEW a, NEW a2, NEW db, NEW db2,
           NEW m \in Nat, m >= 1, Len(db) = m + 1, Len(db2) = m,
           ShownBelow(u, a, db), ShownBelow(v, a2, db2),
           \A b \in 1..m : a2[b] = a[b] /\ db2[b] = db[b]
    PROVE  v = [SubSeq(u, 1, Len(u) - 1) EXCEPT ![Len(u) - 1].events = <<>>]
<1>1. /\ u \in Seq(UCtxs) /\ v \in Seq(UCtxs) /\ Len(u) = m + 1 /\ Len(v) = m
      /\ Len(u) - 1 = m
      /\ \A b \in 1..(m - 1) : v[b] = [events |-> a2[b], db |-> db2[b]]
      /\ v[m] = [events |-> <<>>, db |-> db2[m]]
  BY DEF ShownBelow
<1>2. \A b \in 1..m : u[b] = [events |-> a[b], db |-> db[b]]
  <2>1. \A b \in 1..(m + 1 - 1) : u[b] = [events |-> a[b], db |-> db[b]]
    BY DEF ShownBelow
  <2>2. m + 1 - 1 = m
    OBVIOUS
  <2>3. QED  BY <2>1, <2>2
<1>3. m \in 1..m /\ \A b \in 1..(m - 1) : b \in 1..m
  BY LastIndex
<1>4. \A b \in 1..(m - 1) : v[b] = u[b]
  BY <1>1, <1>2, <1>3
<1> DEFINE s == SubSeq(u, 1, m)
<1>5. v = [s EXCEPT ![m] = v[m]] /\ s[m] = u[m]
  BY <1>1, <1>4, LastChanged
<1> HIDE DEF s
<1>6. v[m] = [s[m] EXCEPT !.events = <<>>]
  <2>1. u[m] = [events |-> a[m], db |-> db[m]]
    BY <1>2, <1>3
  <2>2. db2[m] = db[m]
    BY <1>3
  <2>3. v[m] = [events |-> <<>>, db |-> db[m]]
    BY <1>1, <2>2
  <2>4. QED  BY <1>5, <2>1, <2>3
<1>7. v = [s EXCEPT ![m].events = <<>>]
  BY <1>5, <1>6
<1>8. QED  BY <1>1, <1>7 DEF s

\* The panic passes a call: of the branch it is in, nothing was to be seen.
LEMMA ShownPassed ==
    ASSUME NEW u, NEW v, NEW a, NEW a2, NEW db,
           ShownBelow(u, a, db), ShownBelow(v, a2, db),
           \A b \in 1..(Len(db) - 1) : a2[b] = a[b]
    PROVE  v = u
<1> DEFINE n == Len(db)
<1>1. /\ u \in Seq(UCtxs) /\ v \in Seq(UCtxs) /\ Len(u) = n /\ Len(v) = n
      /\ n \in Nat /\ n >= 1
      /\ \A b \in 1..(n - 1) : u[b] = [events |-> a[b], db |-> db[b]]
      /\ \A b \in 1..(n - 1) : v[b] = [events |-> a2[b], db |-> db[b]]
      /\ v[n] = u[n]
  BY DEF ShownBelow
<1>2. \A b \in 1..(n - 1) : a2[b] = a[b]
  OBVIOUS
<1> HIDE DEF n
<1>3. \A b \in 1..n : b = n \/ b \in 1..(n - 1)
  BY <1>1, LastIndex
<1>4. \A b \in 1..Len(v) : v[b] = u[b]
  BY <1>1, <1>2, <1>3
<1>5. QED  BY <1>1, <1>4, SeqEqual

-----------------------------------------------------------------------------
(* The refinement: every step is one of Untraced *)

LEMMA UntracedView ==
    /\ UntracedCtxs = View(LogsOf(stack), stores, mode)
    /\ UntracedCtxs' = View(LogsOf(stack'), stores', mode')
  BY DEF UntracedCtxs, View, Unreadable, EventsOf, LogsOf, Depth

LEMMA TypeViews ==
    ASSUME TypeInv
    PROVE  Views(LogsOf(stack), stores)
  BY LogsTop, TopFacts DEF Views

\* Steps of the program that Untraced does not see.
LEMMA EventsStay ==
    ASSUME LogsOf(stack') = LogsOf(stack), UNCHANGED <<stores, mode>>
    PROVE  UNCHANGED UntracedCtxs
  BY UntracedView

LEMMA NowPanicking ==
    ASSUME TypeInv, UNCHANGED <<stack, stores>>, mode = "run", mode' = "panic"
    PROVE  UntracedCtxs' = [UntracedCtxs EXCEPT ![Len(UntracedCtxs)].events = <<>>]
<1> DEFINE u == View(LogsOf(stack), stores, mode)
           v == View(LogsOf(stack), stores, mode')
           n == Len(stores)
<1>1. Views(LogsOf(stack), stores)
  BY TypeViews
<1>2. Shown(u, LogsOf(stack), stores)
  BY <1>1, ViewFacts
<1>3. ShownBelow(v, LogsOf(stack), stores)
  BY <1>1, ViewFacts
<1>4. UntracedCtxs = u /\ UntracedCtxs' = v
  BY UntracedView
<1>5. QED  BY <1>2, <1>3, <1>4, ShownPanics

\* EmitEvent
LEMMA EventAdded ==
    ASSUME TypeInv, NEW e \in Event, EmitEvent(e)
    PROVE  UntracedCtxs' = [UntracedCtxs EXCEPT ![Len(UntracedCtxs)].events = Append(@, e)]
<1> DEFINE c == [Top EXCEPT !.em = Append(@, e)]
           below == LogsUpTo(stack)[Depth - 1]
           n == Len(stores)
           u == View(LogsOf(stack), stores, mode)
           v == View(LogsOf(stack'), stores, mode)
<1>1. /\ mode = "run" /\ UNCHANGED <<stores, mode>> /\ stack' = [stack EXCEPT ![Depth] = c]
  BY DEF EmitEvent, Step, Running, Top
<1>2. /\ stack \in Seq(Contexts) /\ Depth \in 1..Depth /\ Depth \in Nat /\ Depth >= 1
      /\ Top \in Contexts /\ Top.em \in Seq(Event)
  BY TopFacts DEF Contexts
<1>3. c \in Contexts /\ c.kind = Top.kind /\ c.em = Top.em \o <<e>> /\ <<e>> \in Seq(Event)
  <2>1. Append(Top.em, e) \in Seq(Event) /\ Append(Top.em, e) = Top.em \o <<e>>
    BY <1>2, AppendIsConcat
  <2>2. c \in Contexts /\ c.kind = Top.kind /\ c.em = Append(Top.em, e)
    BY <1>2, <2>1 DEF Contexts
  <2>3. QED  BY <2>1, <2>2
<1> HIDE DEF c
<1>4. /\ Len(stack') = Depth
      /\ \A i \in 1..Depth : stack'[i] = IF i = Depth THEN c ELSE stack[i]
  BY <1>1, <1>2, <1>3, SeqUpdated DEF Depth
<1>5. LogsOf(stack') = Logged(below, c)
  <2>1. \A i \in 1..(Depth - 1) : stack'[i].kind = stack[i].kind /\ stack'[i].em = stack[i].em
    BY <1>2, <1>4
  <2>2. stack'[Depth] = c
    BY <1>2, <1>4
  <2>3. Len(stack) \in Nat /\ Depth <= Len(stack)
    BY <1>2 DEF Depth
  <2>4. QED  BY <1>2, <1>4, <2>1, <2>2, <2>3, LogsReplaced
<1>6. /\ below \in EventLogs
      /\ Top.kind = "call" => Len(below) > 0
      /\ LogsOf(stack) = Logged(below, Top) /\ Len(LogsOf(stack)) = n
  BY LogsTop
<1> HIDE DEF below
<1>7. Extended(LogsOf(stack), LogsOf(stack'), <<e>>)
  BY <1>2, <1>3, <1>5, <1>6, MoreLogged
<1>8. Views(LogsOf(stack), stores) /\ Views(LogsOf(stack'), stores)
  BY <1>6, <1>7, TypeViews DEF Views, Extended
<1>9. Shown(u, LogsOf(stack), stores) /\ Shown(v, LogsOf(stack'), stores)
  BY <1>1, <1>8, ViewFacts
<1>10. UntracedCtxs = u /\ UntracedCtxs' = v
  BY <1>1, UntracedView
<1>11. QED  BY <1>6, <1>7, <1>9, <1>10, ShownEvent

\* Steps that keep kinds and events of the contexts.
LEMMA LogsKept ==
    ASSUME TypeInv, Len(stack') = Depth,
           \A i \in 1..Depth : stack'[i].kind = stack[i].kind /\ stack'[i].em = stack[i].em
    PROVE  LogsOf(stack') = LogsOf(stack)
<1>1. Depth \in Nat /\ Len(stack) = Depth
  BY TopFacts DEF Depth
<1>2. LogsUpTo(stack')[Depth] = LogsUpTo(stack)[Depth]
  BY <1>1, LogsSame
<1>3. QED  BY <1>1, <1>2 DEF LogsOf

LEMMA SameLogs ==
    ASSUME NEW a \in EventLogs, NEW a2 \in EventLogs, NEW n \in Nat, n >= 1, Len(a) = n, Len(a2) = n,
           \A b \in 1..(n - 1) : a2[b] = a[b], a2[n] = a[n]
    PROVE  a2 = a
<1>1. \A b \in 1..n : b = n \/ b \in 1..(n - 1)
  BY LastIndex
<1>2. \A b \in 1..Len(a2) : a2[b] = a[b]
  BY <1>1
<1>3. QED  BY <1>2, SeqEqual DEF EventLogs

\* A call begins.
LEMMA LogsOfCall ==
    ASSUME TypeInv, NEW log \in LogSetting, stack' = Append(stack, WorkCtx(log))
    PROVE  LogsOf(stack') = LogsOf(stack)
<1> DEFINE a == LogsOf(stack)
           c == WorkCtx(log)
           n == Len(a)
<1>1. c \in Contexts /\ c.kind = "call" /\ c.em = <<>>
  BY WorkCtxTypes
<1>2. a \in EventLogs /\ n \in Nat /\ n >= 1
  BY LogsTop, TopFacts
<1>3. LogsOf(stack') = Logged(a, c)
  BY <1>1, LogsPushed
<1> HIDE DEF a, c
<1> DEFINE a2 == Logged(a, c)
<1>4. /\ a2 \in EventLogs /\ Len(a2) = n /\ \A b \in 1..(n - 1) : a2[b] = a[b]
      /\ a2[n] = a[n] \o c.em
  <2>1. Len(a) > 0
    BY <1>2
  <2>2. QED  BY <1>1, <1>2, <2>1, LoggedCall
<1>5. a[n] \o c.em = a[n]
  <2>1. a[n] \in Seq(Event)
    BY <1>2 DEF EventLogs
  <2>2. QED  BY <1>1, <2>1
<1> HIDE DEF a2, n
<1>6. n \in Nat /\ n >= 1 /\ Len(a) = n
  BY <1>2 DEF n
<1>7. a2 = a
  BY <1>2, <1>4, <1>5, <1>6, SameLogs
<1>8. QED  BY <1>3, <1>7 DEF a, a2, c

\* The last context is dropped and its caller given its events.
LEMMA LogsHandedOn ==
    ASSUME TypeInv, Top.kind # "root", NEW c \in Contexts,
           c.kind = Caller.kind, c.em = Caller.em \o Top.em,
           stack' = [i \in 1..(Depth - 1) |-> IF i = Depth - 1 THEN c ELSE stack[i]]
    PROVE  Extended(LogsUpTo(stack)[Depth - 1], LogsOf(stack'), Top.em)
<1> DEFINE n == Depth - 1
           below == LogsUpTo(stack)[n - 1]
<1>1. /\ Depth \in Nat /\ n \in Nat /\ n >= 1 /\ n \in 1..Depth /\ Len(stack) = Depth
      /\ Top \in Contexts /\ Caller \in Contexts /\ Top.em \in Seq(Event)
  <2>1. /\ Depth \in Nat /\ Depth >= 2 /\ Len(stack) = Depth
        /\ Top \in Contexts /\ Caller \in Contexts
    BY TopFacts DEF Depth
  <2>2. Top.em \in Seq(Event)
    BY <2>1 DEF Contexts
  <2>3. QED  BY <2>1, <2>2
<1>2. /\ Len(stack') = n
      /\ \A i \in 1..n : stack'[i] = IF i = n THEN c ELSE stack[i]
  BY <1>1
<1>3. /\ below \in EventLogs
      /\ Caller.kind = "call" => Len(below) > 0
      /\ LogsUpTo(stack)[n] = Logged(below, Caller)
  <2>1. /\ LogsUpTo(stack)[n - 1] \in EventLogs
        /\ stack[n].kind = "call" => Len(LogsUpTo(stack)[n - 1]) > 0
        /\ LogsUpTo(stack)[n] = Logged(LogsUpTo(stack)[n - 1], stack[n])
    BY <1>1, LogsBelow
  <2>2. QED  BY <2>1 DEF Caller
<1> HIDE DEF n
<1>4. LogsOf(stack') = Logged(below, c)
  <2>1. stack'[n] = c
    BY <1>1, <1>2
  <2>2. \A i \in 1..(n - 1) : stack'[i].kind = stack[i].kind /\ stack'[i].em = stack[i].em
    BY <1>1, <1>2
  <2>3. Len(stack) \in Nat /\ n <= Len(stack)
    BY <1>1
  <2>4. Len(stack') = n /\ Len(stack) \in Nat /\ n \in Nat /\ n >= 1
    BY <1>1, <1>2
  <2>5. LogsOf(stack') = Logged(LogsUpTo(stack)[n - 1], stack'[n])
    BY <2>2, <2>3, <2>4, LogsReplaced
  <2>6. QED  BY <2>1, <2>5
<1> HIDE DEF below
<1>5. Extended(Logged(below, Caller), Logged(below, c), Top.em)
  BY <1>1, <1>3, MoreLogged
<1>6. QED  BY <1>3, <1>4, <1>5 DEF n

HandedTo == [Caller EXCEPT !.em = @ \o Top.em]

LEMMA HandedToTypes ==
    ASSUME TypeInv, Top.kind # "root"
    PROVE  /\ HandedTo \in Contexts /\ HandedTo.kind = Caller.kind
           /\ HandedTo.em = Caller.em \o Top.em
<1>1. Caller \in Contexts /\ Top \in Contexts
  BY TopFacts
<1>2. Caller.em \o Top.em \in Seq(Event)
  BY <1>1 DEF Contexts
<1>3. QED  BY <1>1, <1>2 DEF Contexts, HandedTo

\* A call returns, whatever the outcome.
LEMMA LogsOfReturn ==
    ASSUME TypeInv, NEW failed \in BOOLEAN, Return(failed)
    PROVE  LogsOf(stack') = LogsOf(stack)
<1> DEFINE below == LogsUpTo(stack)[Depth - 1]
           a == LogsOf(stack)
           a2 == LogsOf(stack')
           n == Len(below)
<1>1. /\ Top.kind = "call"
      /\ stack' = [i \in 1..(Depth - 1) |-> IF i = Depth - 1 THEN HandedTo ELSE stack[i]]
  BY DEF Return, HandedOn, HandedTo
<1>2. Extended(below, a2, Top.em)
  BY <1>1, HandedToTypes, LogsHandedOn
<1>3. a = Logged(below, Top) /\ below \in EventLogs /\ Len(below) > 0 /\ Top \in Contexts
  BY <1>1, LogsTop, TopFacts
<1> HIDE DEF below, a, a2
<1>4. /\ n \in Nat /\ n >= 1 /\ Len(a2) = n /\ a2 \in EventLogs
      /\ \A b \in 1..(n - 1) : a2[b] = below[b]
      /\ a2[n] = below[n] \o Top.em
  BY <1>2 DEF Extended
<1>5. /\ a \in EventLogs /\ Len(a) = n
      /\ \A b \in 1..(n - 1) : a[b] = below[b]
      /\ a[n] = below[n] \o Top.em
  BY <1>1, <1>3, LoggedCall
<1> HIDE DEF n
<1>6. a2 = a
  <2>1. \A b \in 1..(n - 1) : a2[b] = a[b]
    BY <1>4, <1>5
  <2>2. a2[n] = a[n]
    BY <1>4, <1>5
  <2>3. QED  BY <1>4, <1>5, <2>1, <2>2, SameLogs
<1>7. QED  BY <1>6 DEF a, a2

-----------------------------------------------------------------------------
(* The refinement: the steps of the program *)

\* Whether a context shows depends on the mode alone.
LEMMA SeenAs ==
    ASSUME NEW logs, NEW db, Views(logs, db)
    PROVE  /\ Shown(View(logs, db, "run"), logs, db)
           /\ ShownBelow(View(logs, db, "panic"), logs, db)
           /\ View(logs, db, "done") = View(logs, db, "run")
           /\ View(logs, db, "aborted") = View(logs, db, "panic")
  BY ViewFacts DEF View

\* OpenBranch
LEMMA BranchImplements == ASSUME TypeInv, OpenBranch PROVE Undecorated!Branch
<1> DEFINE a == LogsOf(stack)
           a2 == LogsOf(stack')
           n == Len(stores)
           u == View(a, stores, "run")
           v == View(a2, stores', "run")
<1>1. /\ mode = "run" /\ UNCHANGED <<gas, mode>> /\ stack' = Append(stack, BranchCtx)
      /\ stores' = Append(stores, stores[n])
  BY TopFacts DEF OpenBranch, Step, Running
<1>2. /\ a \in EventLogs /\ Len(a) = n /\ n \in Nat /\ n >= 1
      /\ stores \in Seq([Key -> Value]) /\ stores[n] \in [Key -> Value]
  BY LogsTop, TopFacts
<1>3. a2 = Append(a, <<>>) /\ a2 \in EventLogs /\ Len(a2) = n + 1
  <2>1. BranchCtx \in Contexts /\ BranchCtx.kind # "call" /\ BranchCtx.em = <<>>
    BY BranchCtxTypes
  <2>2. a2 = Logged(a, BranchCtx)
    BY <1>1, <2>1, LogsPushed
  <2>3. QED  BY <1>2, <2>1, <2>2, LoggedBranch
<1>4. stores' \in Seq([Key -> Value]) /\ Len(stores') = n + 1
  BY <1>1, <1>2, SeqGrown
<1>5. UntracedCtxs = u /\ UntracedCtxs' = v
  BY <1>1, UntracedView
<1>6. Views(a, stores) /\ Views(a2, stores')
  BY <1>2, <1>3, <1>4 DEF Views
<1> HIDE DEF a, a2
<1>7. Shown(u, a, stores) /\ Shown(v, a2, stores')
  BY <1>6, SeenAs
<1> HIDE DEF u, v
<1>8. v = Append(u, [events |-> <<>>, db |-> u[Len(u)].db])
  BY <1>1, <1>2, <1>3, <1>7, ShownBranch
<1>9. QED  BY <1>1, <1>5, <1>8 DEF Undecorated!Branch, Undecorated!n

\* A branch is dropped.
LEMMA BranchPopped ==
    ASSUME TypeInv, Top.kind = "branch", stack' = SubSeq(stack, 1, Depth - 1),
           NEW m, m = Len(stores) - 1
    PROVE  /\ m \in Nat /\ m >= 1 /\ Len(stores) = m + 1
           /\ LogsOf(stack) \in EventLogs /\ LogsOf(stack') \in EventLogs /\ Len(LogsOf(stack')) = m
           /\ LogsOf(stack) = Append(LogsOf(stack'), Top.em)
           /\ \A b \in 1..m : LogsOf(stack')[b] = LogsOf(stack)[b]
<1> DEFINE below == LogsUpTo(stack)[Depth - 1]
           a == LogsOf(stack)
<1>1. m \in Nat /\ m >= 1 /\ Len(stores) = m + 1 /\ Caller.ms.base = m /\ Top \in Contexts
  BY TopFacts
<1>2. LogsOf(stack') = below
  BY LogsPopped
<1>3. a \in EventLogs /\ below \in EventLogs /\ Len(below) = m /\ a = Logged(below, Top)
  BY <1>1, LogsTop
<1> HIDE DEF a, below
<1>4. a = Append(below, Top.em) /\ \A b \in 1..Len(below) : a[b] = below[b]
  BY <1>1, <1>3, LoggedBranch
<1>5. QED  BY <1>1, <1>2, <1>3, <1>4 DEF a

LEMMA StoresDropped ==
    ASSUME TypeInv, Top.kind = "branch", PopBranch, NEW m, m = Len(stores) - 1
    PROVE  /\ stores' \in Seq([Key -> Value]) /\ Len(stores') = m
           /\ \A b \in 1..m : stores'[b] = stores[b]
<1>1. stores \in Seq([Key -> Value]) /\ stores # <<>>
  BY TopFacts
<1>2. stores' = SubSeq(stores, 1, Len(stores) - 1)
  BY DEF PopBranch
<1>3. QED  BY <1>1, <1>2, SeqShortened

\* Discard and UnwindBranch: the branch is gone, with the panic or without.
LEMMA DropImplements ==
    ASSUME TypeInv, Top.kind = "branch", PopBranch, mode \in {"run", "panic"}, mode' = "run"
    PROVE  /\ UntracedCtxs' = SubSeq(UntracedCtxs, 1, Len(UntracedCtxs) - 1)
           /\ Len(UntracedCtxs) > 1
<1> DEFINE a == LogsOf(stack)
           a2 == LogsOf(stack')
           m == Len(stores) - 1
           u == View(a, stores, mode)
           v == View(a2, stores', "run")
<1>1. /\ m \in Nat /\ m >= 1 /\ Len(stores) = m + 1 /\ a2 \in EventLogs /\ Len(a2) = m
      /\ \A b \in 1..m : a2[b] = a[b]
  BY BranchPopped DEF PopBranch
<1>2. /\ stores' \in Seq([Key -> Value]) /\ Len(stores') = m
      /\ \A b \in 1..m : stores'[b] = stores[b]
  BY StoresDropped
<1>3. UntracedCtxs = u /\ UntracedCtxs' = v
  BY UntracedView
<1>4. Views(a, stores) /\ Views(a2, stores')
  BY <1>1, <1>2, TypeViews DEF Views
<1> HIDE DEF a, a2
<1>5. (Shown(u, a, stores) \/ ShownBelow(u, a, stores)) /\ Shown(v, a2, stores')
  BY <1>4, SeenAs
<1> HIDE DEF u, v
<1>6. v = SubSeq(u, 1, Len(u) - 1)
  <2>1. Len(stores) >= 2 /\ Len(stores') = Len(stores) - 1
    BY <1>1, <1>2
  <2>2. \A b \in 1..(Len(stores) - 1) : a2[b] = a[b] /\ stores'[b] = stores[b]
    BY <1>1, <1>2
  <2>3. QED  BY <1>5, <2>1, <2>2, ShownDropped
<1>7. Len(u) = m + 1
  BY <1>1, <1>5 DEF Shown, ShownBelow
<1> HIDE DEF m
<1>8. Len(u) > 1
  BY <1>1, <1>7
<1>9. QED  BY <1>3, <1>6, <1>8

\* UnwindBranch: the panic goes on.
LEMMA UnwindImplements ==
    ASSUME TypeInv, Top.kind = "branch", PopBranch, mode = "panic", mode' = "panic"
    PROVE  /\ UntracedCtxs' = [SubSeq(UntracedCtxs, 1, Len(UntracedCtxs) - 1)
                                  EXCEPT ![Len(UntracedCtxs) - 1].events = <<>>]
           /\ Len(UntracedCtxs) > 1
<1> DEFINE a == LogsOf(stack)
           a2 == LogsOf(stack')
           m == Len(stores) - 1
           u == View(a, stores, "panic")
           v == View(a2, stores', "panic")
<1>1. /\ m \in Nat /\ m >= 1 /\ Len(stores) = m + 1 /\ a2 \in EventLogs /\ Len(a2) = m
      /\ \A b \in 1..m : a2[b] = a[b]
  BY BranchPopped DEF PopBranch
<1>2. /\ stores' \in Seq([Key -> Value]) /\ Len(stores') = m
      /\ \A b \in 1..m : stores'[b] = stores[b]
  BY StoresDropped
<1>3. UntracedCtxs = u /\ UntracedCtxs' = v
  BY UntracedView
<1>4. Views(a, stores) /\ Views(a2, stores')
  BY <1>1, <1>2, TypeViews DEF Views
<1> HIDE DEF a, a2
<1>5. ShownBelow(u, a, stores) /\ ShownBelow(v, a2, stores')
  BY <1>4, SeenAs
<1> HIDE DEF u, v
<1>6. Len(u) = m + 1
  BY <1>1, <1>5 DEF ShownBelow
<1> HIDE DEF m
<1>7. v = [SubSeq(u, 1, Len(u) - 1) EXCEPT ![Len(u) - 1].events = <<>>]
  BY <1>1, <1>2, <1>5, ShownUnwound
<1>8. Len(u) > 1
  BY <1>1, <1>6
<1>9. QED  BY <1>3, <1>7, <1>8

\* UnwindCall
LEMMA PassImplements ==
    ASSUME TypeInv, UnwindCall
    PROVE  UNCHANGED <<UntracedCtxs, gas, mode>>
<1> DEFINE below == LogsUpTo(stack)[Depth - 1]
           a == LogsOf(stack)
           n == Len(stores)
           u == View(a, stores, "panic")
           v == View(below, stores, "panic")
<1>1. /\ mode = "panic" /\ Top.kind = "call" /\ Top.kind # "root"
      /\ UNCHANGED <<stores, gas, mode>> /\ stack' = SubSeq(stack, 1, Depth - 1)
  BY DEF UnwindCall
<1>2. LogsOf(stack') = below
  BY <1>1, LogsPopped
<1>3. /\ a = Logged(below, Top) /\ below \in EventLogs /\ Len(below) > 0 /\ Top \in Contexts
      /\ Len(below) = n
  BY <1>1, LogsTop, TopFacts
<1>4. UntracedCtxs = u /\ UntracedCtxs' = v
  BY <1>1, <1>2, UntracedView
<1>5. Views(a, stores)
  BY TypeViews
<1>6. Views(below, stores)
  BY <1>3, <1>5 DEF Views
<1> HIDE DEF a, below
<1>7. \A b \in 1..(Len(below) - 1) : a[b] = below[b]
  BY <1>1, <1>3, LoggedCall
<1>8. ShownBelow(u, a, stores) /\ ShownBelow(v, below, stores)
  BY <1>5, <1>6, SeenAs
<1> HIDE DEF u, v
<1>9. v = u
  BY <1>3, <1>7, <1>8, ShownPassed
<1>10. QED  BY <1>1, <1>4, <1>9

\* Commit: the branch is written to what its caller runs in.
LEMMA CommitImplements == ASSUME TypeInv, Commit PROVE Undecorated!Commit
<1> DEFINE below == LogsUpTo(stack)[Depth - 1]
           a == LogsOf(stack)
           a2 == LogsOf(stack')
           t == Top.em
           m == Len(stores) - 1
           u == View(a, stores, "run")
           v == View(a2, stores', "run")
<1>1. /\ mode = "run" /\ UNCHANGED <<gas, mode>> /\ Top.kind = "branch" /\ Top.kind # "root"
      /\ stack' = [i \in 1..(Depth - 1) |-> IF i = Depth - 1 THEN HandedTo ELSE stack[i]]
      /\ stores' = [b \in 1..m |-> IF b = m THEN stores[Len(stores)] ELSE stores[b]]
  BY DEF Commit, Running, HandedTo
<1>2. /\ m \in Nat /\ m >= 1 /\ Len(stores) = m + 1 /\ stores \in Seq([Key -> Value])
      /\ Caller.ms.base = m /\ Top \in Contexts /\ t \in Seq(Event)
  <2>1. /\ stores \in Seq([Key -> Value]) /\ Len(stores) \in Nat /\ Len(stores) >= 2
        /\ Caller.ms.base = Len(stores) - 1 /\ Top \in Contexts
    BY <1>1, TopFacts
  <2>2. t \in Seq(Event)
    BY <2>1 DEF Contexts
  <2>3. QED  BY <2>1, <2>2
<1>3. Extended(below, a2, t)
  BY <1>1, HandedToTypes, LogsHandedOn
<1>4. a = Logged(below, Top) /\ below \in EventLogs /\ Len(below) = m
  BY <1>1, <1>2, LogsTop
<1>5. UntracedCtxs = u /\ UntracedCtxs' = v
  BY <1>1, UntracedView
<1>6. Views(a, stores)
  BY TypeViews
<1> HIDE DEF a, a2, below
<1>7. a = Append(below, t)
  BY <1>1, <1>2, <1>4, LoggedBranch
<1> HIDE DEF m
<1>8. /\ stores' \in Seq([Key -> Value]) /\ Len(stores') = m
      /\ \A b \in 1..m : stores'[b] = IF b = m THEN stores[m + 1] ELSE stores[b]
  <2>1. \A b \in 1..m : b \in 1..(m + 1)
    BY <1>2
  <2>2. stores' \in [1..m -> [Key -> Value]]
    BY <1>1, <1>2, <2>1
  <2>3. QED  BY <1>1, <1>2, <2>2, SeqMade
<1>9. (\A b \in 1..(m - 1) : stores'[b] = stores[b]) /\ stores'[m] = stores[m + 1]
  <2>1. m \in 1..m /\ \A b \in 1..(m - 1) : b \in 1..m /\ b # m
    BY <1>2, LastIndex
  <2>2. QED  BY <1>8, <2>1
<1>10. Views(a2, stores')
  BY <1>2, <1>3, <1>4, <1>8 DEF Views, Extended
<1> HIDE DEF t
<1>11. Shown(u, a, stores) /\ Shown(v, a2, stores')
  BY <1>6, <1>10, SeenAs
<1> HIDE DEF u, v
<1>12. v = [SubSeq(u, 1, Len(u) - 1) EXCEPT ![Len(u) - 1] =
               [events |-> @.events \o u[Len(u)].events, db |-> u[Len(u)].db]]
  BY <1>2, <1>3, <1>4, <1>7, <1>8, <1>9, <1>11, ShownCommit
<1>13. Len(u) > 1
  BY <1>2, <1>11 DEF Shown
<1>14. QED  BY <1>1, <1>5, <1>12, <1>13 DEF Undecorated!Commit, Undecorated!n

\* What KVStore and Store write.
LEMMA WriteImplements ==
    ASSUME TypeInv, UNCHANGED <<stack, mode>>, mode = "run",
           NEW k \in Key, NEW y \in Value, stores' = Applied("write", k, y)
    PROVE  Undecorated!Write(k, y)
<1> DEFINE a == LogsOf(stack)
           u == View(a, stores, "run")
           v == View(a, stores', "run")
<1>1. stores' = Written(stores, k, y) /\ stores \in Seq([Key -> Value])
  BY TopFacts DEF Applied, Written
<1>2. stores' \in Seq([Key -> Value]) /\ Len(stores') = Len(stores)
  BY AppliedTypes
<1>3. UntracedCtxs = u /\ UntracedCtxs' = v
  BY UntracedView
<1>4. Views(a, stores)
  BY TypeViews
<1>5. Views(a, stores')
  BY <1>2, <1>4 DEF Views
<1> HIDE DEF a
<1>6. Shown(u, a, stores) /\ Shown(v, a, stores')
  BY <1>4, <1>5, SeenAs
<1> HIDE DEF u, v
<1>7. v = [u EXCEPT ![Len(u)].db[k] = y]
  BY <1>1, <1>6, ShownWrite
<1>8. QED  BY <1>3, <1>7 DEF Undecorated!Write, Undecorated!n

LEMMA PanicImplements ==
    ASSUME TypeInv, UNCHANGED <<stack, stores>>, mode = "run", mode' = "panic"
    PROVE  Undecorated!Panicking
  BY NowPanicking DEF Undecorated!Panicking, Undecorated!n

LEMMA ViewKept ==
    ASSUME UNCHANGED <<stack, stores, mode>>
    PROVE  UNCHANGED UntracedCtxs
  BY UntracedView

\* The gas meter.
LEMMA GasImplements ==
    ASSUME TypeInv, NEW amount \in Nat
    PROVE  /\ ConsumeGas(amount) => Undecorated!Consume(amount)
           /\ RefundGas(amount) => Undecorated!Refund(amount)
<1>1. gas \in Nat
  BY DEF TypeInv, TypeOK
<1>2. ASSUME ConsumeGas(amount)
      PROVE  Undecorated!Consume(amount)
  <2>1. /\ mode = "run" /\ gas' = gas + amount /\ UNCHANGED <<stack, stores>>
        /\ mode' = IF gas' > GasLimit THEN "panic" ELSE "run"
    BY <1>2 DEF ConsumeGas, Step, Running, Consumed, OutOfGas
  <2>2. CASE gas' > GasLimit
    BY <2>1, <2>2, PanicImplements DEF Undecorated!Consume
  <2>3. CASE ~(gas' > GasLimit)
    BY <2>1, <2>3, ViewKept DEF Undecorated!Consume
  <2>4. QED  BY <2>2, <2>3
<1>3. ASSUME RefundGas(amount)
      PROVE  Undecorated!Refund(amount)
  <2>1. /\ mode = "run" /\ UNCHANGED <<stack, stores>>
        /\ gas' = IF amount > gas THEN gas ELSE gas - amount
        /\ mode' = IF amount > gas THEN "panic" ELSE "run"
    <3>1. (gas < amount) = (amount > gas)
      BY <1>1
    <3>2. QED  BY <1>3, <3>1 DEF RefundGas, Step, Running, Refunded, RefundRefused
  <2>2. CASE amount > gas
    BY <2>1, <2>2, PanicImplements DEF Undecorated!Refund
  <2>3. CASE ~(amount > gas)
    BY <2>1, <2>3, ViewKept DEF Undecorated!Refund
  <2>4. QED  BY <2>2, <2>3
<1>4. QED  BY <1>2, <1>3

\* Store operations: a read does nothing that is to be seen but what it costs.
LEMMA StoreImplements ==
    ASSUME TypeInv, NEW op \in {"read", "write"}, NEW k \in Key, NEW y \in Value
    PROVE  /\ KVStore(op, k, y) => Undecorated!Consume(AccessGas) \/ Undecorated!MeteredSet(k, y)
           /\ Store(op, k, y) => UNCHANGED <<UntracedCtxs, gas, mode>> \/ Undecorated!Set(k, y)
<1>1. ASSUME KVStore(op, k, y)
      PROVE  Undecorated!Consume(AccessGas) \/ Undecorated!MeteredSet(k, y)
  <2>1. /\ mode = "run" /\ gas' = gas + AccessGas /\ UNCHANGED stack
        /\ IF gas' > GasLimit THEN mode' = "panic" /\ UNCHANGED stores
                              ELSE UNCHANGED mode /\ stores' = Applied(op, k, y)
    BY <1>1 DEF KVStore, Step, Running, Consumed, OutOfGas
  <2>2. CASE gas' > GasLimit
    BY <2>1, <2>2, PanicImplements DEF Undecorated!Consume
  <2>3. CASE ~(gas' > GasLimit) /\ op = "write"
    <3>1. Undecorated!Write(k, y)
      BY <2>1, <2>3, WriteImplements
    <3>2. QED  BY <2>1, <2>3, <3>1 DEF Undecorated!MeteredSet
  <2>4. CASE ~(gas' > GasLimit) /\ op # "write"
    <3>1. UNCHANGED stores
      BY <2>1, <2>4 DEF Applied
    <3>2. QED  BY <2>1, <2>4, <3>1, ViewKept DEF Undecorated!Consume
  <2>5. QED  BY <2>2, <2>3, <2>4
<1>2. ASSUME Store(op, k, y)
      PROVE  UNCHANGED <<UntracedCtxs, gas, mode>> \/ Undecorated!Set(k, y)
  <2>1. /\ mode = "run" /\ UNCHANGED <<stack, gas, mode>> /\ stores' = Applied(op, k, y)
    BY <1>2 DEF Store, Step, Running
  <2>2. CASE op = "write"
    <3>1. Undecorated!Write(k, y)
      BY <2>1, <2>2, WriteImplements
    <3>2. QED  BY <2>1, <3>1 DEF Undecorated!Set
  <2>3. CASE op # "write"
    <3>1. UNCHANGED stores
      BY <2>1, <2>3 DEF Applied
    <3>2. QED  BY <2>1, <3>1, ViewKept
  <2>4. QED  BY <2>2, <2>3
<1>3. QED  BY <1>1, <1>2

\* End, as Abort or as Done.
LEMMA EndImplements == ASSUME TypeInv, Abort \/ Done PROVE Undecorated!End
<1> DEFINE a == LogsOf(stack)
<1>1. /\ UNCHANGED <<stack, stores, gas>> /\ Top.kind = "root"
      /\ \/ mode = "run" /\ mode' = "done"
         \/ mode = "panic" /\ mode' = "aborted"
  BY DEF Abort, Done, Running
<1>2. Len(stores) = 1 /\ stores \in Seq([Key -> Value])
  BY <1>1, LogsTop, TopFacts
<1>3. UntracedCtxs = View(a, stores, mode) /\ UntracedCtxs' = View(a, stores, mode')
  BY <1>1, UntracedView
<1>4. View(a, stores, mode') = View(a, stores, mode)
  BY <1>1, TypeViews, SeenAs
<1>5. Len(UntracedCtxs) = 1
  <2> DEFINE u == View(a, stores, mode)
  <2>1. Shown(u, a, stores) \/ ShownBelow(u, a, stores)
    BY <1>1, TypeViews, SeenAs
  <2> HIDE DEF u
  <2>2. Len(u) = Len(stores)
    BY <2>1, ShownSame
  <2>3. QED  BY <1>2, <1>3, <2>2 DEF u
<1>6. QED  BY <1>1, <1>3, <1>4, <1>5 DEF Undecorated!End, Undecorated!n

\* What a traced call does to contexts is not to be seen.
LEMMA CallsImplement ==
    ASSUME TypeInv,
           \/ \E log \in LogSetting : Call(log)
           \/ \E failed \in BOOLEAN : Return(failed) \/ ReturnIgnoring(failed)
           \/ CallIgnoring
    PROVE  UNCHANGED <<UntracedCtxs, gas, mode>>
<1>1. UNCHANGED <<stores, gas, mode>>
  BY DEF Call, StartSpan, CallIgnoring, Return, ReturnIgnoring
<1>2. LogsOf(stack') = LogsOf(stack)
  <2>1. ASSUME NEW log \in LogSetting, Call(log)
        PROVE  LogsOf(stack') = LogsOf(stack)
    BY <2>1, LogsOfCall DEF Call
  <2>2. ASSUME NEW failed \in BOOLEAN, Return(failed)
        PROVE  LogsOf(stack') = LogsOf(stack)
    BY <2>2, LogsOfReturn
  <2>3. ASSUME CallIgnoring \/ \E failed \in BOOLEAN : ReturnIgnoring(failed)
        PROVE  LogsOf(stack') = LogsOf(stack)
    <3>1. \E calls : stack' = [stack EXCEPT ![Depth].ignoring = calls]
      BY <2>3 DEF CallIgnoring, ReturnIgnoring
    <3>2. stack \in Seq(Contexts)
      BY TopFacts
    <3>3. Len(stack') = Depth /\ \A i \in 1..Depth : /\ stack'[i].kind = stack[i].kind
                                                     /\ stack'[i].em = stack[i].em
      BY <3>1, <3>2 DEF Depth, Contexts
    <3>4. QED  BY <3>3, LogsKept
  <2>4. QED  BY <2>1, <2>2, <2>3
<1>3. QED  BY <1>1, <1>2, EventsStay

\* EmitEvent, Panic and what has to do with branches.
LEMMA BranchesImplement ==
    ASSUME TypeInv,
           \/ OpenBranch \/ Commit \/ Discard \/ Panic
           \/ \E e \in Event : EmitEvent(e)
           \/ \E recovered \in BOOLEAN : UnwindBranch(recovered)
    PROVE  Undecorated!Next
<1>1. CASE OpenBranch
  BY <1>1, BranchImplements DEF Undecorated!Next
<1>2. CASE Commit
  BY <1>2, CommitImplements DEF Undecorated!Next
<1>3. CASE Discard
  <2>1. /\ Top.kind = "branch" /\ PopBranch /\ mode = "run" /\ mode' = "run" /\ UNCHANGED gas
    BY <1>3 DEF Discard, Running
  <2>2. Undecorated!Discard
    BY <2>1, DropImplements DEF Undecorated!Discard, Undecorated!n
  <2>3. QED  BY <2>2 DEF Undecorated!Next
<1>4. CASE Panic
  <2>1. mode = "run" /\ mode' = "panic" /\ UNCHANGED <<stack, stores, gas>>
    BY <1>4 DEF Panic, Step, Running
  <2>2. Undecorated!Panic
    BY <2>1, PanicImplements DEF Undecorated!Panic
  <2>3. QED  BY <2>2 DEF Undecorated!Next
<1>5. ASSUME NEW e \in Event, EmitEvent(e)
      PROVE  Undecorated!Next
  <2>1. mode = "run" /\ UNCHANGED <<gas, mode>>
    BY <1>5 DEF EmitEvent, Step, Running
  <2>2. Undecorated!Emit(e)
    BY <1>5, <2>1, EventAdded DEF Undecorated!Emit, Undecorated!n
  <2>3. QED  BY <2>2 DEF Undecorated!Next
<1>6. ASSUME NEW recovered \in BOOLEAN, UnwindBranch(recovered)
      PROVE  Undecorated!Next
  <2>1. /\ Top.kind = "branch" /\ PopBranch /\ mode = "panic" /\ UNCHANGED gas
        /\ mode' = "run" \/ mode' = "panic"
    BY <1>6 DEF UnwindBranch
  <2>2. CASE mode' = "run"
    BY <2>1, <2>2, DropImplements DEF Undecorated!Next, Undecorated!Unwind, Undecorated!n
  <2>3. CASE mode' = "panic"
    BY <2>1, <2>3, UnwindImplements DEF Undecorated!Next, Undecorated!Unwind, Undecorated!n
  <2>4. QED  BY <2>1, <2>2, <2>3
<1>7. QED  BY <1>1, <1>2, <1>3, <1>4, <1>5, <1>6

LEMMA NextImplements ==
    TypeInv /\ [Next]_vars => [Undecorated!Next]_(Undecorated!vars)
<1> SUFFICES ASSUME TypeInv, [Next]_vars
             PROVE  Undecorated!Next \/ UNCHANGED <<UntracedCtxs, gas, mode>>
  BY DEF Undecorated!vars
<1>1. ASSUME NEW amount \in {1, 2}, ConsumeGas(amount) \/ RefundGas(amount)
      PROVE  Undecorated!Next
  <2>1. amount \in Nat
    OBVIOUS
  <2>2. Undecorated!Consume(amount) \/ Undecorated!Refund(amount)
    BY <1>1, <2>1, GasImplements
  <2>3. QED  BY <2>2 DEF Undecorated!Next
<1>2. ASSUME NEW op \in {"read", "write"}, NEW k \in Key, NEW y \in Value,
             KVStore(op, k, y) \/ Store(op, k, y)
      PROVE  Undecorated!Next \/ UNCHANGED <<UntracedCtxs, gas, mode>>
  <2>1. \/ UNCHANGED <<UntracedCtxs, gas, mode>>
        \/ Undecorated!Consume(AccessGas)
        \/ Undecorated!MeteredSet(k, y) \/ Undecorated!Set(k, y)
    BY <1>2, StoreImplements
  <2>2. QED  BY <2>1 DEF Undecorated!Next
<1>3. ASSUME Abort \/ Done
      PROVE  Undecorated!Next
  BY <1>3, EndImplements DEF Undecorated!Next
<1>4. ASSUME Tick \/ Terminated \/ UNCHANGED vars
      PROVE  UNCHANGED <<UntracedCtxs, gas, mode>>
  <2>1. UNCHANGED <<stack, stores, gas, mode>>
    BY <1>4 DEF Tick, Terminated, vars
  <2>2. QED  BY <2>1, ViewKept
<1>5. QED
  BY <1>1, <1>2, <1>3, <1>4, PassImplements, CallsImplement, BranchesImplement
     DEF Next, Program, Unwinding

LEMMA InitImplements == Init => Undecorated!Init
<1> SUFFICES ASSUME Init PROVE Undecorated!Init
  OBVIOUS
<1> DEFINE c == stack[1]
           none == <<>>
<1>1. Len(stack) = 1 /\ c.kind = "root" /\ c.em = <<>> /\ gas = 0 /\ mode = "run"
  BY DEF Init
<1>2. PICK y \in Value : stores = <<[k \in Key |-> y]>>
  BY DEF Init
<1>3. LogsOf(stack) = <<<<>>>>
  <2>1. 1 \in 1..Len(stack) /\ 1 - 1 = 0
    BY <1>1
  <2>2. LogsUpTo(stack)[1] = Logged(<<>>, c)
    BY <1>1, <2>1, LogsStep
  <2>3. Logged(<<>>, c) = <<c.em>>
    BY <1>1 DEF Logged
  <2>4. QED  BY <1>1, <2>2, <2>3 DEF LogsOf
<1>4. UntracedCtxs = View(LogsOf(stack), stores, "run")
  BY <1>1, UntracedView
<1>5. View(<<<<>>>>, <<[k \in Key |-> y]>>, "run")
          = <<[events |-> <<>>, db |-> [k \in Key |-> y]]>>
  <2> DEFINE db == <<[k \in Key |-> y]>>
  <2>1. DOMAIN db = {1} /\ db[1] = [k \in Key |-> y]
    OBVIOUS
  <2>2. DOMAIN <<[events |-> <<>>, db |-> [k \in Key |-> y]]>> = {1}
    OBVIOUS
  <2> HIDE DEF db
  <2>3. View(<<<<>>>>, db, "run") = [b \in {1} |-> [events |-> <<<<>>>>[b], db |-> db[b]]]
    BY <2>1 DEF View
  <2>4. View(<<<<>>>>, db, "run") = [b \in {1} |-> [events |-> <<>>, db |-> [k \in Key |-> y]]]
    BY <2>1, <2>3
  <2>5. [b \in {1} |-> [events |-> <<>>, db |-> [k \in Key |-> y]]]
            = <<[events |-> <<>>, db |-> [k \in Key |-> y]]>>
    OBVIOUS
  <2>6. QED  BY <2>4, <2>5 DEF db
<1>6. QED  BY <1>1, <1>2, <1>3, <1>4, <1>5 DEF Undecorated!Init

\* Tracing is transparent, whatever the program does and however deep its calls
\* and branches go: every behaviour, with the traced calls left out, is one of
\* the undecorated application (DoWithTracing, tracing.go:29-70, and the
\* decorators of the store and the gas meter).
THEOREM TracingImplementsUntraced == Spec => Transparent
<1>1. Spec => []TypeInv
  BY InitTypeInv, NextTypeInv, PTL DEF Spec
<1>2. QED
  BY <1>1, InitImplements, NextImplements, PTL DEF Spec, Transparent, Undecorated!Spec
-----------------------------------------------------------------------------
(* What a step does to the contexts *)

\* A context that differs in its events at most.
Same(c, d) ==
    /\ d.kind = c.kind /\ d.span = c.span /\ d.clock = c.clock
    /\ d.ms = c.ms /\ d.meters = c.meters /\ d.ignoring = c.ignoring

SameUpTo(n) == \A i \in 1..n : Same(stack[i], stack'[i])

StackKept == Depth' = Depth /\ SameUpTo(Depth)

PushedOn(c) == Depth' = Depth + 1 /\ SameUpTo(Depth) /\ stack'[Depth + 1] = c

PoppedOff == Depth >= 2 /\ Depth' = Depth - 1 /\ SameUpTo(Depth - 1)

LEMMA KeepMoves ==
    ASSUME TypeInv, UNCHANGED stack
    PROVE  StackKept
<1>1. Depth' = Depth
  BY DEF Depth
<1>2. SameUpTo(Depth)
  BY DEF SameUpTo, Same
<1>3. QED  BY <1>1, <1>2 DEF StackKept

LEMMA EmitMoves ==
    ASSUME TypeInv, NEW e \in Event, EmitEvent(e)
    PROVE  StackKept
<1>1. /\ stack \in Seq(Contexts) /\ Len(stack) \in Nat /\ Len(stack) >= 1
      /\ \A i \in 1..Len(stack) : stack[i] \in Contexts
  BY TopFacts DEF Depth
<1>2. stack' = [stack EXCEPT ![Len(stack)] = [Top EXCEPT !.em = Append(@, e)]]
  BY DEF EmitEvent, Depth, Top
<1>3. /\ Len(stack') = Len(stack)
      /\ \A i \in 1..Len(stack) :
            stack'[i] = IF i = Len(stack) THEN [Top EXCEPT !.em = Append(@, e)] ELSE stack[i]
  BY <1>1, <1>2
<1>4. \A i \in 1..Len(stack) : Same(stack[i], stack'[i])
  <2>1. Same(Top, [Top EXCEPT !.em = Append(@, e)])
    BY TopFacts DEF Same, Contexts
  <2>2. \A i \in 1..Len(stack) : Same(stack[i], stack[i])
    BY DEF Same
  <2>3. Top = stack[Len(stack)]
    BY DEF Top, Depth
  <2>4. QED  BY <1>3, <2>1, <2>2, <2>3
<1>5. QED  BY <1>3, <1>4 DEF StackKept, SameUpTo, Depth

LEMMA PushMoves ==
    ASSUME TypeInv, NEW c, stack' = Append(stack, c)
    PROVE  PushedOn(c)
<1>1. stack \in Seq(Contexts) /\ Len(stack) \in Nat
  BY TopFacts DEF Depth
<1>2. /\ Len(stack') = Len(stack) + 1 /\ stack'[Len(stack) + 1] = c
      /\ \A i \in 1..Len(stack) : stack'[i] = stack[i]
  BY <1>1
<1>3. QED  BY <1>2 DEF PushedOn, SameUpTo, Same, Depth

\* A context is popped, whether or not its events go to the caller.
LEMMA PopMoves ==
    ASSUME TypeInv, Top.kind # "root",
           \/ stack' = SubSeq(stack, 1, Depth - 1)
           \/ stack' = [i \in 1..(Depth - 1) |->
                           IF i = Depth - 1 THEN [Caller EXCEPT !.em = @ \o Top.em]
                           ELSE stack[i]]
    PROVE  PoppedOff
<1>1. /\ stack \in Seq(Contexts) /\ Depth \in Nat /\ Depth >= 2 /\ Caller \in Contexts
  BY TopFacts
<1>2. \/ stack' = [i \in 1..(Depth - 1) |-> IF i = Depth - 1 THEN Caller ELSE stack[i]]
      \/ stack' = [i \in 1..(Depth - 1) |->
                           IF i = Depth - 1 THEN [Caller EXCEPT !.em = @ \o Top.em]
                           ELSE stack[i]]
  BY PopIsPoppedTo
<1>3. Same(Caller, Caller) /\ Same(Caller, [Caller EXCEPT !.em = @ \o Top.em])
  BY <1>1 DEF Same, Contexts
<1>4. PICK c : /\ stack' = [i \in 1..(Depth - 1) |-> IF i = Depth - 1 THEN c ELSE stack[i]]
               /\ Same(Caller, c)
  BY <1>2, <1>3
<1>5. Len(stack') = Depth - 1
  BY <1>1, <1>4
<1>6. \A i \in 1..(Depth - 1) : stack'[i] = IF i = Depth - 1 THEN c ELSE stack[i]
  BY <1>4
<1>7. \A i \in 1..(Depth - 1) : Same(stack[i], stack'[i])
  <2> TAKE i \in 1..(Depth - 1)
  <2>1. CASE i = Depth - 1
    BY <1>4, <1>6, <2>1 DEF Caller
  <2>2. CASE i # Depth - 1
    BY <1>6, <2>2 DEF Same
  <2>3. QED  BY <2>1, <2>2
<1>8. QED  BY <1>1, <1>5, <1>7 DEF PoppedOff, SameUpTo, Depth

\* The decorators the running context is called from change, nothing else.
LEMMA IgnoringMoves ==
    ASSUME TypeInv, NEW calls, stack' = [stack EXCEPT ![Depth].ignoring = calls]
    PROVE  /\ Depth' = Depth /\ SameUpTo(Depth - 1)
           /\ stack'[Depth].ignoring = calls
           /\ LET c == stack'[Depth] IN
              /\ c.kind = Top.kind /\ c.span = Top.span /\ c.clock = Top.clock
              /\ c.ms = Top.ms /\ c.meters = Top.meters
<1>1. /\ stack \in Seq(Contexts) /\ Depth \in Nat /\ Depth >= 1 /\ Depth = Len(stack)
      /\ Top \in Contexts
  BY TopFacts DEF Depth
<1>2. Len(stack') = Depth
  BY <1>1
<1>3. \A i \in 1..(Depth - 1) : stack'[i] = stack[i]
  BY <1>1
<1>4. stack'[Depth] = [Top EXCEPT !.ignoring = calls]
  BY <1>1 DEF Top
<1>5. Depth' = Depth /\ SameUpTo(Depth - 1)
  BY <1>2, <1>3 DEF SameUpTo, Same, Depth
<1>6. /\ stack'[Depth].ignoring = calls
      /\ stack'[Depth].kind = Top.kind /\ stack'[Depth].span = Top.span
      /\ stack'[Depth].clock = Top.clock /\ stack'[Depth].ms = Top.ms
      /\ stack'[Depth].meters = Top.meters
  <2> DEFINE d == [Top EXCEPT !.ignoring = calls]
  <2>1. /\ d.ignoring = calls
        /\ d.kind = Top.kind /\ d.span = Top.span /\ d.clock = Top.clock
        /\ d.ms = Top.ms /\ d.meters = Top.meters
    BY <1>1 DEF Contexts
  <2>2. stack'[Depth] = d
    BY <1>4
  <2> HIDE DEF d
  <2>3. QED  BY <2>1, <2>2
<1>7. QED  BY <1>5, <1>6
-----------------------------------------------------------------------------
(* What a step does to the spans *)

\* A span that keeps its place, its times and its state.
SpanKept(x, y) ==
    /\ y.parent = x.parent /\ y.log = x.log /\ y.state = x.state
    /\ y.start = x.start /\ y.finish = x.finish

SpansKept == /\ Len(spans') = Len(spans)
             /\ \A s \in 1..Len(spans) : SpanKept(spans[s], spans'[s])

TraceKept(x, y) == y.application = x.application

IoKept(x, y)         == y.io = x.io
IoGrown(x, y, entry) == y.io = Append(x.io, entry)

LEMMA MeteredFields ==
    ASSUME NEW sp \in Seq(Spans), NEW trace \in GasTraces
    PROVE  \A s \in 1..Len(sp) :
              /\ SpanKept(sp[s], Metered(sp, trace)[s])
              /\ IoKept(sp[s], Metered(sp, trace)[s])
              /\ Metered(sp, trace)[s].application
                    = IF s \in Top.meters THEN Append(sp[s].application, trace)
                      ELSE sp[s].application
<1> TAKE s \in 1..Len(sp)
<1>1. sp[s] \in Spans
  OBVIOUS
<1>2. Metered(sp, trace)[s] = IF s \in Top.meters
                              THEN [sp[s] EXCEPT !.application = Append(@, trace)]
                              ELSE sp[s]
  <2>1. s \in DOMAIN sp
    OBVIOUS
  <2>2. QED  BY <2>1, Zenon DEF Metered
<1>3. CASE s \in Top.meters
  <2>1. Append(sp[s].application, trace) \in Seq(GasTraces)
    BY <1>1 DEF Spans
  <2>2. \A a \in Seq(GasTraces) :
          LET y == [sp[s] EXCEPT !.application = a] IN
          SpanKept(sp[s], y) /\ IoKept(sp[s], y) /\ y.application = a
    BY <1>1 DEF SpanKept, IoKept, Spans
  <2>3. QED  BY <1>2, <1>3, <2>1, <2>2
<1>4. CASE s \notin Top.meters
  BY <1>2, <1>4 DEF SpanKept, IoKept
<1>5. QED  BY <1>3, <1>4

LEMMA RecordedFields ==
    ASSUME NEW sp \in Seq(Spans), NEW records, NEW charges,
           NEW op \in {"read", "write"}, NEW k \in Key, NEW s \in 1..Len(sp)
    PROVE  /\ SpanKept(sp[s], Recorded(sp, records, charges, op, k)[s])
           /\ TraceKept(sp[s], Recorded(sp, records, charges, op, k)[s])
           /\ s \in records =>
                 IoGrown(sp[s], Recorded(sp, records, charges, op, k)[s], <<op, k>>)
           /\ s \notin records =>
                 IoKept(sp[s], Recorded(sp, records, charges, op, k)[s])
<1>1. sp[s] \in Spans /\ sp[s].io \in Seq({"read", "write"} \X Key) /\ sp[s].storage \in Nat
  <2>1. sp[s] \in Spans
    OBVIOUS
  <2>2. QED  BY <2>1, SpanUpdates
<1> DEFINE io == IF s \in records THEN Append(sp[s].io, <<op, k>>) ELSE sp[s].io
           g == IF s \in charges THEN sp[s].storage + AccessGas ELSE sp[s].storage
<1>2. Recorded(sp, records, charges, op, k)[s] = [sp[s] EXCEPT !.io = io, !.storage = g]
  <2>1. s \in DOMAIN sp
    OBVIOUS
  <2>2. QED  BY <2>1, Zenon DEF Recorded
<1>3. io \in Seq({"read", "write"} \X Key)
  <2>1. <<op, k>> \in {"read", "write"} \X Key
    OBVIOUS
  <2>2. QED  BY <1>1, <2>1
<1>4. g \in Nat
  BY <1>1, ConstantsAssumption
<1>5. ASSUME NEW a \in Seq({"read", "write"} \X Key), NEW h \in Nat
      PROVE  LET y == [sp[s] EXCEPT !.io = a, !.storage = h] IN
             SpanKept(sp[s], y) /\ y.application = sp[s].application /\ y.io = a
  BY <1>1 DEF SpanKept, Spans
<1> HIDE DEF io, g
<1>6. LET y == [sp[s] EXCEPT !.io = io, !.storage = g] IN
      SpanKept(sp[s], y) /\ y.application = sp[s].application /\ y.io = io
  BY <1>3, <1>4, <1>5
<1>7. QED  BY <1>2, <1>6 DEF io, TraceKept, IoGrown, IoKept

LEMMA LostFields ==
    ASSUME spans \in Seq(Spans), NEW ids
    PROVE  \A s \in 1..Len(spans) :
              LET y == Lost(ids)[s] IN
              /\ y.parent = spans[s].parent /\ y.log = spans[s].log
              /\ y.start = spans[s].start /\ y.finish = spans[s].finish
              /\ y.io = spans[s].io /\ y.application = spans[s].application
              /\ y.state = IF s \in ids THEN "lost" ELSE spans[s].state
<1> TAKE s \in 1..Len(spans)
<1>1. spans[s] \in Spans
  OBVIOUS
<1>2. Lost(ids)[s] = IF s \in ids THEN [spans[s] EXCEPT !.state = "lost"] ELSE spans[s]
  BY DEF Lost
<1>3. LET y == [spans[s] EXCEPT !.state = "lost"] IN
      /\ y.parent = spans[s].parent /\ y.log = spans[s].log
      /\ y.start = spans[s].start /\ y.finish = spans[s].finish
      /\ y.io = spans[s].io /\ y.application = spans[s].application
      /\ y.state = "lost"
  BY <1>1 DEF Spans
<1>4. QED  BY <1>2, <1>3

\* A span is finished by the clock the call was given.
LEMMA FinishFields ==
    ASSUME TypeInv, NEW id \in 1..Len(spans), NEW clock \in Clocks,
           NEW events \in Seq(Event), NEW failed \in BOOLEAN,
           spans' = [spans EXCEPT ![id] = Finished(@, clock, events, failed)]
    PROVE  /\ Len(spans') = Len(spans)
           /\ \A s \in 1..Len(spans) :
                 LET y == spans'[s] IN
                 /\ y.parent = spans[s].parent /\ y.log = spans[s].log
                 /\ y.start = spans[s].start
                 /\ y.io = spans[s].io /\ y.application = spans[s].application
                 /\ y.state = IF s = id THEN "finished" ELSE spans[s].state
                 /\ y.finish = IF s = id THEN Now(clock, sys) ELSE spans[s].finish
<1>1. spans \in Seq(Spans) /\ sys \in Int /\ spans[id] \in Spans
  BY TopFacts DEF TypeInv, TypeOK
<1>2. Finished(spans[id], clock, events, failed) \in Spans
  BY <1>1, FinishedTypes
<1>3. /\ Len(spans') = Len(spans)
      /\ \A s \in 1..Len(spans) :
            spans'[s] = IF s = id THEN Finished(spans[id], clock, events, failed) ELSE spans[s]
  BY <1>1, <1>2, SeqUpdated
<1>4. LET y == Finished(spans[id], clock, events, failed) IN
      /\ y.parent = spans[id].parent /\ y.log = spans[id].log
      /\ y.start = spans[id].start
      /\ y.io = spans[id].io /\ y.application = spans[id].application
      /\ y.state = "finished" /\ y.finish = Now(clock, sys)
  BY <1>1 DEF Finished, Spans
<1>5. ASSUME NEW s \in 1..Len(spans)
      PROVE  LET y == spans'[s] IN
             /\ y.parent = spans[s].parent /\ y.log = spans[s].log
             /\ y.start = spans[s].start
             /\ y.io = spans[s].io /\ y.application = spans[s].application
             /\ y.state = IF s = id THEN "finished" ELSE spans[s].state
             /\ y.finish = IF s = id THEN Now(clock, sys) ELSE spans[s].finish
  <2>1. CASE s = id
    BY <1>3, <1>4, <2>1
  <2>2. CASE s # id
    BY <1>3, <2>2
  <2>3. QED  BY <2>1, <2>2
<1>6. QED  BY <1>3, <1>5

\* A span is started by the running context.
LEMMA StartFields ==
    ASSUME TypeInv, NEW log \in LogSetting, StartSpan(log)
    PROVE  /\ Len(spans) \in Nat /\ Len(spans') = Len(spans) + 1
           /\ \A s \in 1..Len(spans) : spans'[s] = spans[s]
           /\ LET y == spans'[Len(spans) + 1] IN
              /\ y.parent = Top.span /\ y.log = log /\ y.state = "open"
              /\ y.start = TimeOf(Top.clock, sys, BlockTime)
              /\ y.application = <<>> /\ y.io = <<>>
           /\ UNCHANGED <<gas, sys, mode>> /\ mode = "run"
<1>1. spans \in Seq(Spans) /\ Len(spans) \in Nat /\ NewSpan(log, Top.clock) \in Spans
  BY TopFacts, NewSpanTypes
<1>2. spans' = Append(spans, NewSpan(log, Top.clock)) /\ UNCHANGED <<gas, sys, mode>>
      /\ mode = "run"
  BY DEF StartSpan, Step, Running
<1>3. /\ Len(spans') = Len(spans) + 1
      /\ \A s \in 1..Len(spans) : spans'[s] = spans[s]
      /\ spans'[Len(spans) + 1] = NewSpan(log, Top.clock)
  BY <1>1, <1>2
<1>4. QED  BY <1>1, <1>2, <1>3 DEF NewSpan
-----------------------------------------------------------------------------
(* The steps by what they do to the traced calls *)

\* The traced calls a context is to finish: its own and those of the
\* decorators that run their callback on it.
CallsOf(c) ==
    {c.ignoring[j] : j \in 1..Len(c.ignoring)}
        \cup (IF c.kind = "call" THEN {[span |-> c.span, clock |-> c.clock]} ELSE {})

\* A step that starts and ends no call and leaves the contexts in place.
Quiet ==
    /\ StackKept /\ SpansKept
    /\ sys' >= sys
    /\ mode' = "aborted" <=> mode = "aborted"
    /\ mode' = "done" /\ mode # "done" => Depth = 1 /\ CallsOf(Top) = {}

Pop ==
    \/ \E failed \in BOOLEAN : Return(failed)
    \/ Commit
    \/ Discard
    \/ UnwindCall
    \/ \E recovered \in BOOLEAN : UnwindBranch(recovered)

LEMMA QuietRecording ==
    ASSUME TypeInv,
           \/ \E n \in {1, 2} : ConsumeGas(n) \/ RefundGas(n)
           \/ \E op \in {"read", "write"}, k \in Key, v \in Value :
                 KVStore(op, k, v) \/ Store(op, k, v)
    PROVE  Quiet
<1>0. spans \in Seq(Spans) /\ Len(spans) \in Nat /\ gas \in Nat /\ sys \in Nat
  BY TopFacts DEF TypeInv, TypeOK
<1>1. \A s \in 1..Len(spans) : SpanKept(spans[s], spans[s])
  BY DEF SpanKept
<1>2. ASSUME NEW n \in Nat
      PROVE  /\ Charged(spans, n) \in Seq(Spans) /\ Len(Charged(spans, n)) = Len(spans)
             /\ Len(Credited(spans, n)) = Len(spans)
             /\ \A s \in 1..Len(spans) : /\ SpanKept(spans[s], Charged(spans, n)[s])
                                         /\ SpanKept(spans[s], Credited(spans, n)[s])
  <2>1. ConsumeGasTrace(n, gas) \in GasTraces /\ RefundGasTrace(n, gas) \in GasTraces
    BY <1>0 DEF ConsumeGasTrace, RefundGasTrace, NewGasTrace, GasTraces
  <2>2. QED  BY <1>0, <2>1, MeteredFields, ChargedTypes DEF Charged, Credited
<1>3. ASSUME NEW sp \in Seq(Spans), Len(sp) = Len(spans),
             \A s \in 1..Len(spans) : SpanKept(spans[s], sp[s]),
             NEW records, NEW charges, NEW op \in {"read", "write"}, NEW k \in Key,
             spans' = Recorded(sp, records, charges, op, k)
      PROVE  SpansKept
  <2>1. Len(spans') = Len(spans)
    BY <1>3, RecordedTypes
  <2>2. \A s \in 1..Len(spans) : SpanKept(sp[s], spans'[s])
    BY <1>3, RecordedFields
  <2>3. QED  BY <1>3, <2>1, <2>2 DEF SpansKept, SpanKept
<1>4. SpansKept
  <2>1. CASE \E n \in {1, 2} : ConsumeGas(n) \/ RefundGas(n)
    BY <1>2, <2>1 DEF ConsumeGas, RefundGas, SpansKept
  <2>2. ASSUME NEW op \in {"read", "write"}, NEW k \in Key, NEW v \in Value, KVStore(op, k, v)
        PROVE  SpansKept
    <3>1. \/ spans' = Charged(spans, AccessGas)
          \/ spans' = Recorded(Charged(spans, AccessGas), KVStoreRecords(Top.ms, op),
                               KVStoreCharges(Top.ms), op, k)
      BY <2>2 DEF KVStore
    <3>2. AccessGas \in Nat
      BY ConstantsAssumption
    <3>3. CASE spans' = Charged(spans, AccessGas)
      BY <1>2, <3>2, <3>3 DEF SpansKept
    <3>4. CASE spans' = Recorded(Charged(spans, AccessGas), KVStoreRecords(Top.ms, op),
                                 KVStoreCharges(Top.ms), op, k)
      BY <1>2, <1>3, <3>2, <3>4
    <3>5. QED  BY <3>1, <3>3, <3>4
  <2>3. ASSUME NEW op \in {"read", "write"}, NEW k \in Key, NEW v \in Value, Store(op, k, v)
        PROVE  SpansKept
    <3>1. spans' = Recorded(spans, StoreRecords(Top.ms, op), StoreCharges(Top.ms), op, k)
      BY <2>3 DEF Store
    <3>2. QED  BY <1>0, <1>1, <1>3, <3>1
  <2>4. QED  BY <2>1, <2>2, <2>3
<1>5. UNCHANGED <<stack, sys>> /\ mode = "run" /\ mode' \in {"run", "panic"}
  BY DEF ConsumeGas, RefundGas, KVStore, Store, Step, Running
<1>6. StackKept
  BY <1>5, KeepMoves
<1>7. QED  BY <1>0, <1>4, <1>5, <1>6 DEF Quiet

LEMMA StepCases ==
    ASSUME TypeInv, [Next]_vars
    PROVE  \/ Quiet
           \/ \E log \in LogSetting : Call(log)
           \/ CallIgnoring
           \/ OpenBranch
           \/ \E failed \in BOOLEAN : ReturnIgnoring(failed)
           \/ Pop
           \/ Abort
<1>0. sys \in Nat /\ Len(spans) \in Nat
  BY TopFacts DEF TypeInv, TypeOK
<1>1. ASSUME UNCHANGED spans
      PROVE  SpansKept
  BY <1>1 DEF SpansKept, SpanKept
<1>2. ASSUME NEW e \in Event, EmitEvent(e)
      PROVE  Quiet
  <2>1. StackKept
    BY <1>2, EmitMoves
  <2>2. UNCHANGED <<spans, sys, mode>> /\ mode = "run"
    BY <1>2 DEF EmitEvent, Step, Running
  <2>3. QED  BY <1>0, <1>1, <2>1, <2>2 DEF Quiet
<1>3. ASSUME Done
      PROVE  Quiet
  <2>1. StackKept
    BY <1>3, KeepMoves DEF Done
  <2>2. /\ UNCHANGED <<spans, sys>> /\ mode = "run" /\ mode' = "done"
        /\ Top.kind = "root" /\ Top.ignoring = <<>>
    BY <1>3 DEF Done, Running
  <2>3. CallsOf(Top) = {}
    BY <2>2 DEF CallsOf
  <2>4. Depth = 1
    <3>1. \A i \in 2..Depth : stack[i].kind # "root"
      BY DEF TypeInv, ContextsLineUp, StoresLineUp
    <3>2. QED  BY <2>2, <3>1, TopFacts DEF Top
  <2>5. QED  BY <1>0, <1>1, <2>1, <2>2, <2>3, <2>4 DEF Quiet
<1>4. ASSUME Panic \/ Tick \/ UNCHANGED vars
      PROVE  Quiet
  <2>1. UNCHANGED stack /\ UNCHANGED spans
    BY <1>4 DEF Panic, Tick, vars
  <2>2. sys' >= sys
    BY <1>0, <1>4 DEF Panic, Tick, vars
  <2>3. mode' = mode \/ (mode = "run" /\ mode' = "panic")
    BY <1>4 DEF Panic, Tick, vars, Step, Running
  <2>4. QED  BY <1>1, <2>1, <2>2, <2>3, KeepMoves DEF Quiet
<1>5. QED
  BY <1>2, <1>3, <1>4, QuietRecording DEF Next, Program, Unwinding, Terminated, Pop

\* The step ends the calls of ended, and no other.
EndsCalls(ended) ==
    /\ Len(spans') = Len(spans) /\ UNCHANGED sys
    /\ \A s \in 1..Len(spans) :
          /\ spans'[s].parent = spans[s].parent /\ spans'[s].log = spans[s].log
          /\ spans'[s].start = spans[s].start
          /\ (\A r \in ended : r.span # s) =>
                spans'[s].state = spans[s].state /\ spans'[s].finish = spans[s].finish
          /\ \A r \in ended : r.span = s =>
                \/ spans'[s].state = "lost"
                \/ spans'[s].state = "finished" /\ spans'[s].finish = Now(r.clock, sys)

LEMMA CallIds ==
    ASSUME NEW c, c.ignoring \in Seq(IgnoringCalls), NEW s
    PROVE  (\E r \in CallsOf(c) : r.span = s)
             <=> (s \in Ignoring(c) \/ (c.kind = "call" /\ s = c.span))
<1>1. DOMAIN c.ignoring = 1..Len(c.ignoring)
  OBVIOUS
<1>2. Ignoring(c) = {c.ignoring[j].span : j \in 1..Len(c.ignoring)}
  BY <1>1 DEF Ignoring
<1>3. CASE c.kind = "call"
  <2>1. [span |-> c.span, clock |-> c.clock].span = c.span
    OBVIOUS
  <2>2. QED  BY <1>2, <1>3, <2>1 DEF CallsOf
<1>4. CASE c.kind # "call"
  BY <1>2, <1>4 DEF CallsOf
<1>5. QED  BY <1>3, <1>4

\* What the calls in progress are.
LEMMA CallTypes ==
    ASSUME TypeInv, NEW i \in 1..Depth, NEW r \in CallsOf(stack[i])
    PROVE  r \in IgnoringCalls /\ r.span \in 1..Len(spans) /\ r.clock \in Clocks
<1>1. /\ stack[i] \in Contexts /\ stack[i].ignoring \in Seq(IgnoringCalls)
      /\ stack[i].span \in Nat /\ stack[i].clock \in Clocks \cup {NoClock}
  <2>1. stack[i] \in Contexts
    BY TopFacts DEF Depth
  <2>2. QED  BY <2>1 DEF Contexts
<1>2. /\ stack[i].kind = "call" => stack[i].span \in 1..Len(spans) /\ stack[i].clock # NoClock
      /\ \A j \in 1..Len(stack[i].ignoring) : stack[i].ignoring[j].span \in 1..Len(spans)
  BY DEF TypeInv, ContextsLineUp, SpansExist, Started
<1>3. CASE \E j \in 1..Len(stack[i].ignoring) : r = stack[i].ignoring[j]
  <2>1. r \in IgnoringCalls /\ r.span \in 1..Len(spans)
    BY <1>1, <1>2, <1>3
  <2>2. QED  BY <2>1 DEF IgnoringCalls
<1>4. CASE stack[i].kind = "call" /\ r = [span |-> stack[i].span, clock |-> stack[i].clock]
  BY <1>1, <1>2, <1>4 DEF IgnoringCalls
<1>5. QED  BY <1>3, <1>4 DEF CallsOf

\* A step that pops a context ends the calls the context was to finish.
LEMMA PopEnds ==
    ASSUME TypeInv, Pop
    PROVE  /\ PoppedOff /\ EndsCalls(CallsOf(Top))
           /\ mode' \in {"run", "panic"} /\ mode \in {"run", "panic"}
<1>0. /\ Top \in Contexts /\ Depth \in Nat /\ Depth >= 1 /\ spans \in Seq(Spans)
      /\ Top.ignoring \in Seq(IgnoringCalls) /\ Top.em \in Seq(Event)
  BY TopFacts DEF Contexts
<1>1. ASSUME NEW ids, spans' = Lost(ids), UNCHANGED sys,
             \A s : (\E r \in CallsOf(Top) : r.span = s) <=> s \in ids
      PROVE  EndsCalls(CallsOf(Top))
  <2>1. Len(spans') = Len(spans)
    BY <1>0, <1>1, LostTypes
  <2>2. \A s \in 1..Len(spans) :
          /\ spans'[s].parent = spans[s].parent /\ spans'[s].log = spans[s].log
          /\ spans'[s].start = spans[s].start /\ spans'[s].finish = spans[s].finish
          /\ spans'[s].state = IF s \in ids THEN "lost" ELSE spans[s].state
    BY <1>0, <1>1, LostFields
  <2>3. QED  BY <1>1, <2>1, <2>2 DEF EndsCalls
<1>2. ASSUME NEW failed \in BOOLEAN, Return(failed)
      PROVE  /\ PoppedOff /\ EndsCalls(CallsOf(Top))
             /\ mode' \in {"run", "panic"} /\ mode \in {"run", "panic"}
  <2>1. /\ Top.kind = "call" /\ Top.ignoring = <<>> /\ UNCHANGED <<sys, mode>> /\ mode = "run"
        /\ spans' = [spans EXCEPT ![Top.span] = Finished(@, Top.clock, Top.em, failed)]
        /\ stack' = [i \in 1..(Depth - 1) |->
                        IF i = Depth - 1 THEN [Caller EXCEPT !.em = @ \o Top.em] ELSE stack[i]]
    BY <1>2 DEF Return, HandedOn, Running
  <2>2. PoppedOff
    BY <2>1, PopMoves
  <2>3. Top.span \in 1..Len(spans) /\ Top.clock \in Clocks
    BY <2>1, TopFacts
  <2> DEFINE r == [span |-> Top.span, clock |-> Top.clock]
  <2>4. CallsOf(Top) = {r} /\ r.span = Top.span /\ r.clock = Top.clock
    BY <2>1 DEF CallsOf
  <2> HIDE DEF r
  <2>5. EndsCalls({r})
    <3>1. /\ Len(spans') = Len(spans)
          /\ \A s \in 1..Len(spans) :
                /\ spans'[s].parent = spans[s].parent /\ spans'[s].log = spans[s].log
                /\ spans'[s].start = spans[s].start
                /\ spans'[s].state = IF s = Top.span THEN "finished" ELSE spans[s].state
                /\ spans'[s].finish = IF s = Top.span THEN Now(Top.clock, sys)
                                      ELSE spans[s].finish
      BY <1>0, <2>1, <2>3, FinishFields, ZenonT(60)
    <3>2. QED  BY <2>1, <2>4, <3>1 DEF EndsCalls
  <2>6. QED  BY <2>1, <2>2, <2>4, <2>5
<1>3. ASSUME Commit \/ Discard
      PROVE  /\ PoppedOff /\ EndsCalls(CallsOf(Top))
             /\ mode' \in {"run", "panic"} /\ mode \in {"run", "panic"}
  <2>1. /\ Top.kind = "branch" /\ Top.ignoring = <<>>
        /\ UNCHANGED <<spans, sys, mode>> /\ mode = "run"
    BY <1>3 DEF Commit, Discard, Running
  <2>2. PoppedOff
    BY <1>3, <2>1, PopMoves DEF Commit, Discard, PopBranch
  <2>3. CallsOf(Top) = {}
    BY <2>1 DEF CallsOf
  <2>4. EndsCalls({})
    BY <2>1 DEF EndsCalls
  <2>5. QED  BY <2>1, <2>2, <2>3, <2>4
<1>4. ASSUME UnwindCall
      PROVE  /\ PoppedOff /\ EndsCalls(CallsOf(Top))
             /\ mode' \in {"run", "panic"} /\ mode \in {"run", "panic"}
  <2>1. /\ Top.kind = "call" /\ UNCHANGED <<sys, mode>> /\ mode = "panic"
        /\ spans' = Lost(Ignoring(Top) \cup {Top.span}) /\ stack' = SubSeq(stack, 1, Depth - 1)
    BY <1>4 DEF UnwindCall
  <2>2. PoppedOff
    BY <2>1, PopMoves
  <2>3. \A s : (\E r \in CallsOf(Top) : r.span = s) <=> s \in Ignoring(Top) \cup {Top.span}
    BY <1>0, <2>1, CallIds
  <2>4. QED  BY <1>1, <2>1, <2>2, <2>3
<1>5. ASSUME NEW recovered \in BOOLEAN, UnwindBranch(recovered)
      PROVE  /\ PoppedOff /\ EndsCalls(CallsOf(Top))
             /\ mode' \in {"run", "panic"} /\ mode \in {"run", "panic"}
  <2>1. /\ Top.kind = "branch" /\ UNCHANGED sys /\ mode = "panic" /\ mode' \in {"run", "panic"}
        /\ spans' = Lost(Ignoring(Top)) /\ stack' = SubSeq(stack, 1, Depth - 1)
    BY <1>5 DEF UnwindBranch, PopBranch
  <2>2. PoppedOff
    BY <2>1, PopMoves
  <2>3. \A s : (\E r \in CallsOf(Top) : r.span = s) <=> s \in Ignoring(Top)
    BY <1>0, <2>1, CallIds
  <2>4. QED  BY <1>1, <2>1, <2>2, <2>3
<1>6. QED  BY <1>2, <1>3, <1>4, <1>5 DEF Pop

LEMMA AbortEnds ==
    ASSUME TypeInv, Abort
    PROVE  /\ StackKept /\ Depth = 1 /\ EndsCalls(CallsOf(Top))
           /\ mode = "panic" /\ mode' = "aborted"
<1>0. /\ Top.ignoring \in Seq(IgnoringCalls) /\ spans \in Seq(Spans)
  BY TopFacts DEF Contexts
<1>1. /\ Top.kind = "root" /\ UNCHANGED <<stack, sys>> /\ mode = "panic" /\ mode' = "aborted"
      /\ spans' = Lost(Ignoring(Top))
  BY DEF Abort
<1>2. Depth = 1
  <2>1. \A i \in 2..Depth : stack[i].kind # "root"
    BY DEF TypeInv, ContextsLineUp, StoresLineUp
  <2>2. QED  BY <1>1, <2>1, TopFacts DEF Top
<1>3. StackKept
  BY <1>1, KeepMoves
<1>4. \A s : (\E r \in CallsOf(Top) : r.span = s) <=> s \in Ignoring(Top)
  BY <1>0, <1>1, CallIds
<1>5. EndsCalls(CallsOf(Top))
  <2>1. Len(spans') = Len(spans)
    BY <1>0, <1>1, LostTypes
  <2>2. \A s \in 1..Len(spans) :
          /\ spans'[s].parent = spans[s].parent /\ spans'[s].log = spans[s].log
          /\ spans'[s].start = spans[s].start /\ spans'[s].finish = spans[s].finish
          /\ spans'[s].state = IF s \in Ignoring(Top) THEN "lost" ELSE spans[s].state
    BY <1>0, <1>1, LostFields
  <2>3. QED  BY <1>1, <1>4, <2>1, <2>2 DEF EndsCalls
<1>6. QED  BY <1>1, <1>2, <1>3, <1>5
-----------------------------------------------------------------------------
(* The order of the calls in progress *)

\* The calls a context is to finish, the newest last.
NewestLast(c) ==
    \A j \in 1..Len(c.ignoring) :
        /\ c.kind = "call" => c.span < c.ignoring[j].span
        /\ \A h \in 1..(j - 1) : c.ignoring[h].span < c.ignoring[j].span

\* Spans are numbered as they are started, so the calls of a context are newer
\* than those of the contexts below it.
Ordered ==
    /\ \A i \in 1..Depth : NewestLast(stack[i])
    /\ \A i, j \in 1..Depth : i < j =>
          \A r \in CallsOf(stack[i]), q \in CallsOf(stack[j]) : r.span < q.span

\* The span that a context hands to its calls is that of a call in progress
\* below it, and the clock is handed on together with it.
Inherited ==
    \A i \in 1..Depth : stack[i].span # 0 =>
        \E j \in 1..i : /\ stack[j].kind = "call"
                        /\ stack[j].span = stack[i].span /\ stack[j].clock = stack[i].clock

StackInv == TypeInv /\ Ordered /\ Inherited

SameCalls == \A i \in 1..Depth : CallsOf(stack'[i]) = CallsOf(stack[i])

LEMMA SameIsSame ==
    ASSUME NEW c, NEW d, Same(c, d)
    PROVE  CallsOf(d) = CallsOf(c) /\ (NewestLast(c) => NewestLast(d))
  BY DEF Same, CallsOf, NewestLast

\* DoWithTracing starts a call on a context of its own.
LEMMA CallStarts ==
    ASSUME TypeInv, NEW log \in LogSetting, Call(log)
    PROVE  /\ PushedOn(WorkCtx(log)) /\ StartSpan(log)
           /\ CallsOf(WorkCtx(log))
                 = {[span |-> Len(spans) + 1, clock |-> ClockOf(Top.clock, sys, BlockTime)]}
           /\ NewestLast(WorkCtx(log))
<1>1. PushedOn(WorkCtx(log)) /\ StartSpan(log)
  BY PushMoves DEF Call
<1>2. /\ WorkCtx(log).kind = "call" /\ WorkCtx(log).ignoring = <<>>
      /\ WorkCtx(log).span = Len(spans) + 1
      /\ WorkCtx(log).clock = ClockOf(Top.clock, sys, BlockTime)
  BY DEF WorkCtx
<1>3. QED  BY <1>1, <1>2 DEF CallsOf, NewestLast

\* DoWithTracing starts a call on the context it was given.
LEMMA IgnoringStarts ==
    ASSUME StackInv, CallIgnoring
    PROVE  /\ Depth' = Depth /\ SameUpTo(Depth - 1) /\ StartSpan("all")
           /\ CallsOf(stack'[Depth]) = CallsOf(Top)
                 \cup {[span |-> Len(spans) + 1, clock |-> ClockOf(Top.clock, sys, BlockTime)]}
           /\ NewestLast(stack'[Depth])
           /\ LET c == stack'[Depth] IN
              /\ c.kind = Top.kind /\ c.span = Top.span /\ c.clock = Top.clock
              /\ c.ms = Top.ms /\ c.meters = Top.meters
<1> DEFINE r == [span |-> Len(spans) + 1, clock |-> ClockOf(Top.clock, sys, BlockTime)]
           calls == Append(Top.ignoring, r)
           n == Len(Top.ignoring)
<1>1. /\ Top \in Contexts /\ Top.ignoring \in Seq(IgnoringCalls) /\ n \in Nat
      /\ Top.span \in Nat /\ Len(spans) \in Nat /\ Depth \in 1..Depth
  BY TopFacts DEF StackInv, Contexts
<1>2. StartSpan("all") /\ stack' = [stack EXCEPT ![Depth].ignoring = calls]
  BY DEF CallIgnoring, Top
<1>3. /\ Len(calls) = n + 1
      /\ \A j \in 1..n : calls[j] = Top.ignoring[j]
      /\ calls[n + 1] = r
  BY <1>1
<1>4. r.span = Len(spans) + 1
  OBVIOUS
<1> HIDE DEF r, calls
<1>5. /\ Depth' = Depth /\ SameUpTo(Depth - 1) /\ stack'[Depth].ignoring = calls
      /\ stack'[Depth].kind = Top.kind /\ stack'[Depth].span = Top.span
      /\ stack'[Depth].clock = Top.clock /\ stack'[Depth].ms = Top.ms
      /\ stack'[Depth].meters = Top.meters
  BY <1>2, IgnoringMoves DEF StackInv
<1>6. {calls[j] : j \in 1..Len(calls)} = {Top.ignoring[j] : j \in 1..n} \cup {r}
  <2>1. /\ \A j \in 1..(n + 1) : j \in 1..n \/ j = n + 1
        /\ (n + 1) \in 1..(n + 1) /\ \A j \in 1..n : j \in 1..(n + 1)
    BY <1>1
  <2>2. {calls[j] : j \in 1..(n + 1)} = {Top.ignoring[j] : j \in 1..n} \cup {r}
    <3> HIDE DEF n
    <3>1. QED  BY <1>3, <2>1
  <2>3. QED  BY <1>3, <2>2
<1>7. CallsOf(stack'[Depth]) = CallsOf(Top) \cup {r}
  BY <1>5, <1>6, ZenonT(60) DEF CallsOf
<1>8. /\ \A j \in 1..n : Top.ignoring[j].span \in Nat /\ Top.ignoring[j].span <= Len(spans)
      /\ Top.kind = "call" => Top.span <= Len(spans)
  <2>1. Started(Top.ignoring, Len(spans)) /\ (Top.kind = "call" => Top.span \in 1..Len(spans))
    BY <1>1 DEF StackInv, TypeInv, ContextsLineUp, SpansExist, Top
  <2>2. QED  BY <1>1, <2>1 DEF Started
<1>9. NewestLast(stack'[Depth])
  <2>1. NewestLast(Top)
    BY <1>1 DEF StackInv, Ordered, Top
  <2>2. ASSUME NEW j \in 1..(n + 1)
        PROVE  /\ Top.kind = "call" => Top.span < calls[j].span
               /\ \A h \in 1..(j - 1) : calls[h].span < calls[j].span
    <3>1. CASE j \in 1..n
      BY <1>1, <1>3, <2>1, <3>1 DEF NewestLast
    <3>2. CASE j = n + 1
      BY <1>1, <1>3, <1>4, <1>8, <3>2
    <3>3. QED  BY <1>1, <3>1, <3>2
  <2>3. QED  BY <1>3, <1>5, <2>2 DEF NewestLast
<1>10. QED  BY <1>2, <1>5, <1>7, <1>9 DEF r

\* A decorator that ran its callback on the context it was given returns: it is
\* the last one that was called from there.
LEMMA IgnoringEnds ==
    ASSUME StackInv, NEW failed \in BOOLEAN, ReturnIgnoring(failed)
    PROVE  /\ Depth' = Depth /\ SameUpTo(Depth - 1) /\ UNCHANGED mode /\ mode = "run"
           /\ NewestLast(stack'[Depth])
           /\ LET c == stack'[Depth] IN
              /\ c.kind = Top.kind /\ c.span = Top.span /\ c.clock = Top.clock
              /\ c.ms = Top.ms /\ c.meters = Top.meters
           /\ \E r : /\ CallsOf(Top) = CallsOf(stack'[Depth]) \cup {r}
                     /\ \A q \in CallsOf(stack'[Depth]) : q.span < r.span
                     /\ EndsCalls({r})
<1> DEFINE n == Len(Top.ignoring)
           r == Top.ignoring[n]
           calls == SubSeq(Top.ignoring, 1, n - 1)
<1>1. /\ Top \in Contexts /\ Top.ignoring \in Seq(IgnoringCalls) /\ n \in Nat
      /\ Depth \in 1..Depth /\ Len(spans) \in Nat
  BY TopFacts DEF StackInv, Contexts
<1>2. /\ Top.ignoring # <<>> /\ UNCHANGED <<sys, mode>> /\ mode = "run"
      /\ spans' = [spans EXCEPT ![r.span] = Finished(@, r.clock, <<>>, failed)]
      /\ stack' = [stack EXCEPT ![Depth].ignoring = calls]
  BY DEF ReturnIgnoring, Running, Top
<1>3. n >= 1 /\ r \in IgnoringCalls
  BY <1>1, <1>2
<1>4. Len(calls) = n - 1 /\ \A j \in 1..(n - 1) : calls[j] = Top.ignoring[j]
  BY <1>1, <1>2, SeqShortened
<1>5. EndsCalls({r})
  <2>1. Started(Top.ignoring, Len(spans))
    BY <1>1 DEF StackInv, TypeInv, ContextsLineUp, SpansExist, Top
  <2>2. r.span \in 1..Len(spans) /\ r.clock \in Clocks /\ <<>> \in Seq(Event)
    BY <1>1, <1>3, <2>1 DEF Started, IgnoringCalls
  <2>3. /\ Len(spans') = Len(spans)
        /\ \A s \in 1..Len(spans) :
              /\ spans'[s].parent = spans[s].parent /\ spans'[s].log = spans[s].log
              /\ spans'[s].start = spans[s].start
              /\ spans'[s].state = IF s = r.span THEN "finished" ELSE spans[s].state
              /\ spans'[s].finish = IF s = r.span THEN Now(r.clock, sys) ELSE spans[s].finish
    <3> HIDE DEF r
    <3>1. QED  BY <1>2, <2>2, FinishFields, ZenonT(60) DEF StackInv
  <2> HIDE DEF r
  <2>4. QED  BY <1>2, <2>3 DEF EndsCalls
<1>6. /\ Depth' = Depth /\ SameUpTo(Depth - 1) /\ stack'[Depth].ignoring = calls
      /\ stack'[Depth].kind = Top.kind /\ stack'[Depth].span = Top.span
      /\ stack'[Depth].clock = Top.clock /\ stack'[Depth].ms = Top.ms
      /\ stack'[Depth].meters = Top.meters
  <2> HIDE DEF calls
  <2>1. QED  BY <1>2, IgnoringMoves DEF StackInv
<1>7. CallsOf(Top) = CallsOf(stack'[Depth]) \cup {r}
  <2>1. {Top.ignoring[j] : j \in 1..n} = {calls[j] : j \in 1..Len(calls)} \cup {r}
    <3>1. \A j \in 1..n : j \in 1..(n - 1) \/ j = n
      BY <1>1
    <3>2. 1..(n - 1) \subseteq 1..n /\ n \in 1..n
      BY <1>1, <1>3
    <3> HIDE DEF calls
    <3>3. QED  BY <1>4, <3>1, <3>2
  <2> HIDE DEF calls, r
  <2>2. QED  BY <1>6, <2>1 DEF CallsOf
<1>8. NewestLast(Top)
  BY <1>1 DEF StackInv, Ordered, Top
<1>9. \A q \in CallsOf(stack'[Depth]) : q.span < r.span
  <2>1. \A j \in 1..(n - 1) : Top.ignoring[j].span < r.span
    BY <1>1, <1>3, <1>8 DEF NewestLast
  <2>2. Top.kind = "call" => Top.span < r.span
    BY <1>1, <1>3, <1>8 DEF NewestLast
  <2> HIDE DEF calls, r
  <2>3. QED  BY <1>4, <1>6, <2>1, <2>2 DEF CallsOf
<1>10. NewestLast(stack'[Depth])
  <2>1. \A j \in 1..(n - 1) :
          /\ Top.kind = "call" => Top.span < calls[j].span
          /\ \A h \in 1..(j - 1) : calls[h].span < calls[j].span
    <3>1. \A j \in 1..(n - 1) : j \in 1..n /\ \A h \in 1..(j - 1) : h \in 1..(n - 1)
      BY <1>1
    <3> HIDE DEF calls
    <3>2. QED  BY <1>4, <1>8, <3>1 DEF NewestLast
  <2> HIDE DEF calls
  <2>2. QED  BY <1>4, <1>6, <2>1 DEF NewestLast
<1> HIDE DEF r, calls
<1>11. QED  BY <1>2, <1>5, <1>6, <1>7, <1>9, <1>10
-----------------------------------------------------------------------------
(* The order is inductive *)

LEMMA InitStackInv == Init => StackInv
<1> SUFFICES ASSUME Init PROVE StackInv
  OBVIOUS
<1>1. TypeInv
  BY InitTypeInv
<1>2. Depth = 1 /\ stack[1].ignoring = <<>> /\ stack[1].span = 0
  BY DEF Init, Depth
<1>3. Ordered
  BY <1>2 DEF Ordered, NewestLast
<1>4. Inherited
  BY <1>2 DEF Inherited
<1>5. QED  BY <1>1, <1>3, <1>4 DEF StackInv

\* The contexts that stay.
LEMMA OrderedBelow ==
    ASSUME StackInv, NEW n \in Nat, n <= Depth, SameUpTo(n)
    PROVE  /\ \A i \in 1..n : NewestLast(stack'[i]) /\ CallsOf(stack'[i]) = CallsOf(stack[i])
           /\ \A i, j \in 1..n : i < j =>
                 \A r \in CallsOf(stack'[i]), q \in CallsOf(stack'[j]) : r.span < q.span
<1>1. \A i \in 1..n : i \in 1..Depth /\ Same(stack[i], stack'[i])
  BY TopFacts DEF StackInv, SameUpTo
<1>2. \A i \in 1..n : NewestLast(stack'[i]) /\ CallsOf(stack'[i]) = CallsOf(stack[i])
  <2> TAKE i \in 1..n
  <2>1. NewestLast(stack[i])
    BY <1>1 DEF StackInv, Ordered
  <2>2. QED  BY <1>1, <2>1, SameIsSame
<1>3. \A i, j \in 1..n : i < j =>
         \A r \in CallsOf(stack[i]), q \in CallsOf(stack[j]) : r.span < q.span
  BY <1>1 DEF StackInv, Ordered
<1>4. QED  BY <1>2, <1>3

\* A context on top whose calls are newer than those of the contexts below it.
LEMMA OrderedOnTop ==
    ASSUME StackInv, NEW n \in Nat, n <= Depth, SameUpTo(n), Depth' = n + 1,
           NewestLast(stack'[n + 1]),
           \A i \in 1..n : \A r \in CallsOf(stack[i]), q \in CallsOf(stack'[n + 1]) :
              r.span < q.span
    PROVE  Ordered'
<1>1. /\ \A i \in 1..n : NewestLast(stack'[i]) /\ CallsOf(stack'[i]) = CallsOf(stack[i])
      /\ \A i, j \in 1..n : i < j =>
            \A r \in CallsOf(stack'[i]), q \in CallsOf(stack'[j]) : r.span < q.span
  BY OrderedBelow
<1>2. \A i \in 1..(n + 1) : NewestLast(stack'[i])
  <2>1. \A i \in 1..(n + 1) : i \in 1..n \/ i = n + 1
    OBVIOUS
  <2>2. QED  BY <1>1, <2>1
<1>3. ASSUME NEW i \in 1..(n + 1), NEW j \in 1..(n + 1), i < j
      PROVE  \A r \in CallsOf(stack'[i]), q \in CallsOf(stack'[j]) : r.span < q.span
  <2>1. i \in 1..n /\ (j \in 1..n \/ j = n + 1)
    BY <1>3
  <2>2. QED  BY <1>1, <1>3, <2>1
<1>4. QED  BY <1>2, <1>3 DEF Ordered

\* The contexts that stay keep where their span and clock come from.
LEMMA InheritedBelow ==
    ASSUME StackInv, NEW n \in Nat, n <= Depth,
           \A i \in 1..n : /\ stack'[i].kind = stack[i].kind
                           /\ stack'[i].span = stack[i].span /\ stack'[i].clock = stack[i].clock
    PROVE  \A i \in 1..n : stack'[i].span # 0 =>
              \E j \in 1..i : /\ stack'[j].kind = "call"
                              /\ stack'[j].span = stack'[i].span
                              /\ stack'[j].clock = stack'[i].clock
<1> SUFFICES ASSUME NEW i \in 1..n, stack'[i].span # 0
             PROVE  \E j \in 1..i : /\ stack'[j].kind = "call"
                                    /\ stack'[j].span = stack'[i].span
                                    /\ stack'[j].clock = stack'[i].clock
  OBVIOUS
<1>1. i \in 1..Depth /\ \A j \in 1..i : j \in 1..n
  BY TopFacts DEF StackInv
<1>2. PICK j \in 1..i : /\ stack[j].kind = "call"
                        /\ stack[j].span = stack[i].span /\ stack[j].clock = stack[i].clock
  BY <1>1 DEF StackInv, Inherited
<1>3. QED  BY <1>1, <1>2

LEMMA NextStackInv == StackInv /\ [Next]_vars => StackInv'
<1> SUFFICES ASSUME StackInv, [Next]_vars PROVE StackInv'
  OBVIOUS
<1>0. /\ TypeInv /\ TypeInv' /\ Depth \in Nat /\ Depth >= 1 /\ Len(spans) \in Nat
      /\ Top \in Contexts
  BY NextTypeInv, TopFacts DEF StackInv
<1>1. \A i \in 1..Depth : \A r \in CallsOf(stack[i]) : r.span \in 1..Len(spans)
  BY <1>0, CallTypes
<1>2. ASSUME NEW n \in Nat, n <= Depth, SameUpTo(n), Depth' = n
      PROVE  StackInv'
  <2>1. Ordered'
    BY <1>2, OrderedBelow DEF Ordered
  <2>2. Inherited'
    BY <1>2, InheritedBelow DEF Inherited, SameUpTo, Same
  <2>3. QED  BY <1>0, <2>1, <2>2 DEF StackInv
<1>3. ASSUME NEW log \in LogSetting, Call(log)
      PROVE  StackInv'
  <2>1. /\ Depth' = Depth + 1 /\ SameUpTo(Depth) /\ stack'[Depth + 1] = WorkCtx(log)
        /\ NewestLast(WorkCtx(log))
        /\ \A q \in CallsOf(WorkCtx(log)) : q.span = Len(spans) + 1
    BY <1>0, <1>3, CallStarts DEF PushedOn
  <2>2. \A i \in 1..Depth : \A r \in CallsOf(stack[i]), q \in CallsOf(stack'[Depth + 1]) :
           r.span < q.span
    BY <1>0, <1>1, <2>1
  <2>3. Ordered'
    BY <1>0, <2>1, <2>2, OrderedOnTop
  <2>4. \A i \in 1..Depth : stack'[i].span # 0 =>
              \E j \in 1..i : /\ stack'[j].kind = "call"
                              /\ stack'[j].span = stack'[i].span
                              /\ stack'[j].clock = stack'[i].clock
    BY <1>0, <2>1, InheritedBelow DEF SameUpTo, Same
  <2>5. stack'[Depth + 1].kind = "call"
    BY <1>0, <2>1, WorkCtxTypes
  <2>6. \A i \in 1..(Depth + 1) : i \in 1..i /\ (i \in 1..Depth \/ i = Depth + 1)
    BY <1>0
  <2>7. Inherited'
    BY <2>1, <2>4, <2>5, <2>6 DEF Inherited
  <2>8. QED  BY <1>0, <2>3, <2>7 DEF StackInv
<1>4. ASSUME OpenBranch
      PROVE  StackInv'
  <2>1. Depth' = Depth + 1 /\ SameUpTo(Depth) /\ stack'[Depth + 1] = BranchCtx
    BY <1>0, <1>4, PushMoves DEF OpenBranch, PushedOn
  <2>2. /\ BranchCtx.kind = "branch" /\ BranchCtx.ignoring = <<>>
        /\ BranchCtx.span = Top.span /\ BranchCtx.clock = Top.clock
    BY <1>0 DEF BranchCtx, Contexts
  <2>3. CallsOf(BranchCtx) = {} /\ NewestLast(BranchCtx)
    BY <2>2 DEF CallsOf, NewestLast
  <2>4. Ordered'
    BY <1>0, <2>1, <2>3, OrderedOnTop
  <2>5. \A i \in 1..Depth : stack'[i].span # 0 =>
              \E j \in 1..i : /\ stack'[j].kind = "call"
                              /\ stack'[j].span = stack'[i].span
                              /\ stack'[j].clock = stack'[i].clock
    BY <1>0, <2>1, InheritedBelow DEF SameUpTo, Same
  <2>6. stack'[Depth].span = Top.span /\ stack'[Depth].clock = Top.clock
    BY <1>0, <2>1 DEF SameUpTo, Same, Top
  <2>7. stack'[Depth + 1].span # 0 =>
           \E j \in 1..Depth : /\ stack'[j].kind = "call"
                               /\ stack'[j].span = stack'[Depth + 1].span
                               /\ stack'[j].clock = stack'[Depth + 1].clock
    <3>1. Depth \in 1..Depth
      BY <1>0
    <3>2. QED  BY <2>1, <2>2, <2>5, <2>6, <3>1
  <2>8. /\ \A i \in 1..(Depth + 1) : i \in 1..Depth \/ i = Depth + 1
        /\ \A j \in 1..Depth : j \in 1..(Depth + 1)
    BY <1>0
  <2>9. Inherited'
    BY <2>1, <2>5, <2>7, <2>8 DEF Inherited
  <2>10. QED  BY <1>0, <2>4, <2>9 DEF StackInv
<1>5. ASSUME CallIgnoring \/ \E failed \in BOOLEAN : ReturnIgnoring(failed)
      PROVE  StackInv'
  <2>1. /\ Depth' = Depth /\ SameUpTo(Depth - 1) /\ NewestLast(stack'[Depth])
        /\ stack'[Depth].kind = Top.kind /\ stack'[Depth].span = Top.span
        /\ stack'[Depth].clock = Top.clock
        /\ \A q \in CallsOf(stack'[Depth]) : q \in CallsOf(Top) \/ q.span = Len(spans) + 1
    <3>1. CASE CallIgnoring
      <4>1. /\ Depth' = Depth /\ SameUpTo(Depth - 1) /\ NewestLast(stack'[Depth])
            /\ stack'[Depth].kind = Top.kind /\ stack'[Depth].span = Top.span
            /\ stack'[Depth].clock = Top.clock
            /\ CallsOf(stack'[Depth]) = CallsOf(Top)
                 \cup {[span |-> Len(spans) + 1, clock |-> ClockOf(Top.clock, sys, BlockTime)]}
        BY <3>1, IgnoringStarts
      <4>2. QED  BY <4>1
    <3>2. ASSUME NEW failed \in BOOLEAN, ReturnIgnoring(failed)
          PROVE  /\ Depth' = Depth /\ SameUpTo(Depth - 1) /\ NewestLast(stack'[Depth])
                 /\ stack'[Depth].kind = Top.kind /\ stack'[Depth].span = Top.span
                 /\ stack'[Depth].clock = Top.clock
                 /\ \A q \in CallsOf(stack'[Depth]) : q \in CallsOf(Top)
      <4>1. /\ Depth' = Depth /\ SameUpTo(Depth - 1) /\ NewestLast(stack'[Depth])
            /\ stack'[Depth].kind = Top.kind /\ stack'[Depth].span = Top.span
            /\ stack'[Depth].clock = Top.clock
            /\ \E r : CallsOf(Top) = CallsOf(stack'[Depth]) \cup {r}
        BY <3>2, IgnoringEnds
      <4>2. QED  BY <4>1
    <3>3. QED  BY <1>5, <3>1, <3>2
  <2>2. ASSUME NEW i \in 1..(Depth - 1), NEW r \in CallsOf(stack[i]),
               NEW q \in CallsOf(stack'[Depth])
        PROVE  r.span < q.span
    <3>1. i \in 1..Depth /\ Depth \in 1..Depth /\ i < Depth
      BY <1>0
    <3>2. CASE q \in CallsOf(Top)
      BY <3>1, <3>2 DEF StackInv, Ordered, Top
    <3>3. CASE q.span = Len(spans) + 1
      <4>1. r.span \in 1..Len(spans)
        BY <1>1, <3>1
      <4>2. QED  BY <1>0, <3>3, <4>1
    <3>4. QED  BY <2>1, <3>2, <3>3
  <2>3. Depth - 1 \in Nat /\ Depth - 1 <= Depth /\ (Depth - 1) + 1 = Depth
    BY <1>0
  <2> DEFINE n == Depth - 1
  <2>4. Ordered'
    <3>1. Depth' = n + 1 /\ NewestLast(stack'[n + 1]) /\ n \in Nat /\ n <= Depth /\ SameUpTo(n)
          /\ \A i \in 1..n : \A r \in CallsOf(stack[i]), q \in CallsOf(stack'[n + 1]) :
                r.span < q.span
      BY <2>1, <2>2, <2>3
    <3> HIDE DEF n
    <3>2. QED  BY <3>1, OrderedOnTop
  <2>5. \A i \in 1..Depth : /\ stack'[i].kind = stack[i].kind
                            /\ stack'[i].span = stack[i].span /\ stack'[i].clock = stack[i].clock
    <3>1. \A i \in 1..Depth : i \in 1..(Depth - 1) \/ i = Depth
      BY <1>0
    <3>2. QED  BY <2>1, <3>1 DEF SameUpTo, Same, Top
  <2>6. Inherited'
    BY <1>0, <2>1, <2>5, InheritedBelow, SMTT(40) DEF Inherited
  <2>7. QED  BY <1>0, <2>4, <2>6 DEF StackInv
<1>6. ASSUME Quiet \/ Abort
      PROVE  StackInv'
  BY <1>0, <1>2, <1>6, AbortEnds DEF Quiet, StackKept
<1>7. ASSUME Pop
      PROVE  StackInv'
  <2>1. Depth - 1 \in Nat /\ Depth - 1 <= Depth /\ SameUpTo(Depth - 1) /\ Depth' = Depth - 1
    BY <1>0, <1>7, PopEnds DEF PoppedOff
  <2>2. QED  BY <1>2, <2>1
<1>8. QED  BY <1>0, <1>3, <1>4, <1>5, <1>6, <1>7, StepCases
-----------------------------------------------------------------------------
(* The calls in progress *)

\* An aborted program has left its calls; until then a call is in progress as
\* long as a context is to finish it.
CallsRunning ==
    IF mode = "aborted" THEN {} ELSE UNION {CallsOf(stack[i]) : i \in 1..Depth}

LEMMA RunningCalls ==
    ASSUME StackInv
    PROVE  /\ \A r \in CallsRunning : \E i \in 1..Depth : r \in CallsOf(stack[i])
           /\ \A r \in CallsRunning : r.span \in 1..Len(spans) /\ r.clock \in Clocks
           /\ \A r, q \in CallsRunning : r.span = q.span => r = q
<1>1. \A r \in CallsRunning : \E i \in 1..Depth : r \in CallsOf(stack[i])
  BY DEF CallsRunning
<1>2. \A r \in CallsRunning : r.span \in 1..Len(spans) /\ r.clock \in Clocks
  BY <1>1, CallTypes DEF StackInv
<1>3. ASSUME NEW r \in CallsRunning, NEW q \in CallsRunning, r.span = q.span
      PROVE  r = q
  <2>1. PICK i \in 1..Depth : r \in CallsOf(stack[i])
    BY <1>1
  <2>2. PICK j \in 1..Depth : q \in CallsOf(stack[j])
    BY <1>1
  <2>3. r.span \in Nat /\ q.span \in Nat /\ Depth \in Nat
    BY <1>2, TopFacts DEF StackInv
  <2>4. ~(i < j) /\ ~(j < i)
    <3>1. i < j => r.span < q.span
      BY <2>1, <2>2 DEF StackInv, Ordered
    <3>2. j < i => q.span < r.span
      BY <2>1, <2>2 DEF StackInv, Ordered
    <3>3. QED  BY <1>3, <2>3, <3>1, <3>2
  <2>5. i = j
    BY <2>3, <2>4
  <2> DEFINE c == stack[i]
             own == [span |-> c.span, clock |-> c.clock]
  <2>6. NewestLast(c)
    BY DEF StackInv, Ordered
  <2>7. c.ignoring \in Seq(IgnoringCalls)
    <3>1. c \in Contexts
      BY TopFacts DEF StackInv, Depth
    <3>2. QED  BY <3>1 DEF Contexts
  <2>8. own.span = c.span
    OBVIOUS
  <2>9. /\ (\E a \in 1..Len(c.ignoring) : r = c.ignoring[a]) \/ (c.kind = "call" /\ r = own)
        /\ (\E a \in 1..Len(c.ignoring) : q = c.ignoring[a]) \/ (c.kind = "call" /\ q = own)
    BY <2>1, <2>2, <2>5 DEF CallsOf
  <2> HIDE DEF c, own
  <2>10. Len(c.ignoring) \in Nat
    BY <2>7
  <2>11. ASSUME NEW a \in 1..Len(c.ignoring), c.kind = "call"
         PROVE  own.span < c.ignoring[a].span
    BY <2>6, <2>8, <2>11 DEF NewestLast
  <2>12. ASSUME NEW a \in 1..Len(c.ignoring), NEW b \in 1..Len(c.ignoring), a < b
         PROVE  c.ignoring[a].span < c.ignoring[b].span
    <3>1. a \in 1..(b - 1)
      BY <2>10, <2>12
    <3>2. QED  BY <2>6, <3>1 DEF NewestLast
  <2>13. ASSUME NEW a \in 1..Len(c.ignoring), NEW b \in 1..Len(c.ignoring),
                r = c.ignoring[a], q = c.ignoring[b]
         PROVE  r = q
    <3>1. ~(a < b) /\ ~(b < a)
      BY <1>3, <2>3, <2>12, <2>13
    <3>2. a = b
      BY <2>10, <3>1
    <3>3. QED  BY <2>13, <3>2
  <2>14. ASSUME NEW a \in 1..Len(c.ignoring), c.kind = "call"
         PROVE  /\ ~(r = own /\ q = c.ignoring[a])
                /\ ~(q = own /\ r = c.ignoring[a])
    BY <1>3, <2>3, <2>11, <2>14
  <2>15. QED  BY <2>9, <2>13, <2>14
<1>4. QED  BY <1>1, <1>2, <1>3

\* The span the running context hands to its calls is that of a call in
\* progress, and so is the clock.
LEMMA ParentRunning ==
    ASSUME StackInv, mode # "aborted", Top.span # 0
    PROVE  [span |-> Top.span, clock |-> Top.clock] \in CallsRunning
<1>1. Depth \in 1..Depth
  BY TopFacts DEF StackInv
<1>2. PICK j \in 1..Depth : /\ stack[j].kind = "call"
                            /\ stack[j].span = Top.span /\ stack[j].clock = Top.clock
  BY <1>1 DEF StackInv, Inherited, Top
<1>3. [span |-> Top.span, clock |-> Top.clock] \in CallsOf(stack[j])
  BY <1>2 DEF CallsOf
<1>4. QED  BY <1>3 DEF CallsRunning

\* A step keeps the calls in progress, starts one, or ends the newest ones.
CallsKept ==
    /\ CallsRunning' = CallsRunning /\ SpansKept /\ sys' >= sys
    /\ mode' = "done" /\ mode # "done" => CallsRunning = {}

CallStarted ==
    /\ \E log \in LogSetting : StartSpan(log)
    /\ CallsRunning' = CallsRunning
          \cup {[span |-> Len(spans) + 1, clock |-> ClockOf(Top.clock, sys, BlockTime)]}

CallsEnded(ended) ==
    /\ CallsRunning = CallsRunning' \cup ended
    /\ \A q \in CallsRunning', e \in ended : q.span < e.span
    /\ EndsCalls(ended)
    /\ mode' # "done"

LEMMA CallSteps ==
    ASSUME StackInv, [Next]_vars
    PROVE  CallsKept \/ CallStarted \/ \E ended : CallsEnded(ended)
<1>0. /\ TypeInv /\ Depth \in Nat /\ Depth >= 1 /\ Depth \in 1..Depth
      /\ Len(spans) \in Nat /\ Top = stack[Depth] /\ sys \in Nat /\ Top \in Contexts
  BY TopFacts DEF StackInv, TypeInv, TypeOK, Top
<1>1. ASSUME NEW n \in Nat, n <= Depth, SameUpTo(n)
      PROVE  \A i \in 1..n : CallsOf(stack'[i]) = CallsOf(stack[i])
  BY <1>1, OrderedBelow
<1>2. CASE Quiet
  <2>1. \A i \in 1..Depth : CallsOf(stack'[i]) = CallsOf(stack[i])
    BY <1>0, <1>1, <1>2 DEF Quiet, StackKept
  <2>2. CallsRunning' = CallsRunning
    BY <1>2, <2>1 DEF Quiet, StackKept, CallsRunning
  <2>3. mode' = "done" /\ mode # "done" => CallsRunning = {}
    BY <1>0, <1>2 DEF Quiet, CallsRunning
  <2>4. QED  BY <1>2, <2>2, <2>3 DEF Quiet, CallsKept
<1>3. ASSUME OpenBranch
      PROVE  CallsKept
  <2>1. Depth' = Depth + 1 /\ SameUpTo(Depth) /\ stack'[Depth + 1] = BranchCtx
    BY <1>0, <1>3, PushMoves DEF OpenBranch, PushedOn
  <2>2. CallsOf(BranchCtx) = {}
    <3>1. BranchCtx.kind = "branch" /\ BranchCtx.ignoring = <<>>
      BY <1>0 DEF BranchCtx, Contexts
    <3>2. QED  BY <3>1 DEF CallsOf
  <2>3. \A i \in 1..Depth : CallsOf(stack'[i]) = CallsOf(stack[i])
    BY <1>0, <1>1, <2>1
  <2>4. UNCHANGED <<spans, sys, mode>> /\ mode = "run"
    BY <1>3 DEF OpenBranch, Step, Running
  <2>5. CallsRunning' = CallsRunning
    <3>1. \A i \in 1..(Depth + 1) : i \in 1..Depth \/ i = Depth + 1
      BY <1>0
    <3>2. \A i \in 1..Depth : i \in 1..(Depth + 1)
      BY <1>0
    <3>3. QED  BY <2>1, <2>2, <2>3, <2>4, <3>1, <3>2 DEF CallsRunning
  <2>6. QED  BY <1>0, <2>4, <2>5 DEF CallsKept, SpansKept, SpanKept
<1> DEFINE r == [span |-> Len(spans) + 1, clock |-> ClockOf(Top.clock, sys, BlockTime)]
<1>4. ASSUME NEW log \in LogSetting, Call(log)
      PROVE  CallStarted
  <2>1. /\ Depth' = Depth + 1 /\ SameUpTo(Depth) /\ stack'[Depth + 1] = WorkCtx(log)
        /\ StartSpan(log) /\ CallsOf(stack'[Depth + 1]) = {r}
    BY <1>0, <1>4, CallStarts DEF PushedOn
  <2>2. mode = "run" /\ mode' = "run"
    BY <2>1 DEF StartSpan, Step, Running
  <2>3. \A i \in 1..Depth : CallsOf(stack'[i]) = CallsOf(stack[i])
    BY <1>0, <1>1, <2>1
  <2> HIDE DEF r
  <2>4. CallsRunning' = CallsRunning \cup {r}
    <3>1. \A i \in 1..(Depth + 1) : i \in 1..Depth \/ i = Depth + 1
      BY <1>0
    <3>2. (Depth + 1) \in 1..(Depth + 1) /\ \A i \in 1..Depth : i \in 1..(Depth + 1)
      BY <1>0
    <3>3. QED  BY <2>1, <2>2, <2>3, <3>1, <3>2 DEF CallsRunning
  <2>5. QED  BY <2>1, <2>4 DEF CallStarted, r
<1>5. ASSUME CallIgnoring
      PROVE  CallStarted
  <2>1. /\ Depth' = Depth /\ SameUpTo(Depth - 1) /\ StartSpan("all")
        /\ CallsOf(stack'[Depth]) = CallsOf(Top) \cup {r}
    BY <1>5, IgnoringStarts
  <2>2. mode = "run" /\ mode' = "run"
    BY <2>1 DEF StartSpan, Step, Running
  <2>3. \A i \in 1..(Depth - 1) : CallsOf(stack'[i]) = CallsOf(stack[i])
    BY <1>0, <1>1, <2>1
  <2> HIDE DEF r
  <2>4. CallsRunning' = CallsRunning \cup {r}
    <3>1. \A i \in 1..Depth : i \in 1..(Depth - 1) \/ i = Depth
      BY <1>0
    <3>2. QED  BY <1>0, <2>1, <2>2, <2>3, <3>1 DEF CallsRunning
  <2>5. "all" \in LogSetting
    BY DEF LogSetting
  <2>6. QED  BY <2>1, <2>4, <2>5 DEF CallStarted, r
<1>6. ASSUME NEW failed \in BOOLEAN, ReturnIgnoring(failed)
      PROVE  \E ended : CallsEnded(ended)
  <2>1. PICK e : /\ CallsOf(Top) = CallsOf(stack'[Depth]) \cup {e}
                 /\ \A q \in CallsOf(stack'[Depth]) : q.span < e.span
                 /\ EndsCalls({e})
    BY <1>6, IgnoringEnds
  <2>2. Depth' = Depth /\ SameUpTo(Depth - 1) /\ mode' = mode /\ mode = "run"
    BY <1>6, IgnoringEnds
  <2>3. \A i \in 1..(Depth - 1) : CallsOf(stack'[i]) = CallsOf(stack[i])
    BY <1>0, <1>1, <2>2
  <2>4. \A i \in 1..Depth : i \in 1..(Depth - 1) \/ i = Depth
    BY <1>0
  <2>5. CallsRunning = CallsRunning' \cup {e}
    BY <1>0, <2>1, <2>2, <2>3, <2>4 DEF CallsRunning
  <2>6. ASSUME NEW q \in CallsRunning'
        PROVE  q.span < e.span
    <3>1. PICK i \in 1..Depth : q \in CallsOf(stack'[i])
      BY <2>2 DEF CallsRunning
    <3>2. CASE i = Depth
      BY <2>1, <3>1, <3>2
    <3>3. CASE i \in 1..(Depth - 1)
      <4>1. q \in CallsOf(stack[i]) /\ i < Depth /\ e \in CallsOf(stack[Depth])
        BY <1>0, <2>1, <2>3, <3>1, <3>3
      <4>2. QED  BY <1>0, <4>1 DEF StackInv, Ordered
    <3>4. QED  BY <2>4, <3>2, <3>3
  <2>7. CallsEnded({e})
    BY <2>1, <2>2, <2>5, <2>6 DEF CallsEnded
  <2>8. QED  BY <2>7
<1>7. ASSUME Pop
      PROVE  CallsEnded(CallsOf(Top))
  <2>1. /\ Depth' = Depth - 1 /\ SameUpTo(Depth - 1) /\ EndsCalls(CallsOf(Top))
        /\ mode' \in {"run", "panic"} /\ mode \in {"run", "panic"}
    BY <1>0, <1>7, PopEnds DEF PoppedOff
  <2>2. \A i \in 1..(Depth - 1) : CallsOf(stack'[i]) = CallsOf(stack[i])
    BY <1>0, <1>1, <2>1
  <2>3. /\ \A i \in 1..Depth : i \in 1..(Depth - 1) \/ i = Depth
        /\ \A i \in 1..(Depth - 1) : i \in 1..Depth /\ i < Depth
    BY <1>0
  <2>4. CallsRunning = CallsRunning' \cup CallsOf(Top)
    BY <1>0, <2>1, <2>2, <2>3 DEF CallsRunning
  <2>5. ASSUME NEW q \in CallsRunning', NEW e \in CallsOf(Top)
        PROVE  q.span < e.span
    <3>1. PICK i \in 1..(Depth - 1) : q \in CallsOf(stack[i])
      BY <2>1, <2>2 DEF CallsRunning
    <3>2. QED  BY <1>0, <2>3, <3>1 DEF StackInv, Ordered
  <2>6. QED  BY <2>1, <2>4, <2>5 DEF CallsEnded
<1>8. ASSUME Abort
      PROVE  CallsEnded(CallsOf(Top))
  <2>1. /\ Depth = 1 /\ EndsCalls(CallsOf(Top)) /\ mode = "panic" /\ mode' = "aborted"
    BY <1>0, <1>8, AbortEnds
  <2>2. CallsRunning = CallsOf(Top) /\ CallsRunning' = {}
    BY <1>0, <2>1 DEF CallsRunning
  <2>3. QED  BY <2>1, <2>2 DEF CallsEnded
<1>9. QED  BY <1>0, <1>2, <1>3, <1>4, <1>5, <1>6, <1>7, <1>8, StepCases
-----------------------------------------------------------------------------
(* What the spans say about their calls *)

\* A span is open exactly as long as its call is in progress.
OpenOK ==
    /\ \A s \in 1..Len(spans) :
          spans[s].state = "open" <=> \E r \in CallsRunning : r.span = s
    /\ mode = "done" => CallsRunning = {}

\* A child is newer than its parent, and the two of them read one clock.
ParentOK ==
    /\ \A s \in 1..Len(spans) : spans[s].parent < s
    /\ \A r, q \in CallsRunning : spans[q.span].parent = r.span => q.clock = r.clock

\* What happened within a call in progress is past by the clock of the call.
PastOK ==
    \A r \in CallsRunning :
        /\ spans[r.span].start <= Now(r.clock, sys)
        /\ \A s \in 1..Len(spans) :
              spans[s].parent = r.span /\ spans[s].state = "finished" =>
                 spans[s].finish <= Now(r.clock, sys)

\* ChildWithinParent for the span c.
WithinParent(c) ==
    /\ spans[c].state = "finished" => spans[c].start <= spans[c].finish
    /\ LET p == spans[c].parent IN
       p # 0 =>
          /\ spans[p].start <= spans[c].start
          /\ spans[p].state = "finished" => spans[c].state # "open"
          /\ spans[p].state = "finished" /\ spans[c].state = "finished" =>
                spans[c].finish <= spans[p].finish

SpanInv ==
    /\ StackInv
    /\ OpenOK
    /\ ParentOK
    /\ PastOK
    /\ \A c \in 1..Len(spans) : WithinParent(c)

LEMMA InitSpanInv == Init => SpanInv
<1> SUFFICES ASSUME Init PROVE SpanInv
  OBVIOUS
<1>1. StackInv
  BY InitStackInv
<1>2. spans = <<>> /\ Len(spans) = 0 /\ mode = "run"
  BY DEF Init
<1>3. CallsRunning = {}
  <2>1. Depth = 1 /\ stack[1].ignoring = <<>> /\ stack[1].kind = "root"
    BY DEF Init, Depth
  <2>2. CallsOf(stack[1]) = {}
    BY <2>1 DEF CallsOf
  <2>3. QED  BY <2>1, <2>2 DEF CallsRunning
<1>4. QED  BY <1>1, <1>2, <1>3 DEF SpanInv, OpenOK, ParentOK, PastOK

\* The times and numbers the proofs compute with.
LEMMA SpanTypes ==
    ASSUME TypeInv
    PROVE  /\ Len(spans) \in Nat /\ sys \in Int
           /\ \A s \in 1..Len(spans) :
                 /\ spans[s].parent \in Nat /\ spans[s].start \in Int /\ spans[s].finish \in Int
                 /\ spans[s].state \in {"open", "finished", "lost"}
           /\ \A clock \in Clocks : Now(clock, sys) \in Int
<1>1. \A s \in 1..Len(spans) : spans[s] \in Spans
  BY TopFacts
<1>2. \A clock \in Clocks : Now(clock, sys) \in Int
  BY DEF TypeInv, TypeOK, Clocks, Now
<1>3. Len(spans) \in Nat /\ sys \in Int
  BY TopFacts DEF TypeInv, TypeOK
<1>4. \A s \in 1..Len(spans) :
         /\ spans[s].parent \in Nat /\ spans[s].start \in Int /\ spans[s].finish \in Int
         /\ spans[s].state \in {"open", "finished", "lost"}
  BY <1>1 DEF Spans
<1>5. QED  BY <1>2, <1>3, <1>4

LEMMA SpansWhenKept ==
    ASSUME SpanInv, TypeInv', CallsKept
    PROVE  OpenOK' /\ ParentOK' /\ PastOK' /\ \A c \in 1..Len(spans') : WithinParent(c)'
<1>1. /\ CallsRunning' = CallsRunning /\ Len(spans') = Len(spans) /\ sys' >= sys
      /\ \A s \in 1..Len(spans) :
            /\ spans'[s].parent = spans[s].parent /\ spans'[s].state = spans[s].state
            /\ spans'[s].start = spans[s].start /\ spans'[s].finish = spans[s].finish
  BY DEF CallsKept, SpansKept, SpanKept
<1>2. /\ Len(spans) \in Nat /\ sys \in Int /\ sys' \in Int
      /\ \A s \in 1..Len(spans) :
            /\ spans[s].parent \in Nat /\ spans[s].start \in Int /\ spans[s].finish \in Int
      /\ \A r \in CallsRunning : r.span \in 1..Len(spans) /\ r.clock \in Clocks
      /\ \A clock \in Clocks : Now(clock, sys) \in Int
  BY SpanTypes, RunningCalls DEF SpanInv, StackInv, TypeInv, TypeOK
<1>3. OpenOK'
  BY <1>1 DEF OpenOK, SpanInv, CallsKept
<1>4. ParentOK'
  BY <1>1, <1>2 DEF ParentOK, SpanInv
<1>5. PastOK'
  <2>1. ASSUME NEW r \in CallsRunning
        PROVE  Now(r.clock, sys') \in Int /\ Now(r.clock, sys) <= Now(r.clock, sys')
    <3>1. r.clock \in Clocks
      BY <1>2
    <3>2. QED  BY <1>1, <1>2, <3>1 DEF Now, Clocks
  <2>2. ASSUME NEW r \in CallsRunning
        PROVE  spans'[r.span].start <= Now(r.clock, sys')
    <3>1. spans[r.span].start <= Now(r.clock, sys) /\ r.span \in 1..Len(spans)
          /\ Now(r.clock, sys) \in Int
      BY <1>2 DEF PastOK, SpanInv
    <3>2. spans'[r.span].start = spans[r.span].start /\ spans[r.span].start \in Int
      BY <1>1, <1>2, <3>1
    <3>3. QED  BY <2>1, <3>1, <3>2
  <2>3. ASSUME NEW r \in CallsRunning, NEW s \in 1..Len(spans),
               spans'[s].parent = r.span, spans'[s].state = "finished"
        PROVE  spans'[s].finish <= Now(r.clock, sys')
    <3>1. spans[s].parent = r.span /\ spans[s].state = "finished"
          /\ spans'[s].finish = spans[s].finish
      BY <1>1, <2>3
    <3>2. spans[s].finish <= Now(r.clock, sys)
      BY <3>1 DEF PastOK, SpanInv
    <3>3. spans[s].finish \in Int /\ Now(r.clock, sys) \in Int
      BY <1>2
    <3>4. QED  BY <2>1, <3>1, <3>2, <3>3
  <2>4. QED  BY <1>1, <2>2, <2>3 DEF PastOK
<1>6. ASSUME NEW c \in 1..Len(spans)
      PROVE  WithinParent(c)'
  <2>1. spans[c].parent # 0 => spans[c].parent \in 1..Len(spans)
    <3>1. spans[c].parent < c
      BY DEF SpanInv, ParentOK
    <3>2. QED  BY <1>2, <3>1
  <2>2. WithinParent(c)
    BY DEF SpanInv
  <2>3. QED  BY <1>1, <2>1, <2>2 DEF WithinParent
<1>7. QED  BY <1>1, <1>3, <1>4, <1>5, <1>6

LEMMA SpansWhenStarted ==
    ASSUME SpanInv, TypeInv', CallStarted
    PROVE  OpenOK' /\ ParentOK' /\ PastOK' /\ \A c \in 1..Len(spans') : WithinParent(c)'
<1> DEFINE n == Len(spans) + 1
           k == ClockOf(Top.clock, sys, BlockTime)
           new == [span |-> n, clock |-> k]
<1>0. TypeInv /\ StackInv
  BY DEF SpanInv, StackInv
<1>1. PICK log \in LogSetting : StartSpan(log)
  BY DEF CallStarted
<1>2. /\ Len(spans) \in Nat /\ Len(spans') = n /\ UNCHANGED <<sys, mode>> /\ mode = "run"
      /\ \A s \in 1..Len(spans) : spans'[s] = spans[s]
      /\ spans'[n].parent = Top.span /\ spans'[n].state = "open"
      /\ spans'[n].start = TimeOf(Top.clock, sys, BlockTime)
  BY <1>0, <1>1, StartFields
<1>3. new.span = n /\ new.clock = k
  OBVIOUS
<1>4. CallsRunning' = CallsRunning \cup {new}
  BY DEF CallStarted
<1>5. /\ \A s \in 1..Len(spans) : spans[s].parent \in Nat /\ spans[s].start \in Int
      /\ \A r \in CallsRunning : r.span \in 1..Len(spans) /\ r.clock \in Clocks
      /\ \A r, q \in CallsRunning : r.span = q.span => r = q
      /\ Top.clock \in Clocks \cup {NoClock} /\ Top.span \in Nat /\ sys \in Int
  BY <1>0, SpanTypes, RunningCalls, TopFacts DEF Contexts
<1>6. Now(k, sys) = TimeOf(Top.clock, sys, BlockTime) /\ Now(k, sys) \in Int
  <2>1. BlockTime \in Int
    BY ConstantsAssumption
  <2>2. CASE Top.clock = NoClock
    BY <1>5, <2>1, <2>2 DEF ClockOf, TimeOf, Now, NewBlockTimeClock
  <2>3. CASE Top.clock # NoClock
    BY <1>5, <2>3 DEF ClockOf, TimeOf, Now, Clocks
  <2>4. QED  BY <2>2, <2>3
<1>7. ASSUME Top.span # 0
      PROVE  /\ Top.span \in 1..Len(spans) /\ spans[Top.span].state = "open"
             /\ spans[Top.span].start <= Now(k, sys)
             /\ \A r \in CallsRunning : r.span = Top.span => r.clock = k
  <2> DEFINE p == [span |-> Top.span, clock |-> Top.clock]
  <2>1. p \in CallsRunning
    BY <1>0, <1>2, <1>7, ParentRunning
  <2>2. p.span = Top.span /\ p.clock = Top.clock
    OBVIOUS
  <2> HIDE DEF p
  <2>3. Top.span \in 1..Len(spans) /\ Top.clock \in Clocks
    BY <1>5, <2>1, <2>2
  <2>4. k = Top.clock
    BY <2>3, NoClockAssumption DEF ClockOf
  <2>5. spans[Top.span].state = "open"
    BY <2>1, <2>2, <2>3 DEF SpanInv, OpenOK
  <2>6. spans[Top.span].start <= Now(k, sys)
    BY <2>1, <2>2, <2>4 DEF SpanInv, PastOK
  <2>7. \A r \in CallsRunning : r.span = Top.span => r.clock = k
    BY <1>5, <2>1, <2>2, <2>4
  <2>8. QED  BY <2>3, <2>5, <2>6, <2>7
<1> HIDE DEF new, k
<1>8. \A s \in 1..n : s \in 1..Len(spans) \/ s = n
  BY <1>2
<1>9. OpenOK'
  <2>1. ASSUME NEW s \in 1..Len(spans)
        PROVE  spans'[s].state = "open" <=> \E r \in CallsRunning' : r.span = s
    <3>1. new.span # s
      BY <1>2, <1>3
    <3>2. spans[s].state = "open" <=> \E r \in CallsRunning : r.span = s
      BY DEF SpanInv, OpenOK
    <3>3. QED  BY <1>2, <1>4, <3>1, <3>2
  <2>2. spans'[n].state = "open" /\ \E r \in CallsRunning' : r.span = n
    BY <1>2, <1>3, <1>4
  <2>3. QED  BY <1>2, <1>8, <2>1, <2>2 DEF OpenOK
<1>10. \A s \in 1..n : spans'[s].parent < s
  <2>1. \A s \in 1..Len(spans) : spans[s].parent < s
    BY DEF SpanInv, ParentOK
  <2>2. Top.span < n
    BY <1>2, <1>5, <1>7
  <2>3. QED  BY <1>2, <1>8, <2>1, <2>2
<1>11. ParentOK'
  <2>1. ASSUME NEW r \in CallsRunning, NEW q \in CallsRunning, spans'[q.span].parent = r.span
        PROVE  q.clock = r.clock
    BY <1>2, <1>5, <2>1 DEF SpanInv, ParentOK
  <2>2. ASSUME NEW r \in CallsRunning, spans'[new.span].parent = r.span
        PROVE  new.clock = r.clock
    <3>1. r.span = Top.span /\ Top.span # 0
      BY <1>2, <1>3, <1>5, <2>2
    <3>2. QED  BY <1>3, <1>7, <3>1
  <2>3. ASSUME NEW q \in CallsRunning, spans'[q.span].parent = new.span
        PROVE  q.clock = new.clock
    <3>1. q.span \in 1..Len(spans) /\ spans[q.span].parent < q.span
      BY <1>5 DEF SpanInv, ParentOK
    <3>2. spans[q.span].parent = n
      BY <1>2, <1>3, <2>3, <3>1
    <3>3. QED  BY <1>2, <3>1, <3>2
  <2>4. QED  BY <1>2, <1>4, <1>10, <2>1, <2>2, <2>3 DEF ParentOK
<1>12. PastOK'
  <2>1. ASSUME NEW r \in CallsRunning
        PROVE  /\ spans'[r.span].start <= Now(r.clock, sys)
               /\ \A s \in 1..n :
                     spans'[s].parent = r.span /\ spans'[s].state = "finished" =>
                        spans'[s].finish <= Now(r.clock, sys)
    <3>1. r.span \in 1..Len(spans)
      BY <1>5
    <3>2. spans'[r.span].start <= Now(r.clock, sys)
      BY <1>2, <3>1 DEF SpanInv, PastOK
    <3>3. \A s \in 1..Len(spans) :
             spans'[s].parent = r.span /\ spans'[s].state = "finished" =>
                        spans'[s].finish <= Now(r.clock, sys)
      BY <1>2 DEF SpanInv, PastOK
    <3>4. QED  BY <1>2, <1>8, <3>2, <3>3
  <2>2. spans'[new.span].start <= Now(new.clock, sys)
    BY <1>2, <1>3, <1>6
  <2>3. \A s \in 1..n : spans'[s].parent # new.span
    <3>1. \A s \in 1..n : spans'[s].parent < s /\ spans'[s].parent \in Nat
      BY <1>2, <1>5, <1>8, <1>10
    <3>2. QED  BY <1>2, <1>3, <3>1
  <2>4. QED  BY <1>2, <1>4, <2>1, <2>2, <2>3 DEF PastOK
<1>13. ASSUME NEW c \in 1..n
       PROVE  WithinParent(c)'
  <2>1. CASE c \in 1..Len(spans)
    <3>1. WithinParent(c) /\ spans[c].parent < c /\ spans[c].parent \in Nat
      BY <1>5, <2>1 DEF SpanInv, ParentOK
    <3>2. spans[c].parent # 0 => spans[c].parent \in 1..Len(spans)
      BY <1>2, <2>1, <3>1
    <3>3. QED  BY <1>2, <2>1, <3>1, <3>2 DEF WithinParent
  <2>2. CASE c = n
    <3>1. Top.span # 0 =>
            /\ spans'[Top.span].start <= spans'[n].start
            /\ spans'[Top.span].state = "open"
      BY <1>2, <1>6, <1>7
    <3>2. QED  BY <1>2, <2>2, <3>1 DEF WithinParent
  <2>3. QED  BY <1>8, <2>1, <2>2
<1>14. QED  BY <1>2, <1>9, <1>11, <1>12, <1>13

LEMMA SpansWhenEnded ==
    ASSUME SpanInv, TypeInv', NEW ended, CallsEnded(ended)
    PROVE  OpenOK' /\ ParentOK' /\ PastOK' /\ \A c \in 1..Len(spans') : WithinParent(c)'
<1>1. /\ CallsRunning = CallsRunning' \cup ended
      /\ \A q \in CallsRunning', e \in ended : q.span < e.span
      /\ Len(spans') = Len(spans) /\ sys' = sys /\ mode' # "done"
  BY DEF CallsEnded, EndsCalls
<1>2. \A s \in 1..Len(spans) :
         /\ spans'[s].parent = spans[s].parent /\ spans'[s].start = spans[s].start
         /\ (\A r \in ended : r.span # s) =>
               spans'[s].state = spans[s].state /\ spans'[s].finish = spans[s].finish
         /\ \A r \in ended : r.span = s =>
               \/ spans'[s].state = "lost"
               \/ spans'[s].state = "finished" /\ spans'[s].finish = Now(r.clock, sys)
  BY DEF CallsEnded, EndsCalls
<1>3. /\ Len(spans) \in Nat /\ sys \in Int
      /\ \A s \in 1..Len(spans) :
            /\ spans[s].parent \in Nat /\ spans[s].start \in Int /\ spans[s].finish \in Int
      /\ \A r \in CallsRunning : r.span \in 1..Len(spans) /\ r.clock \in Clocks
      /\ \A r, q \in CallsRunning : r.span = q.span => r = q
      /\ \A r \in CallsRunning : Now(r.clock, sys) \in Int
  BY SpanTypes, RunningCalls DEF SpanInv, StackInv
<1>4. \A r \in ended : r \in CallsRunning /\ spans'[r.span].state # "open"
  BY <1>1, <1>2, <1>3
<1>5. ASSUME NEW r \in CallsRunning'
      PROVE  /\ r \in CallsRunning /\ \A e \in ended : e.span # r.span
             /\ spans'[r.span].state = spans[r.span].state
  <2>1. r \in CallsRunning /\ r.span \in 1..Len(spans)
    BY <1>1, <1>3
  <2>2. \A e \in ended : e.span # r.span
    <3>1. \A e \in ended : r.span < e.span /\ e.span \in Nat /\ r.span \in Nat
      BY <1>1, <1>3, <1>4, <2>1
    <3>2. QED  BY <3>1
  <2>3. QED  BY <1>2, <2>1, <2>2
<1>6. ASSUME NEW s \in 1..Len(spans)
      PROVE  spans'[s].state = "open" <=> \E r \in CallsRunning' : r.span = s
  <2>1. spans[s].state = "open" <=> \E r \in CallsRunning : r.span = s
    BY DEF SpanInv, OpenOK
  <2>2. CASE \E e \in ended : e.span = s
    <3>1. spans'[s].state # "open"
      BY <1>4, <2>2
    <3>2. ~ \E r \in CallsRunning' : r.span = s
      BY <1>5, <2>2
    <3>3. QED  BY <3>1, <3>2
  <2>3. CASE ~ \E e \in ended : e.span = s
    <3>1. spans'[s].state = spans[s].state
      BY <1>2, <2>3
    <3>2. (\E r \in CallsRunning : r.span = s) <=> (\E r \in CallsRunning' : r.span = s)
      BY <1>1, <2>3
    <3>3. QED  BY <2>1, <3>1, <3>2
  <2>4. QED  BY <2>2, <2>3
<1>7. OpenOK'
  BY <1>1, <1>6 DEF OpenOK
<1>8. ParentOK'
  <2>1. \A s \in 1..Len(spans) : spans'[s].parent < s
    BY <1>2 DEF SpanInv, ParentOK
  <2>2. ASSUME NEW r \in CallsRunning', NEW q \in CallsRunning', spans'[q.span].parent = r.span
        PROVE  q.clock = r.clock
    <3>1. r \in CallsRunning /\ q \in CallsRunning /\ q.span \in 1..Len(spans)
      BY <1>3, <1>5
    <3>2. spans[q.span].parent = r.span
      BY <1>2, <2>2, <3>1
    <3>3. QED  BY <3>1, <3>2 DEF SpanInv, ParentOK
  <2>3. QED  BY <1>1, <2>1, <2>2 DEF ParentOK
<1>9. \A r \in CallsRunning : \A s \in 1..Len(spans) :
         spans'[s].parent = r.span /\ spans'[s].state = "finished" =>
            spans'[s].finish <= Now(r.clock, sys)
  <2> SUFFICES ASSUME NEW r \in CallsRunning, NEW s \in 1..Len(spans),
                      spans'[s].parent = r.span, spans'[s].state = "finished"
               PROVE  spans'[s].finish <= Now(r.clock, sys)
    OBVIOUS
  <2>1. spans[s].parent = r.span
    BY <1>2
  <2>2. ASSUME NEW e \in ended, e.span = s
        PROVE  spans'[s].finish <= Now(r.clock, sys)
    <3>1. e \in CallsRunning /\ e.clock = r.clock
      BY <1>4, <2>1, <2>2 DEF SpanInv, ParentOK
    <3>2. spans'[s].finish = Now(e.clock, sys)
      BY <1>2, <2>2
    <3>3. QED  BY <1>3, <3>1, <3>2
  <2>3. CASE \A e \in ended : e.span # s
    <3>1. spans[s].state = "finished" /\ spans'[s].finish = spans[s].finish
      BY <1>2, <2>3
    <3>2. QED  BY <2>1, <3>1 DEF SpanInv, PastOK
  <2>4. QED  BY <2>2, <2>3
<1>10. PastOK'
  <2>1. ASSUME NEW r \in CallsRunning'
        PROVE  r \in CallsRunning /\ spans'[r.span].start <= Now(r.clock, sys)
    <3>1. r \in CallsRunning /\ r.span \in 1..Len(spans)
      BY <1>3, <1>5
    <3>2. spans[r.span].start <= Now(r.clock, sys)
      BY <3>1 DEF SpanInv, PastOK
    <3>3. QED  BY <1>2, <3>1, <3>2
  <2>2. QED  BY <1>1, <1>9, <2>1 DEF PastOK
<1>11. ASSUME NEW c \in 1..Len(spans)
       PROVE  WithinParent(c)'
  <2> DEFINE p == spans[c].parent
  <2>1. /\ WithinParent(c) /\ p < c /\ p \in Nat
        /\ spans'[c].parent = p /\ spans'[c].start = spans[c].start
    BY <1>2, <1>3 DEF SpanInv, ParentOK
  <2>2. p # 0 => p \in 1..Len(spans)
    BY <1>3, <2>1
  <2>3. spans'[c].state = "finished" => spans'[c].start <= spans'[c].finish
    <3>1. CASE \A e \in ended : e.span # c
      BY <1>2, <2>1, <3>1 DEF WithinParent
    <3>2. ASSUME NEW e \in ended, e.span = c, spans'[c].state = "finished"
          PROVE  spans'[c].start <= spans'[c].finish
      <4>1. spans'[c].finish = Now(e.clock, sys)
        BY <1>2, <3>2
      <4>2. spans[c].start <= Now(e.clock, sys)
        BY <1>4, <3>2 DEF SpanInv, PastOK
      <4>3. QED  BY <2>1, <4>1, <4>2
    <3>3. QED  BY <3>1, <3>2
  <2>4. p # 0 => spans'[p].start <= spans'[c].start
    <3>1. p # 0 => spans[p].start <= spans[c].start
      BY <2>1 DEF WithinParent
    <3>2. QED  BY <1>2, <2>1, <2>2, <3>1
  <2>5. ASSUME p # 0, spans'[p].state = "finished", NEW e \in ended, e.span = p
        PROVE  /\ spans'[c].state # "open"
               /\ spans'[c].state = "finished" => spans'[c].finish <= spans'[p].finish
    <3>1. spans'[p].finish = Now(e.clock, sys)
      BY <1>2, <2>2, <2>5
    <3>2. spans'[c].state = "finished" => spans'[c].finish <= Now(e.clock, sys)
      BY <1>4, <1>9, <2>1, <2>5
    <3>3. ASSUME spans'[c].state = "open"
          PROVE  FALSE
      <4>1. PICK q \in CallsRunning' : q.span = c
        BY <1>6, <3>3
      <4>2. c < p
        BY <1>1, <2>5, <4>1
      <4>3. QED  BY <2>1, <4>2
    <3>4. QED  BY <3>1, <3>2, <3>3
  <2>6. ASSUME p # 0, spans'[p].state = "finished", \A e \in ended : e.span # p
        PROVE  /\ spans'[c].state # "open"
               /\ spans'[c].state = "finished" => spans'[c].finish <= spans'[p].finish
    <3>1. spans[p].state = "finished" /\ spans'[p].finish = spans[p].finish
      BY <1>2, <2>2, <2>6
    <3>2. spans[c].state # "open"
      BY <2>1, <2>6, <3>1 DEF WithinParent
    <3>3. \A e \in ended : e.span # c
      BY <1>4, <3>2 DEF SpanInv, OpenOK
    <3>4. spans'[c].state = spans[c].state /\ spans'[c].finish = spans[c].finish
      BY <1>2, <3>3
    <3>5. QED  BY <2>1, <2>6, <3>1, <3>2, <3>4 DEF WithinParent
  <2> HIDE DEF p
  <2>7. QED  BY <2>1, <2>3, <2>4, <2>5, <2>6 DEF WithinParent
<1>12. QED  BY <1>1, <1>7, <1>8, <1>10, <1>11

LEMMA NextSpanInv == SpanInv /\ [Next]_vars => SpanInv'
<1> SUFFICES ASSUME SpanInv, [Next]_vars PROVE SpanInv'
  OBVIOUS
<1>1. StackInv' /\ TypeInv'
  BY NextStackInv DEF SpanInv, StackInv
<1>2. CallsKept \/ CallStarted \/ \E ended : CallsEnded(ended)
  BY CallSteps DEF SpanInv
<1>3. OpenOK' /\ ParentOK' /\ PastOK' /\ \A c \in 1..Len(spans') : WithinParent(c)'
  BY <1>1, <1>2, SpansWhenKept, SpansWhenStarted, SpansWhenEnded
<1>4. QED  BY <1>1, <1>3 DEF SpanInv

LEMMA SpansAlways == Spec => []SpanInv
  BY InitSpanInv, NextSpanInv, PTL DEF Spec

\* No span is left dangling: it is open exactly as long as its call is in
\* progress, and when the program ended, with an error or a panic or without,
\* every span was finished or given up (DoWithTracingAsync and its finish
\* closure, tracing.go:47-70).
THEOREM EverySpanSettles == Spec => []SpansSettle
<1>1. ASSUME SpanInv
      PROVE  SpansSettle
  <2>1. /\ stack \in Seq(Contexts) /\ spans \in Seq(Spans) /\ StackInv
        /\ DOMAIN stack = 1..Depth /\ DOMAIN spans = 1..Len(spans)
    BY <1>1, TopFacts DEF SpanInv, StackInv, Depth
  <2>2. \A s \in DOMAIN spans : spans[s].state = "open" <=> \E r \in CallsRunning : r.span = s
    BY <1>1, <2>1 DEF SpanInv, OpenOK
  <2>3. CASE Ended
    <3>1. CallsRunning = {}
      BY <1>1, <2>3 DEF SpanInv, OpenOK, Ended, CallsRunning
    <3>2. QED  BY <2>2, <2>3, <3>1 DEF SpansSettle
  <2>4. CASE ~Ended
    <3>1. \A s : s \in InProgress <=> \E i \in 1..Depth : \E r \in CallsOf(stack[i]) : r.span = s
      <4>1. \A i \in 1..Depth : stack[i].ignoring \in Seq(IgnoringCalls)
        <5>1. \A i \in 1..Depth : stack[i] \in Contexts
          BY <2>1 DEF Depth
        <5>2. QED  BY <5>1 DEF Contexts
      <4>2. \A i \in 1..Depth : \A s :
               (\E r \in CallsOf(stack[i]) : r.span = s)
                  <=> (s \in Ignoring(stack[i]) \/ (stack[i].kind = "call" /\ s = stack[i].span))
        BY <4>1, CallIds
      <4>3. \A s : s \in InProgress
                <=> \E i \in 1..Depth :
                       s \in Ignoring(stack[i]) \/ (stack[i].kind = "call" /\ s = stack[i].span)
        BY <2>1 DEF InProgress
      <4>4. ASSUME NEW s
            PROVE  (\E i \in 1..Depth : \E r \in CallsOf(stack[i]) : r.span = s)
                      <=> \E i \in 1..Depth :
                             s \in Ignoring(stack[i]) \/ (stack[i].kind = "call" /\ s = stack[i].span)
        BY <4>2
      <4>5. QED  BY <4>3, <4>4
    <3>2. \A s : s \in InProgress <=> \E r \in CallsRunning : r.span = s
      BY <2>4, <3>1 DEF CallsRunning, Ended
    <3>3. \A s \in InProgress : s \in DOMAIN spans
      BY <2>1, <3>2, RunningCalls
    <3>4. QED  BY <2>2, <2>4, <3>2, <3>3 DEF SpansSettle
  <2>5. QED  BY <2>3, <2>4
<1>2. QED  BY <1>1, SpansAlways, PTL

\* Every call lies within the call that made it, however long either of them
\* took and wherever their contexts came from (the clock that context.go:54-61
\* hands on).
THEOREM CallsNestInTime == Spec => []ChildWithinParent
<1>1. ASSUME SpanInv
      PROVE  ChildWithinParent
  <2>1. DOMAIN spans = 1..Len(spans)
    BY <1>1, TopFacts DEF SpanInv, StackInv
  <2>2. QED  BY <1>1, <2>1 DEF SpanInv, WithinParent, ChildWithinParent
<1>2. QED  BY <1>1, SpansAlways, PTL
-----------------------------------------------------------------------------
(* The meters and the store layers of the contexts *)

\* The contexts up to n keep what they were made with.
Keeps(n) ==
    \A i \in 1..n : /\ stack'[i].kind = stack[i].kind /\ stack'[i].span = stack[i].span
                    /\ stack'[i].ms = stack[i].ms /\ stack'[i].meters = stack[i].meters

\* A step leaves the contexts, drops the last one or adds one, which is a work
\* context or a branch; what a span logs is settled when it is started.
CtxsStay(n) == n <= Depth /\ Keeps(n) /\ Depth' = n

CtxAdded ==
    /\ Keeps(Depth) /\ Depth' = Depth + 1
    /\ \/ \E log \in LogSetting : StartSpan(log) /\ stack'[Depth + 1] = WorkCtx(log)
       \/ spans' = spans /\ stack'[Depth + 1] = BranchCtx

LogsStay ==
    /\ Len(spans') >= Len(spans)
    /\ \A s \in 1..Len(spans) : spans'[s].log = spans[s].log

LEMMA CtxSteps ==
    ASSUME StackInv, [Next]_vars
    PROVE  LogsStay /\ (CtxAdded \/ \E n \in Nat : CtxsStay(n))
<1>0. /\ TypeInv /\ Depth \in Nat /\ Depth >= 1 /\ Len(spans) \in Nat
      /\ Top = stack[Depth]
  BY TopFacts DEF StackInv, Top
<1>1. ASSUME NEW n \in Nat, SameUpTo(n)
      PROVE  Keeps(n)
  BY <1>1 DEF SameUpTo, Same, Keeps
<1>2. ASSUME NEW log \in LogSetting, StartSpan(log)
      PROVE  LogsStay
  BY <1>0, <1>2, StartFields DEF LogsStay
<1>3. ASSUME NEW ended, EndsCalls(ended)
      PROVE  LogsStay
  BY <1>0, <1>3 DEF EndsCalls, LogsStay
<1>4. CASE Quiet
  BY <1>0, <1>1, <1>4 DEF Quiet, StackKept, SpansKept, SpanKept, LogsStay, CtxsStay
<1>5. ASSUME NEW log \in LogSetting, Call(log)
      PROVE  LogsStay /\ CtxAdded
  <2>1. PushedOn(WorkCtx(log)) /\ StartSpan(log)
    BY <1>0, <1>5, CallStarts
  <2>2. QED  BY <1>0, <1>1, <1>2, <2>1 DEF PushedOn, CtxAdded
<1>6. ASSUME OpenBranch
      PROVE  LogsStay /\ CtxAdded
  <2>1. PushedOn(BranchCtx) /\ spans' = spans
    BY <1>0, <1>6, PushMoves DEF OpenBranch
  <2>2. QED  BY <1>0, <1>1, <2>1 DEF PushedOn, CtxAdded, LogsStay
<1>7. ASSUME Depth' = Depth, SameUpTo(Depth - 1),
             stack'[Depth].kind = Top.kind, stack'[Depth].span = Top.span,
             stack'[Depth].ms = Top.ms, stack'[Depth].meters = Top.meters
      PROVE  CtxsStay(Depth)
  <2>1. \A i \in 1..Depth : i \in 1..(Depth - 1) \/ i = Depth
    BY <1>0
  <2>2. QED  BY <1>0, <1>7, <2>1 DEF CtxsStay, Keeps, SameUpTo, Same
<1>8. ASSUME CallIgnoring
      PROVE  LogsStay /\ CtxsStay(Depth)
  <2>1. /\ Depth' = Depth /\ SameUpTo(Depth - 1)
        /\ stack'[Depth].kind = Top.kind /\ stack'[Depth].span = Top.span
        /\ stack'[Depth].ms = Top.ms /\ stack'[Depth].meters = Top.meters
        /\ StartSpan("all")
    BY <1>8, IgnoringStarts
  <2>2. "all" \in LogSetting
    BY DEF LogSetting
  <2>3. QED  BY <1>2, <1>7, <2>1, <2>2
<1>9. ASSUME NEW failed \in BOOLEAN, ReturnIgnoring(failed)
      PROVE  LogsStay /\ CtxsStay(Depth)
  <2>1. /\ Depth' = Depth /\ SameUpTo(Depth - 1)
        /\ stack'[Depth].kind = Top.kind /\ stack'[Depth].span = Top.span
        /\ stack'[Depth].ms = Top.ms /\ stack'[Depth].meters = Top.meters
        /\ \E r : EndsCalls({r})
    BY <1>9, IgnoringEnds
  <2>2. QED  BY <1>3, <1>7, <2>1
<1>10. ASSUME Pop
       PROVE  LogsStay /\ \E n \in Nat : CtxsStay(n)
  <2>1. Depth' = Depth - 1 /\ SameUpTo(Depth - 1) /\ EndsCalls(CallsOf(Top))
    BY <1>0, <1>10, PopEnds DEF PoppedOff
  <2>2. Depth - 1 \in Nat /\ Depth - 1 <= Depth
    BY <1>0
  <2>3. CtxsStay(Depth - 1)
    BY <1>1, <2>1, <2>2 DEF CtxsStay
  <2>4. QED  BY <1>3, <2>1, <2>2, <2>3
<1>11. ASSUME Abort
       PROVE  LogsStay /\ CtxsStay(Depth)
  <2>1. StackKept /\ EndsCalls(CallsOf(Top))
    BY <1>0, <1>11, AbortEnds
  <2>2. QED  BY <1>0, <1>1, <1>3, <2>1 DEF StackKept, CtxsStay
<1>12. QED
  BY <1>0, <1>4, <1>5, <1>6, <1>8, <1>9, <1>10, <1>11, StepCases
     DEF Quiet, StackKept, CtxsStay

\* The decorators around the gas meter of a context are those of the calls it
\* runs in.
MetersOK ==
    \A i \in 1..Depth : \A s :
        s \in stack[i].meters
           <=> \E j \in 1..i : stack[j].kind = "call" /\ stack[j].span = s

LEMMA InitMeters == Init => MetersOK
<1> SUFFICES ASSUME Init PROVE MetersOK
  OBVIOUS
<1>1. Depth = 1 /\ stack[1].kind = "root" /\ stack[1].meters = {}
  BY DEF Init, Depth
<1>2. QED  BY <1>1 DEF MetersOK

LEMMA NextMeters == StackInv /\ MetersOK /\ [Next]_vars => MetersOK'
<1> SUFFICES ASSUME StackInv, MetersOK, [Next]_vars PROVE MetersOK'
  OBVIOUS
<1>0. TypeInv /\ Depth \in Nat /\ Depth >= 1 /\ Depth \in 1..Depth /\ Top = stack[Depth]
      /\ Top \in Contexts
  BY TopFacts DEF StackInv, Top
<1>1. ASSUME NEW n \in Nat, n <= Depth, Keeps(n), NEW i \in 1..n, NEW s
      PROVE  s \in stack'[i].meters
                <=> \E j \in 1..i : stack'[j].kind = "call" /\ stack'[j].span = s
  <2>1. i \in 1..Depth /\ \A j \in 1..i : j \in 1..n
    BY <1>0, <1>1
  <2>2. s \in stack[i].meters <=> \E j \in 1..i : stack[j].kind = "call" /\ stack[j].span = s
    BY <2>1 DEF MetersOK
  <2>3. QED  BY <1>1, <2>1, <2>2 DEF Keeps
<1>2. ASSUME NEW n \in Nat, CtxsStay(n)
      PROVE  MetersOK'
  BY <1>1, <1>2 DEF CtxsStay, MetersOK
<1>3. ASSUME CtxAdded
      PROVE  MetersOK'
  <2> DEFINE c == stack'[Depth + 1]
  <2>1. \A i \in 1..Depth : \A s :
          s \in stack'[i].meters
             <=> \E j \in 1..i : stack'[j].kind = "call" /\ stack'[j].span = s
    BY <1>0, <1>1, <1>3 DEF CtxAdded
  <2>2. \A s : s \in Top.meters
             <=> \E j \in 1..Depth : stack'[j].kind = "call" /\ stack'[j].span = s
    <3>1. stack'[Depth].meters = Top.meters
      BY <1>0, <1>3 DEF CtxAdded, Keeps
    <3>2. QED  BY <1>0, <2>1, <3>1
  <2>3. \A s : s \in c.meters <=> (s \in Top.meters \/ (c.kind = "call" /\ c.span = s))
    <3>1. CASE \E log \in LogSetting : c = WorkCtx(log)
      BY <3>1 DEF WorkCtx
    <3>2. CASE c = BranchCtx
      BY <1>0, <3>2 DEF BranchCtx, Contexts
    <3>3. QED  BY <1>3, <3>1, <3>2 DEF CtxAdded
  <2>4. \A j \in 1..(Depth + 1) : j \in 1..Depth \/ j = Depth + 1
    BY <1>0
  <2>5. (Depth + 1) \in 1..(Depth + 1) /\ \A j \in 1..Depth : j \in 1..(Depth + 1)
    BY <1>0
  <2>6. \A s : s \in c.meters
             <=> \E j \in 1..(Depth + 1) : stack'[j].kind = "call" /\ stack'[j].span = s
    BY <2>2, <2>3, <2>4, <2>5
  <2>7. QED  BY <1>3, <2>1, <2>4, <2>6 DEF CtxAdded, MetersOK
<1>4. QED  BY <1>2, <1>3, CtxSteps
-----------------------------------------------------------------------------
(* The gas traces *)

Chained(t) == \A i \in 1..(Len(t) - 1) : t[i + 1].offset = After(t[i])

EndsAt(t, amount) == t # <<>> => After(t[Len(t)]) = amount

\* An entry that starts where the trace ended continues it.
LEMMA ChainGrows ==
    ASSUME NEW t \in Seq(GasTraces), NEW x \in GasTraces, Chained(t), EndsAt(t, x.offset)
    PROVE  Chained(Append(t, x)) /\ EndsAt(Append(t, x), After(x))
<1> DEFINE u == Append(t, x)
           n == Len(t)
<1>1. /\ n \in Nat /\ Len(u) = n + 1 /\ u[n + 1] = x
      /\ \A i \in 1..n : u[i] = t[i]
  OBVIOUS
<1>2. n # 0 => t # <<>>
  OBVIOUS
<1> HIDE DEF u
<1>3. ASSUME NEW i \in 1..n
      PROVE  u[i + 1].offset = After(u[i])
  <2>1. CASE i = n
    BY <1>1, <1>2, <2>1 DEF EndsAt
  <2>2. CASE i # n
    <3>1. i \in 1..(n - 1) /\ i + 1 \in 1..n
      BY <1>1, <2>2
    <3>2. QED  BY <1>1, <3>1 DEF Chained
  <2>3. QED  BY <2>1, <2>2
<1>4. Chained(u)
  BY <1>1, <1>3 DEF Chained
<1>5. EndsAt(u, After(x))
  BY <1>1 DEF EndsAt
<1>6. QED  BY <1>4, <1>5 DEF u

\* A step that moves the sdk meter adds an entry to the traces of the running
\* context's decorators; a step that does not leaves all traces alone.
Metering(trace) ==
    /\ trace.offset = gas /\ gas' = After(trace)
    /\ UNCHANGED stack /\ Len(spans') = Len(spans)
    /\ \A s \in 1..Len(spans) :
          spans'[s].application = IF s \in Top.meters THEN Append(spans[s].application, trace)
                                  ELSE spans[s].application

TracesStay ==
    /\ gas' = gas /\ Len(spans') >= Len(spans)
    /\ \A s \in 1..Len(spans) : spans'[s].application = spans[s].application
    /\ \A s \in (Len(spans) + 1)..Len(spans') : spans'[s].application = <<>>

\* The store layers leave the gas traces alone.
LEMMA RecordedTraces ==
    ASSUME NEW sp \in Seq(Spans), NEW op \in {"read", "write"}, NEW k \in Key
    PROVE  \A records, charges :
              /\ Len(Recorded(sp, records, charges, op, k)) = Len(sp)
              /\ \A s \in 1..Len(sp) :
                    TraceKept(sp[s], Recorded(sp, records, charges, op, k)[s])
  BY RecordedTypes, RecordedFields, ZenonT(40)

LEMMA MeteringSteps ==
    ASSUME TypeInv,
           \/ \E n \in {1, 2} : ConsumeGas(n) \/ RefundGas(n)
           \/ \E op \in {"read", "write"}, k \in Key, v \in Value : KVStore(op, k, v)
    PROVE  \E trace \in GasTraces : Metering(trace)
<1>0. spans \in Seq(Spans) /\ Len(spans) \in Nat /\ gas \in Nat
  BY TopFacts DEF TypeInv, TypeOK
<1>1. ASSUME NEW n \in Nat
      PROVE  LET x == ConsumeGasTrace(n, gas)
                 y == RefundGasTrace(n, gas)
             IN  /\ x \in GasTraces /\ x.offset = gas /\ After(x) = Consumed(gas, n)
                 /\ y \in GasTraces /\ y.offset = gas /\ After(y) = Refunded(gas, n)
  BY <1>0 DEF ConsumeGasTrace, RefundGasTrace, NewGasTrace, GasTraces, After
<1>2. ASSUME NEW trace \in GasTraces
      PROVE  /\ Len(Metered(spans, trace)) = Len(spans) /\ Metered(spans, trace) \in Seq(Spans)
             /\ \A s \in 1..Len(spans) :
                   Metered(spans, trace)[s].application
                      = IF s \in Top.meters THEN Append(spans[s].application, trace)
                        ELSE spans[s].application
  BY <1>0, MeteredTypes, MeteredFields
<1>3. ASSUME NEW n \in {1, 2}, ConsumeGas(n)
      PROVE  \E trace \in GasTraces : Metering(trace)
  <2>1. /\ spans' = Metered(spans, ConsumeGasTrace(n, gas)) /\ gas' = Consumed(gas, n)
        /\ UNCHANGED stack /\ n \in Nat
    BY <1>3 DEF ConsumeGas, Charged
  <2>2. Metering(ConsumeGasTrace(n, gas)) /\ ConsumeGasTrace(n, gas) \in GasTraces
    BY <1>1, <1>2, <2>1 DEF Metering
  <2>3. QED  BY <2>2
<1>4. ASSUME NEW n \in {1, 2}, RefundGas(n)
      PROVE  \E trace \in GasTraces : Metering(trace)
  <2>1. /\ spans' = Metered(spans, RefundGasTrace(n, gas)) /\ gas' = Refunded(gas, n)
        /\ UNCHANGED stack /\ n \in Nat
    BY <1>4 DEF RefundGas, Credited
  <2>2. Metering(RefundGasTrace(n, gas)) /\ RefundGasTrace(n, gas) \in GasTraces
    BY <1>1, <1>2, <2>1 DEF Metering
  <2>3. QED  BY <2>2
<1>5. ASSUME NEW op \in {"read", "write"}, NEW k \in Key, NEW v \in Value, KVStore(op, k, v)
      PROVE  \E trace \in GasTraces : Metering(trace)
  <2> DEFINE x == ConsumeGasTrace(AccessGas, gas)
             sp == Metered(spans, x)
  <2>1. /\ x \in GasTraces /\ x.offset = gas /\ After(x) = Consumed(gas, AccessGas)
    BY <1>1, ConstantsAssumption
  <2>2. /\ \/ spans' = sp
           \/ spans' = Recorded(sp, KVStoreRecords(Top.ms, op), KVStoreCharges(Top.ms), op, k)
        /\ gas' = Consumed(gas, AccessGas) /\ UNCHANGED stack
    BY <1>5 DEF KVStore, Charged
  <2> HIDE DEF x
  <2>3. /\ Len(sp) = Len(spans) /\ sp \in Seq(Spans)
        /\ \A s \in 1..Len(spans) :
              sp[s].application = IF s \in Top.meters THEN Append(spans[s].application, x)
                                  ELSE spans[s].application
    BY <1>2, <2>1
  <2> HIDE DEF sp
  <2>4. Len(spans') = Len(spans) /\ \A s \in 1..Len(spans) : spans'[s].application = sp[s].application
    BY <2>2, <2>3, RecordedTraces DEF TraceKept
  <2>5. Metering(x)
    BY <2>1, <2>2, <2>3, <2>4 DEF Metering
  <2>6. QED  BY <2>1, <2>5
<1>6. QED  BY <1>3, <1>4, <1>5

LEMMA GasSteps ==
    ASSUME StackInv, [Next]_vars
    PROVE  TracesStay \/ \E trace \in GasTraces : Metering(trace)
<1>0. /\ TypeInv /\ spans \in Seq(Spans) /\ Len(spans) \in Nat
      /\ Top \in Contexts /\ Top.ignoring \in Seq(IgnoringCalls) /\ Top.em \in Seq(Event)
  BY TopFacts DEF StackInv, Contexts
<1>1. ASSUME UNCHANGED <<spans, gas>>
      PROVE  TracesStay
  BY <1>0, <1>1 DEF TracesStay
<1>2. ASSUME NEW op \in {"read", "write"}, NEW k \in Key, NEW v \in Value, Store(op, k, v)
      PROVE  TracesStay
  <2>1. /\ spans' = Recorded(spans, StoreRecords(Top.ms, op), StoreCharges(Top.ms), op, k)
        /\ gas' = gas
    BY <1>2 DEF Store
  <2>2. QED  BY <1>0, <2>1, RecordedTraces DEF TracesStay, TraceKept
<1>3. ASSUME NEW log \in LogSetting, StartSpan(log)
      PROVE  TracesStay
  <2>1. /\ Len(spans') = Len(spans) + 1 /\ gas' = gas
        /\ \A s \in 1..Len(spans) : spans'[s] = spans[s]
        /\ spans'[Len(spans) + 1].application = <<>>
    BY <1>0, <1>3, StartFields
  <2>2. \A s \in (Len(spans) + 1)..Len(spans') : s = Len(spans) + 1
    BY <1>0, <2>1
  <2>3. QED  BY <1>0, <2>1, <2>2 DEF TracesStay
<1>4. ASSUME NEW ids, spans' = Lost(ids), gas' = gas
      PROVE  TracesStay
  BY <1>0, <1>4, LostTypes, LostFields DEF TracesStay
<1>5. ASSUME NEW failed \in BOOLEAN, Return(failed)
      PROVE  TracesStay
  <2>1. /\ spans' = [spans EXCEPT ![Top.span] = Finished(@, Top.clock, Top.em, failed)]
        /\ Top.kind = "call" /\ gas' = gas
    BY <1>5 DEF Return
  <2>2. Top.span \in 1..Len(spans) /\ Top.clock \in Clocks
    BY <1>0, <2>1, TopFacts
  <2>3. /\ Len(spans') = Len(spans)
        /\ \A s \in 1..Len(spans) : spans'[s].application = spans[s].application
    BY <1>0, <2>1, <2>2, FinishFields
  <2>4. QED  BY <1>0, <2>1, <2>3 DEF TracesStay
<1>6. ASSUME NEW failed \in BOOLEAN, ReturnIgnoring(failed)
      PROVE  TracesStay
  <2> DEFINE call == Top.ignoring[Len(Top.ignoring)]
  <2>1. /\ spans' = [spans EXCEPT ![call.span] = Finished(@, call.clock, <<>>, failed)]
        /\ Top.ignoring # <<>> /\ gas' = gas
    BY <1>6 DEF ReturnIgnoring
  <2>2. Started(Top.ignoring, Len(spans))
    BY <1>0, TopFacts DEF TypeInv, ContextsLineUp, SpansExist, Top
  <2>3. call.span \in 1..Len(spans) /\ call.clock \in Clocks /\ <<>> \in Seq(Event)
    <3>1. Len(Top.ignoring) \in 1..Len(Top.ignoring) /\ call \in IgnoringCalls
      BY <1>0, <2>1
    <3>2. QED  BY <2>2, <3>1 DEF Started, IgnoringCalls
  <2> HIDE DEF call
  <2>4. /\ Len(spans') = Len(spans)
        /\ \A s \in 1..Len(spans) : spans'[s].application = spans[s].application
    BY <1>0, <2>1, <2>3, FinishFields
  <2>5. QED  BY <1>0, <2>1, <2>4 DEF TracesStay
<1>7. CASE \/ \E n \in {1, 2} : ConsumeGas(n) \/ RefundGas(n)
           \/ \E op \in {"read", "write"}, k \in Key, v \in Value : KVStore(op, k, v)
  BY <1>0, <1>7, MeteringSteps
<1>8. CASE \/ \E e \in Event : EmitEvent(e)
           \/ OpenBranch \/ Commit \/ Discard \/ Panic \/ Done \/ Tick \/ UNCHANGED vars
  BY <1>1, <1>8 DEF EmitEvent, OpenBranch, Commit, Discard, Panic, Done, Tick, vars
<1>9. ASSUME UnwindCall \/ Abort \/ \E recovered \in BOOLEAN : UnwindBranch(recovered)
      PROVE  TracesStay
  BY <1>4, <1>9 DEF UnwindCall, Abort, UnwindBranch
<1>10. ASSUME CallIgnoring \/ \E log \in LogSetting : Call(log)
       PROVE  TracesStay
  BY <1>3, <1>10 DEF CallIgnoring, Call, LogSetting
<1>11. QED
  BY <1>2, <1>5, <1>6, <1>7, <1>8, <1>9, <1>10 DEF Next, Program, Unwinding, Terminated

\* Every trace is a chain, and that of a call in progress ends at the reading
\* of the meter.
TracesOK ==
    /\ \A s \in 1..Len(spans) : Chained(spans[s].application)
    /\ \A i \in 1..Depth :
          stack[i].kind = "call" => EndsAt(spans[stack[i].span].application, gas)

GasInv == StackInv /\ MetersOK /\ TracesOK

LEMMA InitGasInv == Init => GasInv
<1> SUFFICES ASSUME Init PROVE GasInv
  OBVIOUS
<1>1. StackInv /\ MetersOK
  BY InitStackInv, InitMeters
<1>2. Len(spans) = 0 /\ Depth = 1 /\ stack[1].kind = "root"
  BY DEF Init, Depth
<1>3. QED  BY <1>1, <1>2 DEF GasInv, TracesOK

LEMMA NextGasInv == GasInv /\ [Next]_vars => GasInv'
<1> SUFFICES ASSUME GasInv, [Next]_vars PROVE GasInv'
  OBVIOUS
<1>1. StackInv' /\ MetersOK'
  BY NextStackInv, NextMeters DEF GasInv
<1>2. /\ StackInv /\ TypeInv /\ Depth \in Nat /\ Depth \in 1..Depth /\ Len(spans) \in Nat
      /\ Top = stack[Depth] /\ \A s \in 1..Len(spans) : spans[s] \in Spans
  BY TopFacts DEF GasInv, StackInv, Top
<1>3. \A s \in 1..Len(spans) : spans[s].application \in Seq(GasTraces)
  BY <1>2 DEF Spans
<1>4. \A i \in 1..Depth : stack[i].kind = "call" => stack[i].span \in 1..Len(spans)
  BY <1>2 DEF TypeInv, ContextsLineUp, SpansExist
<1>5. ASSUME NEW trace \in GasTraces, Metering(trace)
      PROVE  TracesOK'
  <2>1. /\ trace.offset = gas /\ gas' = After(trace) /\ Depth' = Depth
        /\ stack' = stack /\ Len(spans') = Len(spans)
        /\ \A s \in 1..Len(spans) :
              spans'[s].application = IF s \in Top.meters THEN Append(spans[s].application, trace)
                                      ELSE spans[s].application
    BY <1>5 DEF Metering, Depth
  <2>2. ASSUME NEW s \in 1..Len(spans), s \in Top.meters
        PROVE  /\ Chained(spans'[s].application)
               /\ EndsAt(spans'[s].application, gas')
    <3>1. EndsAt(spans[s].application, gas)
      <4>1. PICK j \in 1..Depth : stack[j].kind = "call" /\ stack[j].span = s
        BY <1>2, <2>2 DEF GasInv, MetersOK
      <4>2. QED  BY <4>1 DEF GasInv, TracesOK
    <3>2. Chained(spans[s].application)
      BY DEF GasInv, TracesOK
    <3>3. QED  BY <1>3, <2>1, <2>2, <3>1, <3>2, ChainGrows
  <2>3. ASSUME NEW s \in 1..Len(spans), s \notin Top.meters
        PROVE  Chained(spans'[s].application)
    BY <2>1, <2>3 DEF GasInv, TracesOK
  <2>4. ASSUME NEW i \in 1..Depth, stack[i].kind = "call"
        PROVE  EndsAt(spans'[stack[i].span].application, gas')
    <3>1. stack[i].span \in Top.meters
      BY <1>2, <2>4 DEF GasInv, MetersOK
    <3>2. QED  BY <1>4, <2>2, <2>4, <3>1
  <2>5. QED  BY <2>1, <2>2, <2>3, <2>4 DEF TracesOK
<1>6. ASSUME TracesStay
      PROVE  TracesOK'
  <2>1. /\ gas' = gas /\ Len(spans') \in Nat
        /\ \A s \in 1..Len(spans) : spans'[s].application = spans[s].application
        /\ \A s \in (Len(spans) + 1)..Len(spans') : spans'[s].application = <<>>
    BY <1>1, <1>6, TopFacts DEF TracesStay, StackInv, TypeInv, TypeOK
  <2>2. \A s \in 1..Len(spans') : s \in 1..Len(spans) \/ s \in (Len(spans) + 1)..Len(spans')
    BY <1>2, <2>1
  <2>3. Chained(<<>>) /\ EndsAt(<<>>, gas)
    BY DEF Chained, EndsAt
  <2>4. \A s \in 1..Len(spans') : Chained(spans'[s].application)
    BY <2>1, <2>2, <2>3 DEF GasInv, TracesOK
  <2>5. ASSUME NEW n \in Nat, n <= Depth, Keeps(n), NEW i \in 1..n, stack'[i].kind = "call"
        PROVE  EndsAt(spans'[stack'[i].span].application, gas')
    <3>1. i \in 1..Depth /\ stack[i].kind = "call" /\ stack'[i].span = stack[i].span
      BY <1>2, <2>5 DEF Keeps
    <3>2. EndsAt(spans[stack[i].span].application, gas)
      BY <3>1 DEF GasInv, TracesOK
    <3>3. QED  BY <1>4, <2>1, <3>1, <3>2
  <2>6. ASSUME CtxAdded, stack'[Depth + 1].kind = "call"
        PROVE  EndsAt(spans'[stack'[Depth + 1].span].application, gas')
    <3>1. Top \in Contexts
      BY <1>2, TopFacts
    <3>2. BranchCtx.kind # "call"
      BY <1>2, BranchCtxTypes
    <3>3. PICK log \in LogSetting : StartSpan(log) /\ stack'[Depth + 1] = WorkCtx(log)
      BY <2>6, <3>2 DEF CtxAdded
    <3>4. WorkCtx(log).span = Len(spans) + 1 /\ Len(spans') = Len(spans) + 1
      BY <1>2, <3>3, WorkCtxTypes, StartFields
    <3>5. spans'[Len(spans) + 1].application = <<>>
      BY <1>2, <3>3, StartFields
    <3>6. QED  BY <2>1, <2>3, <3>3, <3>4, <3>5
  <2>7. \A i \in 1..Depth' : stack'[i].kind = "call" =>
           EndsAt(spans'[stack'[i].span].application, gas')
    <3>1. CASE \E n \in Nat : CtxsStay(n)
      BY <2>5, <3>1 DEF CtxsStay
    <3>2. CASE CtxAdded
      <4>1. \A i \in 1..(Depth + 1) : i \in 1..Depth \/ i = Depth + 1
        BY <1>2
      <4>2. Depth' = Depth + 1 /\ Keeps(Depth) /\ Depth <= Depth
        BY <1>2, <3>2 DEF CtxAdded
      <4>3. QED  BY <1>2, <2>5, <2>6, <3>2, <4>1, <4>2
    <3>3. QED  BY <1>2, <3>1, <3>2, CtxSteps
  <2>8. QED  BY <2>4, <2>7 DEF TracesOK
<1>7. QED  BY <1>1, <1>2, <1>5, <1>6, GasSteps DEF GasInv

\* The gas trace of a call accounts for everything the sdk meter went through
\* since the trace began, across nested calls, branches, refused refunds and
\* recovered panics (gas.go:51-59).
THEOREM GasIsAccounted == Spec => []GasTraceAddsUp
<1>1. ASSUME GasInv
      PROVE  GasTraceAddsUp
  <2>1. DOMAIN spans = 1..Len(spans) /\ DOMAIN stack = 1..Depth
    BY <1>1, TopFacts DEF GasInv, StackInv, Depth
  <2>2. QED  BY <1>1, <2>1 DEF GasInv, TracesOK, Chained, EndsAt, GasTraceAddsUp
<1>2. QED  BY <1>1, InitGasInv, NextGasInv, PTL DEF Spec
-----------------------------------------------------------------------------
(* The store logs *)

\* The calls from j to i, none of them in a cache branch opened in between.
AllCalls(st, j, i) == \A k \in j..i : st[k].kind = "call"

\* The span s logs what context i does with the store.
Logs(st, sp, s, i) ==
    \E j \in 1..i : AllCalls(st, j, i) /\ st[j].span = s /\ sp[s].log # "nothing"

\* The layers a context reads and writes through are those of the calls around
\* it that log their store, up to the cache branch it runs in.
LayersOK == \A i \in 1..Depth : \A s : s \in SpansOf(stack[i].ms) <=> Logs(stack, spans, s, i)

LayersInv == StackInv /\ LayersOK

LEMMA SpansOfLayers ==
    ASSUME NEW ms \in MultiStores, NEW s, NEW w
    PROVE  /\ SpansOf(NewTracingMultiStore(ms, s, w)) = SpansOf(ms) \cup {s}
           /\ SpansOf(CacheMultiStore(ms)) = {}
<1> DEFINE x == [span |-> s, writesOnly |-> w]
           n == Len(ms.layers)
           all == Append(ms.layers, x)
<1>1. ms.layers \in Seq(Layers) /\ n \in Nat
  BY DEF MultiStores
<1>2. NewTracingMultiStore(ms, s, w).layers = all
  BY DEF NewTracingMultiStore, MultiStores
<1>3. /\ DOMAIN all = 1..(n + 1) /\ DOMAIN ms.layers = 1..n
      /\ \A i \in 1..n : all[i] = ms.layers[i]
      /\ all[n + 1] = x
  BY <1>1
<1>4. x.span = s
  OBVIOUS
<1>5. \A i \in 1..(n + 1) : i \in 1..n \/ i = n + 1
  BY <1>1
<1>6. (n + 1) \in 1..(n + 1) /\ \A i \in 1..n : i \in 1..(n + 1)
  BY <1>1
<1> HIDE DEF x, all, n
<1>7. {all[i].span : i \in 1..(n + 1)} = {ms.layers[i].span : i \in 1..n} \cup {s}
  BY <1>3, <1>4, <1>5, <1>6
<1>8. SpansOf(NewTracingMultiStore(ms, s, w)) = SpansOf(ms) \cup {s}
  BY <1>2, <1>3, <1>7 DEF SpansOf
<1>9. CacheMultiStore(ms).layers = <<>> /\ DOMAIN <<>> = {}
  BY DEF CacheMultiStore, PlainMultiStore
<1>10. SpansOf(CacheMultiStore(ms)) = {}
  BY <1>9 DEF SpansOf
<1>11. QED  BY <1>8, <1>10

LEMMA InitLayersInv == Init => LayersInv
<1> SUFFICES ASSUME Init PROVE LayersInv
  OBVIOUS
<1>1. /\ Depth = 1 /\ stack[1].kind = "root" /\ stack[1].ms.layers = <<>>
  BY DEF Init, Depth, PlainMultiStore
<1>2. SpansOf(stack[1].ms) = {}
  BY <1>1 DEF SpansOf
<1>3. ~AllCalls(stack, 1, 1)
  BY <1>1 DEF AllCalls
<1>4. LayersOK
  BY <1>1, <1>2, <1>3 DEF LayersOK, Logs
<1>5. QED  BY <1>4, InitStackInv DEF LayersInv

LEMMA NextLayersInv == LayersInv /\ [Next]_vars => LayersInv'
<1> SUFFICES ASSUME LayersInv, [Next]_vars PROVE LayersInv'
  OBVIOUS
<1>0. /\ StackInv /\ StackInv' /\ TypeInv /\ Depth \in Nat /\ Depth >= 1 /\ Depth \in 1..Depth
      /\ Top = stack[Depth] /\ Top \in Contexts /\ Len(spans) \in Nat /\ LogsStay
  BY NextStackInv, TopFacts, CtxSteps DEF LayersInv, StackInv, Top
<1>1. \A j \in 1..Depth : stack[j].kind = "call" => stack[j].span \in 1..Len(spans)
  BY <1>0 DEF TypeInv, ContextsLineUp, SpansExist
<1>2. ASSUME NEW n \in Nat, n <= Depth, Keeps(n), NEW i \in 1..n, NEW s
      PROVE  s \in SpansOf(stack'[i].ms) <=> Logs(stack', spans', s, i)
  <2>1. i \in 1..Depth /\ \A j \in 1..i : j \in 1..n /\ j \in 1..Depth
    BY <1>0, <1>2
  <2>2. \A j \in 1..i : AllCalls(stack', j, i) <=> AllCalls(stack, j, i)
    <3>1. \A j \in 1..i : \A k \in j..i : k \in 1..n
      BY <1>2
    <3>2. QED  BY <1>2, <3>1 DEF Keeps, AllCalls
  <2>3. ASSUME NEW j \in 1..i, AllCalls(stack, j, i), stack[j].span = s
        PROVE  spans'[s].log = spans[s].log
    <3>1. stack[j].kind = "call"
      BY <2>3 DEF AllCalls
    <3>2. s \in 1..Len(spans)
      BY <1>1, <2>1, <2>3, <3>1
    <3>3. QED  BY <1>0, <3>2 DEF LogsStay
  <2>4. s \in SpansOf(stack[i].ms) <=> Logs(stack, spans, s, i)
    BY <2>1 DEF LayersInv, LayersOK
  <2>5. stack'[i].ms = stack[i].ms /\ \A j \in 1..i : stack'[j].span = stack[j].span
    BY <1>2, <2>1 DEF Keeps
  <2>6. QED  BY <2>2, <2>3, <2>4, <2>5 DEF Logs
<1>3. ASSUME NEW n \in Nat, CtxsStay(n)
      PROVE  LayersOK'
  BY <1>2, <1>3 DEF CtxsStay, LayersOK
<1>4. ASSUME CtxAdded
      PROVE  LayersOK'
  <2> DEFINE c == stack'[Depth + 1]
  <2>1. \A i \in 1..Depth : \A s : s \in SpansOf(stack'[i].ms) <=> Logs(stack', spans', s, i)
    <3>1. Depth <= Depth /\ Keeps(Depth)
      BY <1>0, <1>4 DEF CtxAdded
    <3>2. QED  BY <1>0, <1>2, <3>1
  <2>2. Depth' = Depth + 1 /\ stack'[Depth].ms = Top.ms /\ Top.ms \in MultiStores
    BY <1>0, <1>4 DEF CtxAdded, Keeps, Contexts
  <2>3. \A s : s \in SpansOf(Top.ms) <=> Logs(stack', spans', s, Depth)
    <3>1. \A s : s \in SpansOf(stack'[Depth].ms) <=> Logs(stack', spans', s, Depth)
      BY <1>0, <2>1
    <3>2. QED  BY <2>2, <3>1
  <2>4. /\ \A j \in 1..(Depth + 1) : j \in 1..Depth \/ j = Depth + 1
        /\ (Depth + 1) \in 1..(Depth + 1) /\ \A j \in 1..Depth : j \in 1..(Depth + 1)
    BY <1>0
  <2>5. /\ \A j \in 1..Depth :
              AllCalls(stack', j, Depth + 1) <=> (AllCalls(stack', j, Depth) /\ c.kind = "call")
        /\ AllCalls(stack', Depth + 1, Depth + 1) <=> c.kind = "call"
    <3>1. ASSUME NEW j \in 1..Depth
          PROVE  AllCalls(stack', j, Depth + 1) <=> (AllCalls(stack', j, Depth) /\ c.kind = "call")
      <4>1. \A k \in j..(Depth + 1) : k \in j..Depth \/ k = Depth + 1
        BY <1>0
      <4>2. (Depth + 1) \in j..(Depth + 1) /\ \A k \in j..Depth : k \in j..(Depth + 1)
        BY <1>0
      <4>3. QED  BY <4>1, <4>2 DEF AllCalls
    <3>2. \A k \in (Depth + 1)..(Depth + 1) : k = Depth + 1
      BY <1>0
    <3>3. AllCalls(stack', Depth + 1, Depth + 1) <=> c.kind = "call"
      BY <2>4, <3>2 DEF AllCalls
    <3>4. QED  BY <3>1, <3>3
  <2>6. \A s : s \in SpansOf(c.ms)
              <=> (/\ c.kind = "call"
                   /\ (s \in SpansOf(Top.ms) \/ (c.span = s /\ spans'[s].log # "nothing")))
    <3>1. ASSUME NEW log \in LogSetting, StartSpan(log), c = WorkCtx(log)
          PROVE  \A s : s \in SpansOf(c.ms)
                    <=> (/\ c.kind = "call"
                         /\ (s \in SpansOf(Top.ms) \/ (c.span = s /\ spans'[s].log # "nothing")))
      <4>1. c.kind = "call" /\ c.span = Len(spans) + 1
        BY <1>0, <3>1, WorkCtxTypes
      <4>2. spans'[Len(spans) + 1].log = log
        BY <1>0, <3>1, StartFields
      <4>3. c.ms = IF log = "nothing" THEN Top.ms
                   ELSE NewTracingMultiStore(Top.ms, Len(spans) + 1, log = "writesOnly")
        BY <3>1 DEF WorkCtx
      <4> HIDE DEF c
      <4>4. SpansOf(c.ms) = IF log = "nothing" THEN SpansOf(Top.ms)
                            ELSE SpansOf(Top.ms) \cup {Len(spans) + 1}
        <5>1. CASE log = "nothing"
          BY <4>3, <5>1
        <5>2. CASE log # "nothing"
          <6>1. c.ms = NewTracingMultiStore(Top.ms, Len(spans) + 1, log = "writesOnly")
            BY <4>3, <5>2
          <6>2. SpansOf(NewTracingMultiStore(Top.ms, Len(spans) + 1, log = "writesOnly"))
                   = SpansOf(Top.ms) \cup {Len(spans) + 1}
            BY <2>2, SpansOfLayers
          <6>3. QED  BY <5>2, <6>1, <6>2
        <5>3. QED  BY <5>1, <5>2
      <4>5. QED  BY <4>1, <4>2, <4>4
    <3>2. ASSUME c = BranchCtx
          PROVE  SpansOf(c.ms) = {} /\ c.kind # "call"
      <4>1. c.ms = CacheMultiStore(Top.ms) /\ c.kind = "branch"
        BY <1>0, <3>2 DEF BranchCtx, Contexts
      <4>2. QED  BY <2>2, <4>1, SpansOfLayers
    <3> HIDE DEF c
    <3>3. QED  BY <1>4, <3>1, <3>2 DEF CtxAdded, c
  <2> HIDE DEF c
  <2>7. ASSUME NEW s
        PROVE  s \in SpansOf(c.ms) <=> Logs(stack', spans', s, Depth + 1)
    <3>1. c = stack'[Depth + 1]
      BY DEF c
    <3>2. Logs(stack', spans', s, Depth) => \E j \in 1..Depth : /\ AllCalls(stack', j, Depth) /\ stack'[j].span = s
                                                 /\ spans'[s].log # "nothing"
      BY DEF Logs
    <3>3. ASSUME s \in SpansOf(c.ms)
          PROVE  Logs(stack', spans', s, Depth + 1)
      <4>1. CASE s \in SpansOf(Top.ms)
        BY <2>3, <2>4, <2>5, <2>6, <3>2, <3>3, <4>1 DEF Logs
      <4>2. CASE c.span = s /\ spans'[s].log # "nothing"
        BY <2>4, <2>5, <2>6, <3>1, <3>3, <4>2 DEF Logs
      <4>3. QED  BY <2>6, <3>3, <4>1, <4>2
    <3>4. ASSUME Logs(stack', spans', s, Depth + 1)
          PROVE  s \in SpansOf(c.ms)
      <4>1. PICK j \in 1..(Depth + 1) : /\ AllCalls(stack', j, Depth + 1) /\ stack'[j].span = s
                                        /\ spans'[s].log # "nothing"
        BY <3>4 DEF Logs
      <4>2. CASE j = Depth + 1
        BY <2>5, <2>6, <3>1, <4>1, <4>2
      <4>3. ASSUME j \in 1..Depth
            PROVE  s \in SpansOf(c.ms)
        <5>1. AllCalls(stack', j, Depth) /\ c.kind = "call"
          BY <2>5, <4>1, <4>3
        <5>2. Logs(stack', spans', s, Depth)
          BY <4>1, <4>3, <5>1 DEF Logs
        <5>3. QED  BY <2>3, <2>6, <5>1, <5>2
      <4>4. QED  BY <2>4, <4>2, <4>3
    <3>5. QED  BY <3>3, <3>4
  <2>8. c = stack'[Depth + 1]
    BY DEF c
  <2>9. \A i \in 1..(Depth + 1) : \A s : s \in SpansOf(stack'[i].ms) <=> Logs(stack', spans', s, i)
    BY <2>1, <2>4, <2>7, <2>8
  <2>10. QED  BY <2>2, <2>9 DEF LayersOK
<1>5. QED  BY <1>0, <1>3, <1>4, CtxSteps DEF LayersInv

\* Only a write changes what the program reads without opening or closing a
\* cache branch.
LEMMA StoreChangeIsWrite ==
    ASSUME TypeInv, [Next]_vars, StoreChanges
    PROVE  \E k \in Key, v \in Value :
              \/ Store("write", k, v)
              \/ KVStore("write", k, v) /\ ~OutOfGas(gas', GasLimit)
<1>1. /\ Len(stores) \in Nat /\ Len(stores) >= 1 /\ Depth \in Nat /\ Depth >= 1
      /\ stores \in Seq([Key -> Value])
      /\ Top.kind = "branch" => Len(stores) >= 2
  BY TopFacts
<1>2. stores' # stores /\ Len(stores') = Len(stores)
  BY DEF StoreChanges
<1>3. ASSUME NEW op \in {"read", "write"}, NEW k \in Key, NEW v \in Value,
             KVStore(op, k, v) \/ Store(op, k, v)
      PROVE  /\ op = "write"
             /\ KVStore(op, k, v) => ~OutOfGas(gas', GasLimit)
  <2>1. stores' = Applied(op, k, v)
    BY <1>2, <1>3 DEF KVStore, Store
  <2>2. op = "write"
    BY <1>2, <2>1 DEF Applied
  <2>3. KVStore(op, k, v) => ~OutOfGas(gas', GasLimit)
    BY <1>2 DEF KVStore
  <2>4. QED  BY <2>2, <2>3
<1>4. ~OpenBranch
  <2>1. ASSUME OpenBranch PROVE Len(stores') = Len(stores) + 1
    BY <1>1, <2>1, TopFacts DEF OpenBranch
  <2>2. QED  BY <1>1, <1>2, <2>1
<1>5. ~Commit
  <2>1. ASSUME Commit PROVE Len(stores') = Len(stores) - 1
    BY <1>1, <2>1 DEF Commit
  <2>2. QED  BY <1>1, <1>2, <2>1
<1>6. ASSUME Top.kind = "branch", PopBranch
      PROVE  FALSE
  <2>1. Len(stores') = Len(stores) - 1
    BY <1>1, <1>6 DEF PopBranch
  <2>2. QED  BY <1>1, <1>2, <2>1
<1>7. ~Discard /\ \A recovered \in BOOLEAN : ~UnwindBranch(recovered)
  BY <1>6 DEF Discard, UnwindBranch
<1>8. CASE Program
  BY <1>2, <1>3, <1>4, <1>8
     DEF Program, EmitEvent, ConsumeGas, RefundGas, Call, CallIgnoring, StartSpan, Panic
<1>9. CASE Next /\ ~Program
  BY <1>2, <1>5, <1>7, <1>9
     DEF Next, Return, ReturnIgnoring, Unwinding, UnwindCall, Abort, Done, Tick,
         Terminated, vars
<1>10. QED  BY <1>2, <1>8, <1>9 DEF vars

LEMMA WriteRecords ==
    ASSUME NEW ms \in MultiStores
    PROVE  KVStoreRecords(ms, "write") = SpansOf(ms) /\ StoreRecords(ms, "write") = SpansOf(ms)
<1>1. Len(ms.layers) \in Nat /\ DOMAIN ms.layers = 1..Len(ms.layers)
  BY DEF MultiStores
<1>2. KVStoreRecords(ms, "write") = SpansOf(ms)
  BY DEF KVStoreRecords, SpansOf
<1>3. Len(ms.layers) # 0 => ms.layers[Len(ms.layers)].span \in SpansOf(ms)
  BY <1>1 DEF SpansOf
<1>4. QED  BY <1>2, <1>3 DEF StoreRecords

\* A write that reaches the store grows the log of the spans of the running
\* context's layers, and of no others.
LEMMA WriteGrows ==
    ASSUME TypeInv, NEW k \in Key, NEW v \in Value,
           \/ Store("write", k, v)
           \/ KVStore("write", k, v) /\ ~OutOfGas(gas', GasLimit),
           NEW s \in 1..Len(spans)
    PROVE  /\ s \in SpansOf(Top.ms) => IoGrown(spans[s], spans'[s], <<"write", k>>)
           /\ s \notin SpansOf(Top.ms) => IoKept(spans[s], spans'[s])
<1>1. spans \in Seq(Spans) /\ gas \in Nat /\ Top.ms \in MultiStores /\ AccessGas \in Nat
  BY TopFacts, ConstantsAssumption DEF TypeInv, TypeOK, Contexts
<1>2. /\ Charged(spans, AccessGas) \in Seq(Spans)
      /\ Len(Charged(spans, AccessGas)) = Len(spans)
      /\ IoKept(spans[s], Charged(spans, AccessGas)[s])
  <2>1. ConsumeGasTrace(AccessGas, gas) \in GasTraces
    BY <1>1 DEF ConsumeGasTrace, NewGasTrace, GasTraces
  <2>2. QED  BY <1>1, <2>1, MeteredFields, ChargedTypes DEF Charged
<1>3. PICK sp \in Seq(Spans) :
         /\ Len(sp) = Len(spans) /\ IoKept(spans[s], sp[s])
         /\ \E charges : spans' = Recorded(sp, SpansOf(Top.ms), charges, "write", k)
  <2>1. CASE Store("write", k, v)
    <3>1. spans' = Recorded(spans, SpansOf(Top.ms), StoreCharges(Top.ms), "write", k)
      BY <1>1, <2>1, WriteRecords DEF Store
    <3>2. IoKept(spans[s], spans[s])
      BY DEF IoKept
    <3>3. QED  BY <1>1, <3>1, <3>2
  <2>2. CASE KVStore("write", k, v) /\ ~OutOfGas(gas', GasLimit)
    <3>1. spans' = Recorded(Charged(spans, AccessGas), SpansOf(Top.ms),
                            KVStoreCharges(Top.ms), "write", k)
      BY <1>1, <2>2, WriteRecords DEF KVStore
    <3>2. QED  BY <1>2, <3>1
  <2>3. QED  BY <2>1, <2>2
<1>4. s \in 1..Len(sp) /\ "write" \in {"read", "write"}
  BY <1>3
<1>5. /\ s \in SpansOf(Top.ms) => IoGrown(sp[s], spans'[s], <<"write", k>>)
      /\ s \notin SpansOf(Top.ms) => IoKept(sp[s], spans'[s])
  BY <1>3, <1>4, RecordedFields
<1>6. QED  BY <1>3, <1>5 DEF IoGrown, IoKept

\* A write that reaches the store is recorded, once, by every call that encloses
\* the running context and logs its store at all, and by no other span
\* (store.go:33-66).
THEOREM WritesAreLogged == Spec => WritesAreTraced
<1>1. ASSUME LayersInv, [Next]_vars, StoreChanges, NEW s \in DOMAIN spans
      PROVE  IF \E i \in DOMAIN stack : /\ stack[i].span = s /\ Encloses(i)
                                        /\ spans[s].log # "nothing"
             THEN RecordedBy(s)
             ELSE spans'[s].io = spans[s].io
  <2>1. /\ TypeInv /\ Depth \in Nat /\ Depth >= 1 /\ Depth \in 1..Depth /\ Top = stack[Depth]
        /\ DOMAIN stack = 1..Depth /\ s \in 1..Len(spans) /\ spans[s] \in Spans
    BY <1>1, TopFacts DEF LayersInv, StackInv, Top, Depth
  <2>2. (\E i \in DOMAIN stack : /\ stack[i].span = s /\ Encloses(i)
                                 /\ spans[s].log # "nothing")
           <=> s \in SpansOf(Top.ms)
    BY <1>1, <2>1 DEF LayersInv, LayersOK, Logs, AllCalls, Encloses
  <2>3. PICK k \in Key, v \in Value :
           Store("write", k, v) \/ (KVStore("write", k, v) /\ ~OutOfGas(gas', GasLimit))
    BY <1>1, <2>1, StoreChangeIsWrite
  <2>4. /\ s \in SpansOf(Top.ms) => IoGrown(spans[s], spans'[s], <<"write", k>>)
        /\ s \notin SpansOf(Top.ms) => IoKept(spans[s], spans'[s])
    BY <2>1, <2>3, WriteGrows
  <2>5. ASSUME IoGrown(spans[s], spans'[s], <<"write", k>>)
        PROVE  RecordedBy(s)
    <3>1. spans[s].io \in Seq({"read", "write"} \X Key)
      BY <2>1 DEF Spans
    <3>2. <<"write", k>> \in {"read", "write"} \X Key
      OBVIOUS
    <3>3. LET io == Append(spans[s].io, <<"write", k>>) IN
          Len(io) = Len(spans[s].io) + 1 /\ io[Len(io)] = <<"write", k>>
      BY <3>1, <3>2
    <3>4. QED  BY <2>5, <3>3 DEF IoGrown, RecordedBy
  <2>6. IoKept(spans[s], spans'[s]) => spans'[s].io = spans[s].io
    BY DEF IoKept
  <2>7. QED  BY <2>2, <2>4, <2>5, <2>6
<1>2. ASSUME LayersInv, [Next]_vars
      PROVE  [StoreChanges =>
                \A s \in DOMAIN spans :
                    IF \E i \in DOMAIN stack : /\ stack[i].span = s
                                               /\ Encloses(i)
                                               /\ spans[s].log # "nothing"
                    THEN RecordedBy(s)
                    ELSE spans'[s].io = spans[s].io]_vars
  BY <1>1, <1>2
<1>3. QED  BY <1>2, InitLayersInv, NextLayersInv, PTL DEF Spec, WritesAreTraced
-----------------------------------------------------------------------------
(* The writes in a log *)

Recs == {"read", "write"} \X Key

\* WritesUpTo is what its definition says.
LEMMA WritesStep ==
    ASSUME NEW io, Len(io) \in Nat
    PROVE  /\ WritesUpTo(io)[0] = <<>>
           /\ \A i \in 1..Len(io) : WritesUpTo(io)[i] = WithWrite(WritesUpTo(io)[i - 1], io[i])
<1> DEFINE To(n, f) == f = [i \in 0..n |-> IF i = 0 THEN <<>> ELSE WithWrite(f[i - 1], io[i])]
           S == {n \in Nat : \E f : To(n, f)}
<1>1. 0 \in S
  <2>1. To(0, [i \in 0..0 |-> <<>>])
    OBVIOUS
  <2>2. QED  BY <2>1
<1>2. ASSUME NEW n \in Nat, n \in S
      PROVE  n + 1 \in S
  <2>1. PICK f : To(n, f)
    BY <1>2
  <2> DEFINE g == [i \in 0..(n + 1) |-> IF i = n + 1 THEN WithWrite(f[n], io[n + 1]) ELSE f[i]]
  <2>2. \A i \in 0..n : g[i] = f[i]
    OBVIOUS
  <2>3. \A i \in 0..(n + 1) : g[i] = IF i = 0 THEN <<>> ELSE WithWrite(g[i - 1], io[i])
    <3>1. ASSUME NEW i \in 0..(n + 1)
          PROVE  g[i] = IF i = 0 THEN <<>> ELSE WithWrite(g[i - 1], io[i])
      <4>1. CASE i = 0
        BY <4>1, <2>1
      <4>2. CASE i \in 1..n
        <5>1. g[i] = f[i] /\ g[i - 1] = f[i - 1]
          BY <2>2, <4>2
        <5>2. f[i] = WithWrite(f[i - 1], io[i])
          BY <2>1, <4>2
        <5> HIDE DEF g
        <5>3. i # 0
          BY <4>2
        <5>4. QED  BY <5>1, <5>2, <5>3, Zenon
      <4>3. CASE i = n + 1
        <5>1. g[i] = WithWrite(f[n], io[n + 1]) /\ g[i - 1] = f[n]
          BY <2>2, <4>3
        <5> HIDE DEF g
        <5>2. i # 0
          BY <4>3
        <5>3. QED  BY <4>3, <5>1, <5>2, Zenon
      <4>4. QED  BY <4>1, <4>2, <4>3
    <3>2. QED  BY <3>1
  <2>4. To(n + 1, g)
    <3>1. g = [i \in 0..(n + 1) |-> g[i]]
      OBVIOUS
    <3> HIDE DEF g
    <3>2. QED  BY <2>3, <3>1
  <2> HIDE DEF g, To
  <2>5. n + 1 \in Nat
    OBVIOUS
  <2>6. QED  BY <2>4, <2>5
<1>3. \A n \in Nat : n \in S
  <2> HIDE DEF S
  <2>1. QED  BY <1>1, <1>2, NatWellFounded
<1>4. PICK f : To(Len(io), f)
  BY <1>3
<1> DEFINE g == WritesUpTo(io)
<1>5. g = [i \in 0..Len(io) |-> IF i = 0 THEN <<>> ELSE WithWrite(g[i - 1], io[i])]
  BY <1>4 DEF WritesUpTo
<1> HIDE DEF g
<1>6. g[0] = <<>> /\ \A i \in 1..Len(io) : g[i] = WithWrite(g[i - 1], io[i])
  BY <1>5
<1>7. QED  BY <1>6 DEF g

\* The writes among the first records depend on nothing else.
LEMMA WritesSame ==
    ASSUME NEW io \in Seq(Recs), NEW io2 \in Seq(Recs), Len(io) <= Len(io2),
           \A i \in 1..Len(io) : io2[i] = io[i]
    PROVE  WritesUpTo(io2)[Len(io)] = Writes(io)
<1> DEFINE n == Len(io)
           S == {i \in Nat : i <= n => WritesUpTo(io2)[i] = WritesUpTo(io)[i]}
<1>0. n \in Nat /\ Len(io2) \in Nat
  OBVIOUS
<1>1. 0 \in S
  <2>1. WritesUpTo(io2)[0] = <<>> /\ WritesUpTo(io)[0] = <<>>
    BY <1>0, WritesStep
  <2>2. QED  BY <2>1
<1>2. ASSUME NEW i \in Nat, i \in S
      PROVE  i + 1 \in S
  <2>1. ASSUME i + 1 <= n
        PROVE  WritesUpTo(io2)[i + 1] = WritesUpTo(io)[i + 1]
    <3>1. WritesUpTo(io2)[i] = WritesUpTo(io)[i]
      BY <1>2, <2>1
    <3>2. i + 1 \in 1..Len(io) /\ i + 1 \in 1..Len(io2) /\ i + 1 - 1 = i
      BY <1>0, <2>1
    <3>3. /\ WritesUpTo(io2)[i + 1] = WithWrite(WritesUpTo(io2)[i + 1 - 1], io2[i + 1])
          /\ WritesUpTo(io)[i + 1] = WithWrite(WritesUpTo(io)[i + 1 - 1], io[i + 1])
      BY <1>0, <3>2, WritesStep
    <3>4. io2[i + 1] = io[i + 1]
      BY <3>2
    <3>5. QED  BY <3>1, <3>2, <3>3, <3>4
  <2>2. QED  BY <2>1
<1>3. \A i \in Nat : i \in S
  <2> HIDE DEF S
  <2>1. QED  BY <1>1, <1>2, NatWellFounded
<1>4. QED  BY <1>0, <1>3 DEF Writes

LEMMA WritesTypes ==
    ASSUME NEW io \in Seq(Recs)
    PROVE  Writes(io) \in Seq(Recs)
<1> DEFINE n == Len(io)
           S == {i \in Nat : i <= n => WritesUpTo(io)[i] \in Seq(Recs)}
<1>0. n \in Nat
  OBVIOUS
<1>1. 0 \in S
  <2>1. WritesUpTo(io)[0] = <<>> /\ <<>> \in Seq(Recs)
    BY <1>0, WritesStep
  <2>2. QED  BY <2>1
<1>2. ASSUME NEW i \in Nat, i \in S
      PROVE  i + 1 \in S
  <2>1. ASSUME i + 1 <= n
        PROVE  WritesUpTo(io)[i + 1] \in Seq(Recs)
    <3>1. WritesUpTo(io)[i] \in Seq(Recs)
      BY <1>2, <2>1
    <3>2. i + 1 \in 1..n /\ i + 1 - 1 = i /\ io[i + 1] \in Recs
      BY <1>0, <2>1
    <3>3. WritesUpTo(io)[i + 1] = WithWrite(WritesUpTo(io)[i + 1 - 1], io[i + 1])
      BY <1>0, <3>2, WritesStep
    <3>4. QED  BY <3>1, <3>2, <3>3 DEF WithWrite
  <2>2. QED  BY <2>1
<1>3. \A i \in Nat : i \in S
  <2> HIDE DEF S
  <2>1. QED  BY <1>1, <1>2, NatWellFounded
<1>4. QED  BY <1>0, <1>3 DEF Writes

\* A record that is no write leaves the writes as they are.
LEMMA WritesGrow ==
    ASSUME NEW io \in Seq(Recs), NEW rec \in Recs
    PROVE  Writes(Append(io, rec)) = WithWrite(Writes(io), rec)
<1> DEFINE io2 == Append(io, rec)
           n == Len(io)
<1>1. /\ io2 \in Seq(Recs) /\ Len(io2) = n + 1 /\ n \in Nat /\ io2[n + 1] = rec
      /\ \A i \in 1..n : io2[i] = io[i]
  OBVIOUS
<1> HIDE DEF io2
<1>2. WritesUpTo(io2)[n] = Writes(io)
  BY <1>1, WritesSame
<1>3. WritesUpTo(io2)[n + 1] = WithWrite(WritesUpTo(io2)[n + 1 - 1], io2[n + 1])
  BY <1>1, WritesStep
<1>4. n + 1 - 1 = n
  BY <1>1
<1>5. QED  BY <1>1, <1>2, <1>3, <1>4 DEF io2, Writes

LEMMA NoWrites == Writes(<<>>) = <<>>
<1>1. Len(<<>>) = 0
  OBVIOUS
<1>2. WritesUpTo(<<>>)[0] = <<>>
  BY <1>1, WritesStep
<1>3. QED  BY <1>1, <1>2 DEF Writes

LEMMA SuffixGrows ==
    ASSUME NEW S, NEW s \in Seq(S), NEW t \in Seq(S), NEW x \in S, Suffix(s, t)
    PROVE  Suffix(Append(s, x), Append(t, x))
<1> DEFINE m == Len(s)
           n == Len(t)
           p == n - m
           s2 == Append(s, x)
           t2 == Append(t, x)
           u == SubSeq(t2, p + 1, n + 1)
<1>1. m \in Nat /\ n \in Nat /\ p \in Nat /\ s = SubSeq(t, p + 1, n)
  BY DEF Suffix
<1>2. /\ s2 \in Seq(S) /\ t2 \in Seq(S) /\ Len(s2) = m + 1 /\ Len(t2) = n + 1
      /\ \A i \in 1..m : s2[i] = s[i]
      /\ \A i \in 1..n : t2[i] = t[i]
      /\ s2[m + 1] = x /\ t2[n + 1] = x
  OBVIOUS
<1>3. \A i \in 1..m : s[i] = t[p + i]
  <2>1. ASSUME NEW i \in 1..m
        PROVE  SubSeq(t, p + 1, n)[i] = t[p + i]
    BY <1>1
  <2>2. QED  BY <1>1, <2>1
<1> HIDE DEF s2, t2, p
<1>4. p + m = n
  BY <1>1 DEF p
<1>5. u \in Seq(S) /\ Len(u) = m + 1 /\ \A i \in 1..(m + 1) : u[i] = t2[p + i]
  BY <1>1, <1>2, <1>4
<1> HIDE DEF u, m, n
<1>6. ASSUME NEW i \in 1..(m + 1)
      PROVE  s2[i] = u[i]
  <2>1. CASE i = m + 1
    <3>1. p + (m + 1) = n + 1 /\ m + 1 \in 1..(m + 1)
      BY <1>1, <1>4
    <3>2. QED  BY <1>2, <1>5, <2>1, <3>1
  <2>2. CASE i # m + 1
    <3>1. i \in 1..m /\ p + i \in 1..n
      BY <1>1, <1>4, <2>2
    <3>2. s2[i] = s[i] /\ t2[p + i] = t[p + i] /\ s[i] = t[p + i]
      BY <1>2, <1>3, <3>1
    <3>3. QED  BY <1>5, <3>2
  <2>3. QED  BY <2>1, <2>2
<1>7. s2 = u
  BY <1>2, <1>5, <1>6, SeqEqual
<1>8. Len(s2) <= Len(t2) /\ Len(t2) - Len(s2) + 1 = p + 1
  BY <1>1, <1>2, <1>4
<1>9. QED  BY <1>2, <1>7, <1>8 DEF Suffix, u, s2, t2

LEMMA NothingEndsAll ==
    ASSUME NEW S, NEW t \in Seq(S)
    PROVE  Suffix(<<>>, t)
<1>1. Len(<<>>) = 0 /\ Len(t) \in Nat
  OBVIOUS
<1>2. SubSeq(t, Len(t) + 1, Len(t)) = <<>>
  BY <1>1
<1>3. Len(t) - 0 + 1 = Len(t) + 1
  BY <1>1
<1>4. QED  BY <1>1, <1>2, <1>3 DEF Suffix
-----------------------------------------------------------------------------
(* The store logs of calls inside each other *)

\* Of an outer call that logs its store, the log ends with what was written in
\* the inner one; with all of its log if both log all operations.
Nested(outer, inner) ==
    /\ outer.log # "nothing" => Suffix(Writes(inner.io), Writes(outer.io))
    /\ (outer.log = "all" /\ inner.log = "all") => Suffix(inner.io, outer.io)

LEMMA IoTypes ==
    ASSUME NEW x \in Spans
    PROVE  x.io \in Seq(Recs) /\ Writes(x.io) \in Seq(Recs)
<1>1. x.io \in Seq(Recs)
  BY DEF Spans, Recs
<1>2. QED  BY <1>1, WritesTypes

LEMMA NestKeeps ==
    ASSUME NEW x, NEW y, NEW x2, NEW y2, Nested(x, y),
           x2.log = x.log, y2.log = y.log, IoKept(x, x2), IoKept(y, y2)
    PROVE  Nested(x2, y2)
  BY DEF Nested, IoKept

\* A call begins inside of another.
LEMMA NestStarts ==
    ASSUME NEW x \in Spans, NEW y, y.io = <<>>
    PROVE  Nested(x, y)
<1>1. x.io \in Seq(Recs) /\ Writes(x.io) \in Seq(Recs)
  BY IoTypes
<1>2. Suffix(<<>>, x.io) /\ Suffix(<<>>, Writes(x.io))
  BY <1>1, NothingEndsAll
<1>3. QED  BY <1>2, NoWrites DEF Nested

\* An operation inside of both calls.
LEMMA NestGrows ==
    ASSUME NEW x \in Spans, NEW y \in Spans, NEW x2, NEW y2, Nested(x, y),
           x2.log = x.log, y2.log = y.log,
           NEW op \in {"read", "write"}, NEW k \in Key,
           IoKept(x, x2) \/ IoGrown(x, x2, <<op, k>>),
           IoKept(y, y2) \/ IoGrown(y, y2, <<op, k>>),
           x.log = "all" => IoGrown(x, x2, <<op, k>>),
           y.log = "all" => IoGrown(y, y2, <<op, k>>),
           (op = "write" /\ x.log # "nothing") => IoGrown(x, x2, <<op, k>>),
           (op = "write" /\ y.log # "nothing") => IoGrown(y, y2, <<op, k>>),
           y.log = "nothing" => y2.io = <<>>
    PROVE  Nested(x2, y2)
<1> DEFINE rec == <<op, k>>
<1>1. /\ x.io \in Seq(Recs) /\ Writes(x.io) \in Seq(Recs)
      /\ y.io \in Seq(Recs) /\ Writes(y.io) \in Seq(Recs)
  BY IoTypes
<1>2. rec \in Recs /\ rec[1] = op
  BY DEF Recs
<1> HIDE DEF rec
<1>3. /\ IoGrown(x, x2, rec) => /\ x2.io = Append(x.io, rec)
                                /\ Writes(x2.io) = WithWrite(Writes(x.io), rec)
      /\ IoGrown(y, y2, rec) => /\ y2.io = Append(y.io, rec)
                                /\ Writes(y2.io) = WithWrite(Writes(y.io), rec)
      /\ IoKept(x, x2) => x2.io = x.io /\ Writes(x2.io) = Writes(x.io)
      /\ IoKept(y, y2) => y2.io = y.io /\ Writes(y2.io) = Writes(y.io)
  BY <1>1, <1>2, WritesGrow DEF IoGrown, IoKept
<1>4. ASSUME x2.log = "all" /\ y2.log = "all"
      PROVE  Suffix(y2.io, x2.io)
  <2>1. IoGrown(x, x2, rec) /\ IoGrown(y, y2, rec)
    BY <1>4 DEF rec
  <2>2. x2.io = Append(x.io, rec) /\ y2.io = Append(y.io, rec)
    BY <1>3, <2>1
  <2>3. Suffix(y.io, x.io)
    BY <1>4 DEF Nested
  <2>4. QED  BY <1>1, <1>2, <2>2, <2>3, SuffixGrows
<1>5. ASSUME x2.log # "nothing"
      PROVE  Suffix(Writes(y2.io), Writes(x2.io))
  <2>1. Suffix(Writes(y.io), Writes(x.io))
    BY <1>5 DEF Nested
  <2>2. CASE op = "read"
    <3>1. \A w : WithWrite(w, rec) = w
      BY <1>2, <2>2 DEF WithWrite
    <3>2. Writes(x2.io) = Writes(x.io) /\ Writes(y2.io) = Writes(y.io)
      BY <1>3, <3>1 DEF rec
    <3>3. QED  BY <2>1, <3>2
  <2>3. CASE op = "write"
    <3>1. \A w : WithWrite(w, rec) = Append(w, rec)
      BY <1>2, <2>3 DEF WithWrite
    <3>2. IoGrown(x, x2, rec)
      BY <1>5, <2>3 DEF rec
    <3>3. Writes(x2.io) = Append(Writes(x.io), rec)
      BY <1>3, <3>1, <3>2
    <3>4. CASE y.log # "nothing"
      <4>1. IoGrown(y, y2, rec)
        BY <2>3, <3>4 DEF rec
      <4>2. Writes(y2.io) = Append(Writes(y.io), rec)
        BY <1>3, <3>1, <4>1
      <4>3. QED  BY <1>1, <1>2, <2>1, <3>3, <4>2, SuffixGrows
    <3>5. CASE y.log = "nothing"
      <4>1. Writes(y2.io) = <<>>
        BY <3>5, NoWrites
      <4>2. Append(Writes(x.io), rec) \in Seq(Recs)
        BY <1>1, <1>2
      <4>3. QED  BY <3>3, <4>1, <4>2, NothingEndsAll
    <3>6. QED  BY <3>4, <3>5
  <2>4. QED  BY <2>2, <2>3
<1>6. QED  BY <1>4, <1>5 DEF Nested

\* What steps do to the store logs: nothing, or one operation is recorded.
IosStay ==
    /\ Len(spans') >= Len(spans)
    /\ \A s \in 1..Len(spans) : IoKept(spans[s], spans'[s])
    /\ \A s \in (Len(spans) + 1)..Len(spans') : spans'[s].io = <<>>

Operates(op, k, records) ==
    /\ UNCHANGED stack /\ Len(spans') = Len(spans)
    /\ \A s \in 1..Len(spans) :
          /\ s \in records => IoGrown(spans[s], spans'[s], <<op, k>>)
          /\ s \notin records => IoKept(spans[s], spans'[s])

RecordsOf(ms, op) == {KVStoreRecords(ms, op), StoreRecords(ms, op)}

LEMMA Operations ==
    ASSUME TypeInv, NEW op \in {"read", "write"}, NEW k \in Key, NEW v \in Value,
           KVStore(op, k, v) \/ Store(op, k, v)
    PROVE  IosStay \/ \E records \in RecordsOf(Top.ms, op) : Operates(op, k, records)
<1>1. /\ spans \in Seq(Spans) /\ Len(spans) \in Nat /\ gas \in Nat /\ AccessGas \in Nat
      /\ UNCHANGED stack
  BY TopFacts, ConstantsAssumption DEF TypeInv, TypeOK, KVStore, Store
<1> DEFINE sp == Charged(spans, AccessGas)
<1>2. /\ sp \in Seq(Spans) /\ Len(sp) = Len(spans)
      /\ \A s \in 1..Len(spans) : IoKept(spans[s], sp[s])
  <2>1. ConsumeGasTrace(AccessGas, gas) \in GasTraces
    BY <1>1 DEF ConsumeGasTrace, NewGasTrace, GasTraces
  <2>2. QED  BY <1>1, <2>1, MeteredFields, ChargedTypes DEF Charged
<1> HIDE DEF sp
<1>3. \A s \in 1..Len(spans) : IoKept(spans[s], spans[s])
  BY DEF IoKept
<1>4. ASSUME NEW sq \in Seq(Spans), Len(sq) = Len(spans),
             \A s \in 1..Len(spans) : IoKept(spans[s], sq[s]),
             NEW records, NEW charges, spans' = Recorded(sq, records, charges, op, k)
      PROVE  Operates(op, k, records)
  <2>1. Len(spans') = Len(spans)
    <3>1. Len(Recorded(sq, records, charges, op, k)) = Len(sq)
      BY RecordedTypes
    <3>2. QED  BY <1>4, <3>1
  <2>2. \A s \in 1..Len(spans) :
          /\ s \in records => IoGrown(sq[s], spans'[s], <<op, k>>)
          /\ s \notin records => IoKept(sq[s], spans'[s])
    BY <1>4, RecordedFields
  <2>3. QED  BY <1>1, <1>4, <2>1, <2>2 DEF Operates, IoKept, IoGrown
<1>5. CASE Store(op, k, v)
  <2>1. spans' = Recorded(spans, StoreRecords(Top.ms, op), StoreCharges(Top.ms), op, k)
    BY <1>5 DEF Store
  <2>2. Operates(op, k, StoreRecords(Top.ms, op))
    BY <1>1, <1>3, <1>4, <2>1
  <2>3. QED  BY <2>2 DEF RecordsOf
<1>6. CASE KVStore(op, k, v)
  <2>1. \/ spans' = sp
        \/ spans' = Recorded(sp, KVStoreRecords(Top.ms, op), KVStoreCharges(Top.ms), op, k)
    BY <1>6 DEF KVStore, sp
  <2>2. CASE spans' = sp
    BY <1>1, <1>2, <2>2 DEF IosStay
  <2>3. CASE spans' = Recorded(sp, KVStoreRecords(Top.ms, op), KVStoreCharges(Top.ms), op, k)
    <3>1. Operates(op, k, KVStoreRecords(Top.ms, op))
      BY <1>2, <1>4, <2>3
    <3>2. QED  BY <3>1 DEF RecordsOf
  <2>4. QED  BY <2>1, <2>2, <2>3
<1>7. QED  BY <1>5, <1>6

LEMMA IoSteps ==
    ASSUME StackInv, [Next]_vars
    PROVE  \/ IosStay
           \/ \E op \in {"read", "write"}, k \in Key :
                 \E records \in RecordsOf(Top.ms, op) : Operates(op, k, records)
<1>0. /\ TypeInv /\ spans \in Seq(Spans) /\ Len(spans) \in Nat /\ gas \in Nat
      /\ Top \in Contexts /\ Top.ignoring \in Seq(IgnoringCalls) /\ Top.em \in Seq(Event)
  BY TopFacts DEF StackInv, Contexts, TypeInv, TypeOK
<1>1. ASSUME UNCHANGED spans
      PROVE  IosStay
  BY <1>0, <1>1 DEF IosStay, IoKept
<1>2. ASSUME NEW n \in {1, 2}, ConsumeGas(n) \/ RefundGas(n)
      PROVE  IosStay
  <2>1. ConsumeGasTrace(n, gas) \in GasTraces /\ RefundGasTrace(n, gas) \in GasTraces
    BY <1>0 DEF ConsumeGasTrace, RefundGasTrace, NewGasTrace, GasTraces
  <2>2. ASSUME NEW trace \in GasTraces, spans' = Metered(spans, trace)
        PROVE  IosStay
    <3>1. Len(spans') = Len(spans) /\ \A s \in 1..Len(spans) : IoKept(spans[s], spans'[s])
      BY <1>0, <2>2, MeteredTypes, MeteredFields
    <3>2. QED  BY <1>0, <3>1 DEF IosStay
  <2>3. \/ spans' = Metered(spans, ConsumeGasTrace(n, gas))
        \/ spans' = Metered(spans, RefundGasTrace(n, gas))
    BY <1>2 DEF ConsumeGas, RefundGas, Charged, Credited
  <2>4. QED  BY <2>1, <2>2, <2>3
<1>3. ASSUME NEW log \in LogSetting, StartSpan(log)
      PROVE  IosStay
  <2>1. /\ Len(spans') = Len(spans) + 1
        /\ \A s \in 1..Len(spans) : spans'[s] = spans[s]
        /\ spans'[Len(spans) + 1].io = <<>>
    BY <1>0, <1>3, StartFields
  <2>2. \A s \in (Len(spans) + 1)..Len(spans') : s = Len(spans) + 1
    BY <1>0, <2>1
  <2>3. QED  BY <1>0, <2>1, <2>2 DEF IosStay, IoKept
<1>4. ASSUME NEW ids, spans' = Lost(ids)
      PROVE  IosStay
  BY <1>0, <1>4, LostTypes, LostFields DEF IosStay, IoKept
<1>5. ASSUME NEW failed \in BOOLEAN, Return(failed)
      PROVE  IosStay
  <2>1. /\ spans' = [spans EXCEPT ![Top.span] = Finished(@, Top.clock, Top.em, failed)]
        /\ Top.kind = "call"
    BY <1>5 DEF Return
  <2>2. Top.span \in 1..Len(spans) /\ Top.clock \in Clocks
    BY <1>0, <2>1, TopFacts
  <2>3. Len(spans') = Len(spans) /\ \A s \in 1..Len(spans) : spans'[s].io = spans[s].io
    BY <1>0, <2>1, <2>2, FinishFields
  <2>4. QED  BY <1>0, <2>3 DEF IosStay, IoKept
<1>6. ASSUME NEW failed \in BOOLEAN, ReturnIgnoring(failed)
      PROVE  IosStay
  <2> DEFINE call == Top.ignoring[Len(Top.ignoring)]
  <2>1. /\ spans' = [spans EXCEPT ![call.span] = Finished(@, call.clock, <<>>, failed)]
        /\ Top.ignoring # <<>>
    BY <1>6 DEF ReturnIgnoring
  <2>2. Started(Top.ignoring, Len(spans))
    BY <1>0, TopFacts DEF TypeInv, ContextsLineUp, SpansExist, Top
  <2>3. call.span \in 1..Len(spans) /\ call.clock \in Clocks /\ <<>> \in Seq(Event)
    <3>1. Len(Top.ignoring) \in 1..Len(Top.ignoring) /\ call \in IgnoringCalls
      BY <1>0, <2>1
    <3>2. QED  BY <2>2, <3>1 DEF Started, IgnoringCalls
  <2> HIDE DEF call
  <2>4. Len(spans') = Len(spans) /\ \A s \in 1..Len(spans) : spans'[s].io = spans[s].io
    BY <1>0, <2>1, <2>3, FinishFields
  <2>5. QED  BY <1>0, <2>4 DEF IosStay, IoKept
<1>7. CASE \/ \E e \in Event : EmitEvent(e)
           \/ OpenBranch \/ Commit \/ Discard \/ Panic \/ Done \/ Tick \/ UNCHANGED vars
  BY <1>1, <1>7 DEF EmitEvent, OpenBranch, Commit, Discard, Panic, Done, Tick, vars
<1>8. ASSUME UnwindCall \/ Abort \/ \E recovered \in BOOLEAN : UnwindBranch(recovered)
      PROVE  IosStay
  BY <1>4, <1>8 DEF UnwindCall, Abort, UnwindBranch
<1>9. ASSUME CallIgnoring \/ \E log \in LogSetting : Call(log)
      PROVE  IosStay
  BY <1>3, <1>9 DEF CallIgnoring, Call, LogSetting
<1>10. QED
  BY <1>0, <1>2, <1>5, <1>6, <1>7, <1>8, <1>9, Operations DEF Next, Program, Unwinding, Terminated

\* A layer that leaves reads out is that of a call that logs writes only.
Flagged(ms, sp) ==
    \A j \in 1..Len(ms.layers) :
        ms.layers[j].writesOnly => sp[ms.layers[j].span].log = "writesOnly"

FlagsOK == \A i \in 1..Depth : Flagged(stack[i].ms, spans)

\* A call that does not log its store has nothing in its log.
Silent == \A s \in 1..Len(spans) : spans[s].log = "nothing" => spans[s].io = <<>>

NestOK ==
    \A i, j \in 1..Depth : (i < j /\ AllCalls(stack, i, j)) =>
        Nested(spans[stack[i].span], spans[stack[j].span])

NestInv == LayersInv /\ FlagsOK /\ Silent /\ NestOK

\* Who records an operation in the running context.
LEMMA Recorders ==
    ASSUME NEW ms \in MultiStores, NEW sp, Flagged(ms, sp),
           NEW op \in {"read", "write"}, NEW records \in RecordsOf(ms, op)
    PROVE  /\ \A s \in records : s \in SpansOf(ms)
           /\ op = "write" => \A s \in SpansOf(ms) : s \in records
           /\ \A s \in SpansOf(ms) : sp[s].log = "all" => s \in records
<1>1. /\ Len(ms.layers) \in Nat /\ DOMAIN ms.layers = 1..Len(ms.layers)
  BY DEF MultiStores
<1>2. \A s \in KVStoreRecords(ms, op) : s \in SpansOf(ms)
  BY DEF KVStoreRecords, SpansOf
<1>3. Len(ms.layers) # 0 => ms.layers[Len(ms.layers)].span \in SpansOf(ms)
  BY <1>1 DEF SpansOf
<1>4. \A s \in StoreRecords(ms, op) : s \in SpansOf(ms)
  BY <1>2, <1>3 DEF StoreRecords
<1>5. \A s \in SpansOf(ms) : sp[s].log = "all" => s \in KVStoreRecords(ms, op)
  <2>1. ASSUME NEW s \in SpansOf(ms), sp[s].log = "all"
        PROVE  s \in KVStoreRecords(ms, op)
    <3>1. PICK j \in 1..Len(ms.layers) : s = ms.layers[j].span
      BY <1>1 DEF SpansOf
    <3>2. ~ms.layers[j].writesOnly
      BY <2>1, <3>1 DEF Flagged
    <3>3. QED  BY <1>1, <3>1, <3>2 DEF KVStoreRecords
  <2>2. QED  BY <2>1
<1>6. op = "write" => \A s \in SpansOf(ms) : s \in KVStoreRecords(ms, op)
  BY WriteRecords
<1>7. \A s \in KVStoreRecords(ms, op) : s \in StoreRecords(ms, op)
  BY DEF StoreRecords
<1>8. records = KVStoreRecords(ms, op) \/ records = StoreRecords(ms, op)
  BY DEF RecordsOf
<1>9. QED  BY <1>2, <1>4, <1>5, <1>6, <1>7, <1>8

LEMMA CallSpans ==
    ASSUME StackInv
    PROVE  /\ \A i \in 1..Depth : stack[i].kind = "call" => stack[i].span \in 1..Len(spans)
           /\ \A i, j \in 1..Depth :
                 (stack[i].kind = "call" /\ stack[j].kind = "call" /\ stack[i].span = stack[j].span)
                     => i = j
<1>1. \A i \in 1..Depth : stack[i].kind = "call" => stack[i].span \in 1..Len(spans)
  BY DEF StackInv, TypeInv, ContextsLineUp, SpansExist
<1>2. Depth \in Nat /\ Len(spans) \in Nat
  BY TopFacts DEF StackInv
<1>3. ASSUME NEW i \in 1..Depth, NEW j \in 1..Depth, i < j,
             stack[i].kind = "call", stack[j].kind = "call"
      PROVE  stack[i].span # stack[j].span
  <2> DEFINE r == [span |-> stack[i].span, clock |-> stack[i].clock]
             q == [span |-> stack[j].span, clock |-> stack[j].clock]
  <2>1. r \in CallsOf(stack[i]) /\ q \in CallsOf(stack[j])
    BY <1>3 DEF CallsOf
  <2>2. r.span < q.span
    BY <1>3, <2>1 DEF StackInv, Ordered
  <2>3. r.span \in Nat /\ q.span \in Nat
    BY <1>1, <1>2, <1>3
  <2>4. r.span # q.span
    BY <2>2, <2>3
  <2>5. QED  BY <2>4
<1>4. ASSUME NEW i \in 1..Depth, NEW j \in 1..Depth,
             stack[i].kind = "call", stack[j].kind = "call", stack[i].span = stack[j].span
      PROVE  i = j
  <2>1. i < j \/ j < i \/ i = j
    BY <1>2
  <2>2. QED  BY <1>3, <1>4, <2>1
<1>5. QED  BY <1>1, <1>4

LEMMA LayerSpans ==
    ASSUME LayersInv, NEW i \in 1..Depth, NEW s \in SpansOf(stack[i].ms)
    PROVE  s \in 1..Len(spans) /\ spans[s].log # "nothing"
<1>1. PICK j \in 1..i : /\ AllCalls(stack, j, i) /\ stack[j].span = s
                        /\ spans[s].log # "nothing"
  BY DEF LayersInv, LayersOK, Logs
<1>2. j \in 1..Depth /\ j \in j..i
  BY TopFacts DEF LayersInv, StackInv
<1>3. stack[j].kind = "call"
  BY <1>1, <1>2 DEF AllCalls
<1>4. QED  BY <1>1, <1>2, <1>3, CallSpans DEF LayersInv

\* A call logs the operations of the running context if no branch was opened
\* inside of it.
LEMMA Enclosing ==
    ASSUME LayersInv, NEW i \in 1..Depth, stack[i].kind = "call",
           spans[stack[i].span].log # "nothing"
    PROVE  stack[i].span \in SpansOf(Top.ms) <=> AllCalls(stack, i, Depth)
<1>1. Depth \in 1..Depth /\ Top = stack[Depth] /\ StackInv
  BY TopFacts DEF LayersInv, StackInv, Top
<1>2. stack[i].span \in SpansOf(Top.ms) <=> Logs(stack, spans, stack[i].span, Depth)
  BY <1>1 DEF LayersInv, LayersOK
<1>3. ASSUME NEW j \in 1..Depth, AllCalls(stack, j, Depth), stack[j].span = stack[i].span
      PROVE  j = i
  <2>1. j \in j..Depth
    BY <1>1
  <2>2. stack[j].kind = "call"
    BY <1>3, <2>1 DEF AllCalls
  <2>3. QED  BY <1>1, <1>3, <2>2, CallSpans
<1>4. QED  BY <1>2, <1>3 DEF Logs

LEMMA InitNestInv == Init => NestInv
<1> SUFFICES ASSUME Init PROVE NestInv
  OBVIOUS
<1>1. /\ Depth = 1 /\ stack[1].ms.layers = <<>> /\ Len(<<>>) = 0
      /\ Len(spans) = 0
  BY DEF Init, Depth, PlainMultiStore
<1>2. FlagsOK
  BY <1>1 DEF FlagsOK, Flagged
<1>3. Silent /\ NestOK
  BY <1>1 DEF Silent, NestOK
<1>4. QED  BY <1>2, <1>3, InitLayersInv DEF NestInv

\* The layers keep their settings, and a new one has that of its span.
LEMMA NextFlags == LayersInv /\ FlagsOK /\ [Next]_vars => FlagsOK'
<1> SUFFICES ASSUME LayersInv, FlagsOK, [Next]_vars PROVE FlagsOK'
  OBVIOUS
<1>0. /\ StackInv /\ TypeInv /\ Depth \in Nat /\ Depth >= 1 /\ Depth \in 1..Depth
      /\ Top = stack[Depth] /\ Top \in Contexts /\ Len(spans) \in Nat /\ LogsStay
      /\ \A i \in 1..Depth : stack[i].ms \in MultiStores
  <2>1. StackInv /\ TypeInv /\ stack \in Seq(Contexts)
    BY DEF LayersInv, StackInv, TypeInv, TypeOK
  <2>2. \A i \in 1..Depth : stack[i] \in Contexts
    BY <2>1 DEF Depth
  <2>3. \A i \in 1..Depth : stack[i].ms \in MultiStores
    BY <2>2 DEF Contexts
  <2>4. QED  BY <2>1, <2>3, TopFacts, CtxSteps DEF Top
<1>1. ASSUME NEW i \in 1..Depth
      PROVE  Flagged(stack[i].ms, spans')
  <2>1. Flagged(stack[i].ms, spans) /\ stack[i].ms \in MultiStores
    BY <1>0 DEF FlagsOK
  <2>2. ASSUME NEW j \in 1..Len(stack[i].ms.layers)
        PROVE  spans'[stack[i].ms.layers[j].span].log = spans[stack[i].ms.layers[j].span].log
    <3>1. stack[i].ms.layers[j].span \in SpansOf(stack[i].ms)
      BY <2>1 DEF SpansOf, MultiStores
    <3>2. stack[i].ms.layers[j].span \in 1..Len(spans)
      BY <3>1, LayerSpans
    <3>3. QED  BY <1>0, <3>2 DEF LogsStay
  <2>3. QED  BY <2>1, <2>2 DEF Flagged
<1>2. ASSUME NEW n \in Nat, n <= Depth, Keeps(n), NEW i \in 1..n
      PROVE  Flagged(stack'[i].ms, spans')
  <2>1. i \in 1..Depth /\ stack'[i].ms = stack[i].ms
    BY <1>0, <1>2 DEF Keeps
  <2>2. QED  BY <1>1, <2>1
<1>3. ASSUME NEW n \in Nat, CtxsStay(n)
      PROVE  FlagsOK'
  BY <1>2, <1>3 DEF CtxsStay, FlagsOK
<1>4. ASSUME CtxAdded
      PROVE  FlagsOK'
  <2> DEFINE c == stack'[Depth + 1]
             m == Len(spans) + 1
  <2>1. Flagged(Top.ms, spans') /\ Top.ms \in MultiStores
    BY <1>0, <1>1
  <2>2. ASSUME NEW log \in LogSetting, StartSpan(log), c = WorkCtx(log)
        PROVE  Flagged(c.ms, spans')
    <3> DEFINE x == [span |-> m, writesOnly |-> (log = "writesOnly")]
               all == Append(Top.ms.layers, x)
               n == Len(Top.ms.layers)
    <3>1. spans'[m].log = log
      BY <1>0, <2>2, StartFields
    <3>2. c.ms = IF log = "nothing" THEN Top.ms
                 ELSE NewTracingMultiStore(Top.ms, m, log = "writesOnly")
      BY <2>2 DEF WorkCtx
    <3> HIDE DEF c, m
    <3>3. CASE log = "nothing"
      BY <2>1, <3>2, <3>3
    <3>4. CASE log # "nothing"
      <4>1. c.ms.layers = all
        BY <2>1, <3>2, <3>4 DEF NewTracingMultiStore, MultiStores
      <4>2. /\ n \in Nat /\ Len(all) = n + 1 /\ all[n + 1] = x
            /\ \A j \in 1..n : all[j] = Top.ms.layers[j]
        BY <2>1 DEF MultiStores
      <4>3. x.span = m /\ (x.writesOnly => log = "writesOnly")
        OBVIOUS
      <4>4. \A j \in 1..(n + 1) : j \in 1..n \/ j = n + 1
        BY <4>2
      <4> HIDE DEF all, x
      <4>5. \A j \in 1..(n + 1) : all[j].writesOnly => spans'[all[j].span].log = "writesOnly"
        <5>1. \A j \in 1..n : all[j].writesOnly => spans'[all[j].span].log = "writesOnly"
          BY <2>1, <4>2 DEF Flagged
        <5>2. all[n + 1].writesOnly => spans'[all[n + 1].span].log = "writesOnly"
          BY <3>1, <4>2, <4>3
        <5>3. QED  BY <4>4, <5>1, <5>2
      <4>6. QED  BY <4>1, <4>2, <4>5 DEF Flagged
    <3>5. QED  BY <3>3, <3>4
  <2>3. ASSUME c = BranchCtx
        PROVE  Flagged(c.ms, spans')
    <3>1. c.ms = CacheMultiStore(Top.ms)
      BY <1>0, <2>3 DEF BranchCtx, Contexts
    <3>2. c.ms.layers = <<>> /\ Len(<<>>) = 0
      BY <3>1 DEF CacheMultiStore, PlainMultiStore
    <3>3. QED  BY <3>2 DEF Flagged
  <2>4. Flagged(c.ms, spans')
    BY <1>4, <2>2, <2>3 DEF CtxAdded
  <2>5. \A i \in 1..Depth : Flagged(stack'[i].ms, spans')
    BY <1>0, <1>2, <1>4 DEF CtxAdded
  <2>6. \A i \in 1..(Depth + 1) : i \in 1..Depth \/ i = Depth + 1
    BY <1>0
  <2>7. QED  BY <1>4, <2>4, <2>5, <2>6 DEF CtxAdded, FlagsOK
<1>5. QED  BY <1>0, <1>3, <1>4, CtxSteps

LEMMA NextSilent == LayersInv /\ FlagsOK /\ Silent /\ [Next]_vars => Silent'
<1> SUFFICES ASSUME LayersInv, FlagsOK, Silent, [Next]_vars PROVE Silent'
  OBVIOUS
<1>0. /\ StackInv /\ Depth \in 1..Depth /\ Top = stack[Depth] /\ Top.ms \in MultiStores
      /\ Len(spans) \in Nat /\ LogsStay
  BY TopFacts, CtxSteps DEF LayersInv, StackInv, Top, Contexts
<1>1. CASE IosStay
  <2>1. \A s \in 1..Len(spans') : s \in 1..Len(spans) \/ s \in (Len(spans) + 1)..Len(spans')
    BY <1>0, <1>1 DEF IosStay
  <2>2. QED  BY <1>0, <1>1, <2>1 DEF IosStay, IoKept, LogsStay, Silent
<1>2. ASSUME NEW op \in {"read", "write"}, NEW k \in Key,
             NEW records \in RecordsOf(Top.ms, op), Operates(op, k, records)
      PROVE  Silent'
  <2>1. Flagged(Top.ms, spans)
    BY <1>0 DEF FlagsOK
  <2>2. \A s \in records : s \in SpansOf(Top.ms)
    BY <1>0, <2>1, Recorders
  <2>3. \A s \in records : spans[s].log # "nothing"
    BY <1>0, <2>2, LayerSpans
  <2>4. Len(spans') = Len(spans)
    BY <1>2 DEF Operates
  <2>5. ASSUME NEW s \in 1..Len(spans), spans'[s].log = "nothing"
        PROVE  spans'[s].io = <<>>
    <3>1. spans[s].log = "nothing"
      BY <1>0, <2>5 DEF LogsStay
    <3>2. spans'[s].io = spans[s].io
      BY <1>2, <2>3, <3>1 DEF Operates, IoKept
    <3>3. QED  BY <3>1, <3>2 DEF Silent
  <2>6. QED  BY <2>4, <2>5 DEF Silent
<1>3. QED  BY <1>0, <1>1, <1>2, IoSteps

\* No operation is recorded: the calls in progress keep their logs, and that of
\* a new one is empty.
LEMMA NestStays ==
    ASSUME LayersInv, LayersInv', NestOK, [Next]_vars, IosStay
    PROVE  NestOK'
<1>0. /\ StackInv /\ StackInv' /\ Depth \in Nat /\ Top = stack[Depth] /\ Top \in Contexts
      /\ TypeInv /\ Len(spans) \in Nat /\ LogsStay /\ Len(spans') >= Len(spans)
      /\ spans' \in Seq(Spans)
  BY TopFacts, CtxSteps DEF LayersInv, StackInv, Top, IosStay, TypeInv, TypeOK
<1>1. ASSUME NEW n \in Nat, n <= Depth, Keeps(n), NEW i \in 1..n, NEW j \in 1..n, i < j,
             AllCalls(stack', i, j)
      PROVE  Nested(spans'[stack'[i].span], spans'[stack'[j].span])
  <2>1. i \in 1..Depth /\ j \in 1..Depth /\ i \in i..j /\ j \in i..j
        /\ \A k \in i..j : k \in 1..n
    BY <1>0, <1>1
  <2>2. AllCalls(stack, i, j) /\ stack[i].kind = "call" /\ stack[j].kind = "call"
    BY <1>1, <2>1 DEF Keeps, AllCalls
  <2>3. /\ stack[i].span \in 1..Len(spans) /\ stack[j].span \in 1..Len(spans)
        /\ stack'[i].span = stack[i].span /\ stack'[j].span = stack[j].span
    BY <1>0, <1>1, <2>1, <2>2, CallSpans DEF Keeps
  <2>4. Nested(spans[stack[i].span], spans[stack[j].span])
    BY <1>1, <2>1, <2>2 DEF NestOK
  <2>5. /\ IoKept(spans[stack[i].span], spans'[stack[i].span])
        /\ IoKept(spans[stack[j].span], spans'[stack[j].span])
        /\ spans'[stack[i].span].log = spans[stack[i].span].log
        /\ spans'[stack[j].span].log = spans[stack[j].span].log
    BY <1>0, <2>3 DEF IosStay, LogsStay
  <2>6. Nested(spans'[stack[i].span], spans'[stack[j].span])
    BY <2>4, <2>5, NestKeeps
  <2>7. QED  BY <2>3, <2>6
<1>2. ASSUME NEW n \in Nat, CtxsStay(n)
      PROVE  NestOK'
  BY <1>1, <1>2 DEF CtxsStay, NestOK
<1>3. ASSUME CtxAdded
      PROVE  NestOK'
  <2>1. ASSUME NEW i \in 1..Depth, AllCalls(stack', i, Depth + 1)
        PROVE  Nested(spans'[stack'[i].span], spans'[stack'[Depth + 1].span])
    <3>1. i \in i..(Depth + 1) /\ Depth + 1 \in i..(Depth + 1) /\ i \in 1..(Depth + 1)
      BY <1>0
    <3>2. stack'[i].kind = "call" /\ stack'[Depth + 1].kind = "call"
      BY <2>1, <3>1 DEF AllCalls
    <3>3. BranchCtx.kind = "branch"
      BY <1>0 DEF BranchCtx, Contexts
    <3>4. PICK log \in LogSetting : StartSpan(log) /\ stack'[Depth + 1] = WorkCtx(log)
      BY <1>3, <3>2, <3>3 DEF CtxAdded
    <3>5. stack'[Depth + 1].span = Len(spans) + 1 /\ spans'[Len(spans) + 1].io = <<>>
      <4>1. WorkCtx(log).span = Len(spans) + 1
        BY DEF WorkCtx
      <4>2. spans'[Len(spans) + 1].io = <<>>
        BY <1>0, <3>4, StartFields
      <4>3. QED  BY <3>4, <4>1, <4>2
    <3>6. stack'[i].span \in 1..Len(spans')
      <4>1. i \in 1..Depth'
        BY <1>3, <3>1 DEF CtxAdded
      <4>2. QED
        BY <1>0, <3>2, <4>1 DEF StackInv, TypeInv, ContextsLineUp, SpansExist
    <3>7. spans'[stack'[i].span] \in Spans
      BY <1>0, <3>6
    <3>8. QED  BY <3>5, <3>7, NestStarts
  <2>2. \A i, j \in 1..(Depth + 1) :
           i < j => i \in 1..Depth /\ (j \in 1..Depth \/ j = Depth + 1)
    BY <1>0
  <2>3. Keeps(Depth) /\ Depth <= Depth /\ Depth' = Depth + 1
    BY <1>0, <1>3 DEF CtxAdded
  <2>4. \A i, j \in 1..Depth : (i < j /\ AllCalls(stack', i, j)) =>
           Nested(spans'[stack'[i].span], spans'[stack'[j].span])
    BY <1>0, <1>1, <2>3
  <2>5. QED  BY <2>1, <2>2, <2>3, <2>4 DEF NestOK
<1>4. QED  BY <1>0, <1>2, <1>3, CtxSteps

\* An operation is recorded by both calls, or by neither.
LEMMA NestOperates ==
    ASSUME NestInv, Silent', LogsStay,
           NEW op \in {"read", "write"}, NEW k \in Key,
           NEW records \in RecordsOf(Top.ms, op), Operates(op, k, records)
    PROVE  NestOK'
<1>0. /\ StackInv /\ LayersInv /\ Depth \in 1..Depth /\ Top = stack[Depth]
      /\ Depth \in Nat /\ Top.ms \in MultiStores /\ Len(spans) \in Nat /\ spans \in Seq(Spans)
      /\ FlagsOK
  BY TopFacts DEF NestInv, LayersInv, StackInv, Top, Contexts, TypeInv, TypeOK
<1>1. Flagged(Top.ms, spans)
  BY <1>0 DEF FlagsOK
<1>2. /\ \A s \in records : s \in SpansOf(Top.ms)
      /\ op = "write" => \A s \in SpansOf(Top.ms) : s \in records
      /\ \A s \in SpansOf(Top.ms) : spans[s].log = "all" => s \in records
  BY <1>0, <1>1, Recorders
<1>3. UNCHANGED stack /\ Depth' = Depth /\ Len(spans') = Len(spans)
      /\ \A s \in 1..Len(spans) :
            /\ s \in records => IoGrown(spans[s], spans'[s], <<op, k>>)
            /\ s \notin records => IoKept(spans[s], spans'[s])
  BY DEF Operates, Depth
<1>4. ASSUME NEW i \in 1..Depth, NEW j \in 1..Depth, i < j, AllCalls(stack, i, j)
      PROVE  Nested(spans'[stack[i].span], spans'[stack[j].span])
  <2> DEFINE s == stack[i].span
             t == stack[j].span
  <2>1. i \in i..j /\ j \in i..j
    BY <1>4
  <2>2. stack[i].kind = "call" /\ stack[j].kind = "call"
    BY <1>4, <2>1 DEF AllCalls
  <2>3. s \in 1..Len(spans) /\ t \in 1..Len(spans)
    BY <1>0, <2>2, CallSpans
  <2>4. Nested(spans[s], spans[t])
    BY <1>4 DEF NestInv, NestOK
  <2>5. AllCalls(stack, i, Depth) <=> AllCalls(stack, j, Depth)
    <3>1. \A h \in i..Depth : h \in i..j \/ h \in j..Depth
      BY <1>0, <1>4
    <3>2. \A h \in j..Depth : h \in i..Depth
      BY <1>0, <1>4
    <3>3. QED  BY <1>4, <3>1, <3>2 DEF AllCalls
  <2>6. /\ spans[s].log # "nothing" => (s \in SpansOf(Top.ms) <=> AllCalls(stack, i, Depth))
        /\ spans[t].log # "nothing" => (t \in SpansOf(Top.ms) <=> AllCalls(stack, j, Depth))
    BY <1>0, <2>2, Enclosing
  <2>7. /\ s \in SpansOf(Top.ms) => spans[s].log # "nothing"
        /\ t \in SpansOf(Top.ms) => spans[t].log # "nothing"
    BY <1>0, LayerSpans
  <2>8. /\ spans'[s].log = spans[s].log /\ spans'[t].log = spans[t].log
        /\ spans[s] \in Spans /\ spans[t] \in Spans
    BY <1>0, <2>3 DEF LogsStay
  <2>9. spans[t].log = "nothing" => spans'[t].io = <<>>
    BY <1>3, <2>3, <2>8 DEF Silent
  <2> HIDE DEF s, t
  <2>10. /\ IoKept(spans[s], spans'[s]) \/ IoGrown(spans[s], spans'[s], <<op, k>>)
         /\ IoKept(spans[t], spans'[t]) \/ IoGrown(spans[t], spans'[t], <<op, k>>)
    BY <1>3, <2>3
  <2>11. CASE AllCalls(stack, i, Depth)
    <3>1. /\ spans[s].log # "nothing" => s \in SpansOf(Top.ms)
          /\ spans[t].log # "nothing" => t \in SpansOf(Top.ms)
      BY <2>5, <2>6, <2>11
    <3>2. /\ spans[s].log = "all" => IoGrown(spans[s], spans'[s], <<op, k>>)
          /\ spans[t].log = "all" => IoGrown(spans[t], spans'[t], <<op, k>>)
      BY <1>2, <1>3, <2>3, <3>1
    <3>3. /\ (op = "write" /\ spans[s].log # "nothing")
                => IoGrown(spans[s], spans'[s], <<op, k>>)
          /\ (op = "write" /\ spans[t].log # "nothing")
                => IoGrown(spans[t], spans'[t], <<op, k>>)
      BY <1>2, <1>3, <2>3, <3>1
    <3>4. Nested(spans'[s], spans'[t])
      BY <2>4, <2>8, <2>9, <2>10, <3>2, <3>3, NestGrows
    <3>5. QED  BY <3>4 DEF s, t
  <2>12. CASE ~AllCalls(stack, i, Depth)
    <3>1. s \notin records /\ t \notin records
      BY <1>2, <2>5, <2>6, <2>7, <2>12
    <3>2. IoKept(spans[s], spans'[s]) /\ IoKept(spans[t], spans'[t])
      BY <1>3, <2>3, <3>1
    <3>3. Nested(spans'[s], spans'[t])
      BY <2>4, <2>8, <3>2, NestKeeps
    <3>4. QED  BY <3>3 DEF s, t
  <2>13. QED  BY <2>11, <2>12
<1>5. QED  BY <1>3, <1>4 DEF NestOK

LEMMA NextNestInv == NestInv /\ [Next]_vars => NestInv'
<1> SUFFICES ASSUME NestInv, [Next]_vars PROVE NestInv'
  OBVIOUS
<1>1. LayersInv' /\ FlagsOK' /\ Silent'
  BY NextLayersInv, NextFlags, NextSilent DEF NestInv
<1>2. LogsStay
  BY CtxSteps DEF NestInv, LayersInv
<1>3. ASSUME IosStay
      PROVE  NestOK'
  BY <1>1, <1>3, NestStays DEF NestInv
<1>4. ASSUME NEW op \in {"read", "write"}, NEW k \in Key,
             NEW records \in RecordsOf(Top.ms, op), Operates(op, k, records)
      PROVE  NestOK'
  BY <1>1, <1>2, <1>4, NestOperates
<1>5. IosStay \/ \E op \in {"read", "write"}, k \in Key :
                    \E records \in RecordsOf(Top.ms, op) : Operates(op, k, records)
  BY IoSteps DEF NestInv, LayersInv
<1>6. NestOK'
  BY <1>3, <1>4, <1>5
<1>7. QED  BY <1>1, <1>6 DEF NestInv

\* The store log of a call in progress contains that of the calls inside it:
\* their writes are the last it recorded and, if both log all operations, their
\* records are its last records (the layers of store.go:33-66).
THEOREM StoreLogsAreNested == Spec => []StoreLogsNest
<1>1. NestInv => StoreLogsNest
  <2> SUFFICES ASSUME NestInv, NEW i \in DOMAIN stack, NEW j \in DOMAIN stack,
                      i < j, Encloses(i)
               PROVE  Nested(spans[stack[i].span], spans[stack[j].span])
    BY DEF StoreLogsNest, Nested
  <2>1. /\ DOMAIN stack = 1..Depth /\ Depth \in Nat
    BY TopFacts DEF NestInv, LayersInv, StackInv, Depth, TypeInv, TypeOK
  <2>2. \A k \in i..j : k \in i..Depth
    BY <2>1
  <2>3. AllCalls(stack, i, j)
    BY <2>2 DEF Encloses, AllCalls
  <2>4. QED  BY <2>1, <2>3 DEF NestInv, NestOK
<1>2. QED  BY <1>1, InitNestInv, NextNestInv, PTL DEF Spec
=============================================================================
