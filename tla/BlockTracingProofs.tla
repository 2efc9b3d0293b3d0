-------------------------- MODULE BlockTracingProofs --------------------------
(***************************************************************************)
(* That blocks are committed as module.Manager would commit them, and that *)
(* their traces are complete, for every order of modules, every program of *)
(* the blockers and any number of crashes.                                 *)
(*                                                                         *)
(* The reference, ManagerEvents, is a recursive function.  That it is what *)
(* its definition says takes an induction: NatWellFounded has it from the  *)
(* well-foundedness of the naturals, as a statement about a set.           *)
(***************************************************************************)
EXTENDS BlockTracing, FiniteSetTheorems, SequenceTheorems, WellFoundedInduction, TLAPS

-----------------------------------------------------------------------------
(* The invariant *)

\* The events of the first n steps of a blocker, and the steps after them.
FirstEvents(k, m, program, n) == [i \in 1..n |-> EventOf(k, m, program[i])]
StepsAfter(program, n) == [i \in 1..(Len(program) - n) |-> program[n + i]]

NoPanic(program, n) == \A i \in 1..n : program[i] # "panic"

\* The blockers of the first n modules of the order are none of them to panic.
NonePanics(b, k, n) ==
    \A i \in 1..n : Order[k][i] \in Blockers[k] =>
        NoPanic(b[k][Order[k][i]], Len(b[k][Order[k][i]]))

\* Those of the first n modules that have validator updates.
UpdatingFirst(b, n) == {m \in b.updating : \E i \in 1..n : EndOrder[i] = m}

\* The modules that have been run; the running one is not among them.
ModulesRun == IF Running THEN pos - 1 ELSE pos

\* The frames of a handler between two modules, and of a blocker.
HandlerDepth == IF tracerEnabled THEN 2 ELSE 1

\* The event managers of a handler and a blocker, with the events of the modules
\* before and those of the blocker.
Holds(traced, st, before, own) ==
    IF traced
    THEN st[1].em = <<>> /\ st[2].em = before /\ st[3].em = own
    ELSE st[1].em = before \o own

\* What they hold when n steps of the running blocker are done.
EventsAfter(n) ==
    Holds(tracerEnabled, stack, EventsOfFirst(block, pc)[pos - 1],
          FirstEvents(pc, Current, block[pc][Current], n))

Blocking(n) ==
    /\ Depth = Base
    /\ todo = StepsAfter(block[pc][Current], n)
    /\ EventsAfter(n)

Migrating(n) ==
    /\ n < Len(block[pc][Current])
    /\ block[pc][Current][n + 1] = "migrate"
    /\ Depth = Base + 1
    /\ LET rest == StepsAfter(block[pc][Current], n + 1)
       IN  \/ todo = <<"emit", "migrated">> \o rest /\ stack[Depth].em = <<>>
           \/ todo = <<"migrated">> \o rest
              /\ stack[Depth].em = << EventOf(pc, Current, "migrate") >>
    /\ EventsAfter(n)

InBlocker ==
    /\ pos >= 1 /\ Current \in Blockers[pc]
    /\ \E n \in 0..Len(block[pc][Current]) :
        /\ NoPanic(block[pc][Current], n)
        /\ Blocking(n) \/ Migrating(n)

BetweenBlockers ==
    /\ Depth = HandlerDepth
    /\ tracerEnabled => stack[1].em = <<>>
    /\ stack[Depth].em = EventsOfFirst(block, pc)[pos]

HandlerRuns ==
    InHandler =>
        /\ pos \in 0..Len(Order[pc])
        /\ IF Running THEN InBlocker ELSE BetweenBlockers
        /\ NonePanics(block, pc, ModulesRun)
        /\ updates = IF pc = "end" THEN UpdatingFirst(block, ModulesRun) ELSE {}
        /\ updates = {} \/ \E m \in Module : updates = {m}

HandlersRan ==
    /\ pc \in {"begun", "end", "ended"} =>
        /\ NonePanics(block, "begin", Len(BeginOrder))
        /\ response.begin = ManagerEvents("begin")
    /\ pc = "ended" =>
        /\ NonePanics(block, "end", Len(EndOrder))
        /\ response.end = ManagerEvents("end")
        /\ response.updates = block.updating
        /\ block.updating = {} \/ \E m \in Module : block.updating = {m}

BlockInv ==
    /\ pc \in {"idle", "begin", "begun", "end", "ended", "down"}
    /\ pc \in {"begin", "begun", "end", "ended"} => block \in Blocks
    /\ block \in Blocks \cup {NoBlock}
    /\ ~InHandler => todo = Waiting
    /\ tracerEnabled \in BOOLEAN
    /\ stack \in Seq(Frames) /\ spans \in Seq(Spans)
    /\ response \in Responses
    /\ HandlerRuns
    /\ HandlersRan

-----------------------------------------------------------------------------
(* Induction *)

\* Every set of naturals that holds zero and with each number the next is Nat.
LEMMA NatWellFounded ==
    ASSUME NEW S, 0 \in S, \A n \in Nat : n \in S => n + 1 \in S
    PROVE  \A n \in Nat : n \in S
<1> DEFINE Less == {ss \in Nat \X Nat : ss[1] < ss[2]}
           Left == Nat \ S
<1>1. IsWellFoundedOn(Less, Nat)
  BY NatLessThanWellFounded DEF OpToRel
<1>2. ASSUME Left # {}
      PROVE  FALSE
  <2> HIDE DEF Less
  <2>1. PICK x \in Left : \A y \in Left : <<y, x>> \notin Less
    BY <1>1, <1>2, WFMin
  <2>2. x \in Nat /\ x \notin S /\ x # 0
    BY <2>1
  <2>3. x - 1 \in Nat /\ <<x - 1, x>> \in Less
    BY <2>2 DEF Less
  <2>4. x - 1 \in S
    BY <2>1, <2>3
  <2>5. QED  BY <2>2, <2>3, <2>4
<1>3. QED  BY <1>2

\* Pieces can be put together one after the other.
LEMMA Concatenated ==
    ASSUME NEW N \in Nat, NEW piece
    PROVE  \E f : f = [n \in 0..N |-> IF n = 0 THEN <<>> ELSE f[n - 1] \o piece[n]]
<1> DEFINE To(n, f) == f = [i \in 0..n |-> IF i = 0 THEN <<>> ELSE f[i - 1] \o piece[i]]
           S == {n \in Nat : \E f : To(n, f)}
<1>1. 0 \in S
  <2>1. To(0, [i \in 0..0 |-> <<>>])
    OBVIOUS
  <2>2. QED  BY <2>1
<1>2. ASSUME NEW n \in Nat, n \in S
      PROVE  n + 1 \in S
  <2>1. PICK f : To(n, f)
    BY <1>2
  <2> DEFINE g == [i \in 0..(n + 1) |-> IF i = n + 1 THEN f[n] \o piece[n + 1] ELSE f[i]]
  <2>2. \A i \in 0..n : g[i] = f[i]
    OBVIOUS
  <2>3. \A i \in 0..(n + 1) : g[i] = IF i = 0 THEN <<>> ELSE g[i - 1] \o piece[i]
    <3>1. ASSUME NEW i \in 0..(n + 1)
          PROVE  g[i] = IF i = 0 THEN <<>> ELSE g[i - 1] \o piece[i]
      <4>1. CASE i = 0
        BY <4>1, <2>1
      <4>2. CASE i \in 1..n
        <5>1. g[i] = f[i] /\ g[i - 1] = f[i - 1]
          BY <2>2, <4>2
        <5>2. f[i] = f[i - 1] \o piece[i]
          BY <2>1, <4>2
        <5> HIDE DEF g
        <5>3. i # 0
          BY <4>2
        <5>4. QED  BY <5>1, <5>2, <5>3, Zenon
      <4>3. CASE i = n + 1
        <5>1. g[i] = f[n] \o piece[n + 1] /\ g[i - 1] = f[n]
          BY <2>2, <4>3
        <5> HIDE DEF g
        <5>2. i # 0
          BY <4>3
        <5>3. QED  BY <4>3, <5>1, <5>2, Zenon
      <4>4. QED  BY <4>1, <4>2, <4>3
    <3>2. QED  BY <3>1
  <2>4. To(n + 1, g)
    <3>1. g = [i \in 0..(n + 1) |-> g[i]]
      OBVIOUS
    <3> HIDE DEF g
    <3>2. QED  BY <2>3, <3>1
  <2> HIDE DEF g, To
  <2>5. n + 1 \in Nat
    OBVIOUS
  <2>6. QED  BY <2>4, <2>5
<1>3. \A n \in Nat : n \in S
  <2> HIDE DEF S
  <2>1. QED  BY <1>1, <1>2, NatWellFounded
<1>4. QED  BY <1>3

LEMMA EventsOfFirstStep ==
    ASSUME NEW b, NEW k \in Kinds
    PROVE  /\ EventsOfFirst(b, k)[0] = <<>>
           /\ \A n \in 1..Len(Order[k]) :
                EventsOfFirst(b, k)[n] =
                    EventsOfFirst(b, k)[n - 1] \o OwnEvents(b, k, Order[k][n])
<1> DEFINE N == Len(Order[k])
           piece == [n \in 1..N |-> OwnEvents(b, k, Order[k][n])]
           g == EventsOfFirst(b, k)
<1>1. N \in Nat
  BY OrdersAssumption
<1>2. PICK f : f = [n \in 0..N |-> IF n = 0 THEN <<>> ELSE f[n - 1] \o piece[n]]
  <2> HIDE DEF piece, N
  <2>1. QED  BY <1>1, Concatenated
<1>3. f = [n \in 0..N |-> IF n = 0 THEN <<>> ELSE f[n - 1] \o OwnEvents(b, k, Order[k][n])]
  <2>1. \A n \in 0..N : IF n = 0 THEN TRUE ELSE piece[n] = OwnEvents(b, k, Order[k][n])
    BY <1>1
  <2>2. [n \in 0..N |-> IF n = 0 THEN <<>> ELSE f[n - 1] \o piece[n]]
        = [n \in 0..N |-> IF n = 0 THEN <<>> ELSE f[n - 1] \o OwnEvents(b, k, Order[k][n])]
    <3> HIDE DEF piece, N
    <3>1. QED  BY <2>1
  <2>3. QED  BY <1>2, <2>2
<1>4. g = [n \in 0..N |-> IF n = 0 THEN <<>> ELSE g[n - 1] \o OwnEvents(b, k, Order[k][n])]
  BY <1>3 DEF EventsOfFirst
<1>5. QED  BY <1>1, <1>4


-----------------------------------------------------------------------------
(* Values *)

LEMMA BlockTypes ==
    ASSUME NEW b \in Blocks, NEW k \in Kinds
    PROVE  /\ b.updating \subseteq EndBlockers
           /\ \A m \in Blockers[k] : b[k][m] \in Programs
<1>1. CASE k = "begin"
  BY <1>1 DEF Blocks, Blockers
<1>2. CASE k = "end"
  BY <1>2 DEF Blocks, Blockers
<1>3. QED  BY <1>1, <1>2 DEF Kinds

LEMMA OrderTypes ==
    ASSUME NEW k \in Kinds
    PROVE  /\ Order[k] \in Seq(Module) /\ Len(Order[k]) \in Nat
           /\ \A i \in 1..Len(Order[k]) : Order[k][i] \in Module
           /\ \A i, j \in 1..Len(Order[k]) : Order[k][i] = Order[k][j] => i = j
           /\ \A m \in Blockers[k] : m \in Module /\ \E i \in 1..Len(Order[k]) : Order[k][i] = m
<1>1. /\ Order[k] \in Seq(Module) /\ IsInjective(Order[k])
      /\ Blockers[k] \subseteq Range(Order[k])
  BY OrdersAssumption
<1>2. DOMAIN Order[k] = 1..Len(Order[k])
  BY <1>1
<1>3. QED  BY <1>1, <1>2 DEF IsInjective, Range

LEMMA ProgramTypes ==
    ASSUME NEW p \in Programs
    PROVE  /\ p \in Seq({"emit", "migrate", "panic"}) /\ Len(p) \in Nat /\ DOMAIN p = 1..Len(p)
           /\ \A i \in 1..Len(p) : p[i] \in {"emit", "migrate", "panic"}
<1>1. p \in Seq({"emit", "migrate", "panic"})
  BY OrdersAssumption
<1>2. QED  BY <1>1

LEMMA EventTypes ==
    ASSUME NEW k \in Kinds, NEW m \in Module, NEW op
    PROVE  EventOf(k, m, op) \in Events
BY DEF EventOf, Events

LEMMA FirstEventsFacts ==
    ASSUME NEW k \in Kinds, NEW m \in Module, NEW p \in Programs, NEW n \in 0..Len(p)
    PROVE  /\ FirstEvents(k, m, p, n) \in Seq(Events)
           /\ FirstEvents(k, m, p, 0) = <<>>
           /\ n < Len(p) => Append(FirstEvents(k, m, p, n), EventOf(k, m, p[n + 1]))
                            = FirstEvents(k, m, p, n + 1)
<1>1. Len(p) \in Nat
  BY ProgramTypes
<1> DEFINE f == FirstEvents(k, m, p, n)
<1>2. f \in Seq(Events) /\ Len(f) = n /\ \A i \in 1..n : f[i] = EventOf(k, m, p[i])
  BY <1>1, EventTypes DEF FirstEvents
<1>3. FirstEvents(k, m, p, 0) = <<>>
  BY DEF FirstEvents
<1>4. ASSUME n < Len(p)
      PROVE  Append(f, EventOf(k, m, p[n + 1])) = FirstEvents(k, m, p, n + 1)
  <2> DEFINE e == EventOf(k, m, p[n + 1])
             g == FirstEvents(k, m, p, n + 1)
  <2>1. g \in Seq(Events) /\ Len(g) = n + 1 /\ \A i \in 1..(n + 1) : g[i] = EventOf(k, m, p[i])
    BY <1>1, EventTypes DEF FirstEvents
  <2>2. e \in Events
    BY EventTypes
  <2> HIDE DEF f, e
  <2>3. /\ Append(f, e) \in Seq(Events) /\ Len(Append(f, e)) = n + 1
        /\ \A i \in 1..n : Append(f, e)[i] = f[i]
        /\ Append(f, e)[n + 1] = e
    BY <1>2, <2>2
  <2> USE DEF e
  <2> HIDE DEF g
  <2>4. \A i \in 1..(n + 1) : Append(f, e)[i] = g[i]
    BY <1>2, <2>1, <2>3
  <2> HIDE DEF e
  <2>5. Append(f, e) = g
    BY <2>1, <2>3, <2>4, SeqEqual
  <2>6. QED  BY <2>5 DEF f, e, g
<1>5. QED  BY <1>2, <1>3, <1>4

LEMMA StepsAfterFacts ==
    ASSUME NEW p \in Programs, NEW n \in 0..Len(p)
    PROVE  /\ StepsAfter(p, n) \in Seq({"emit", "migrate", "panic"})
           /\ StepsAfter(p, 0) = p
           /\ StepsAfter(p, n) = <<>> => n = Len(p)
           /\ n < Len(p) => /\ StepsAfter(p, n) # <<>>
                            /\ Head(StepsAfter(p, n)) = p[n + 1]
                            /\ Tail(StepsAfter(p, n)) = StepsAfter(p, n + 1)
           /\ n = Len(p) => StepsAfter(p, n) = <<>>
<1>1. /\ Len(p) \in Nat /\ \A i \in 1..Len(p) : p[i] \in {"emit", "migrate", "panic"}
      /\ p \in Seq({"emit", "migrate", "panic"})
  BY ProgramTypes
<1> DEFINE s == StepsAfter(p, n)
<1>2. /\ s \in Seq({"emit", "migrate", "panic"}) /\ Len(s) = Len(p) - n
      /\ \A i \in 1..(Len(p) - n) : s[i] = p[n + i]
  BY <1>1 DEF StepsAfter
<1>3. StepsAfter(p, 0) = p
  <2> DEFINE z == StepsAfter(p, 0)
  <2>1. /\ z \in Seq({"emit", "migrate", "panic"}) /\ Len(z) = Len(p)
        /\ \A i \in 1..Len(p) : z[i] = p[i]
    BY <1>1 DEF StepsAfter
  <2> HIDE DEF z
  <2>2. z = p
    BY <1>1, <2>1, SeqEqual
  <2>3. QED  BY <2>2 DEF z
<1>4. ASSUME n < Len(p)
      PROVE  s # <<>> /\ Head(s) = p[n + 1] /\ Tail(s) = StepsAfter(p, n + 1)
  <2> DEFINE t == StepsAfter(p, n + 1)
  <2>1. /\ t \in Seq({"emit", "migrate", "panic"}) /\ Len(t) = Len(p) - (n + 1)
        /\ \A i \in 1..(Len(p) - (n + 1)) : t[i] = p[n + 1 + i]
    BY <1>1, <1>4 DEF StepsAfter
  <2> HIDE DEF s, t
  <2>2. Len(s) > 0 /\ s # <<>>
    BY <1>1, <1>2, <1>4
  <2>3. Head(s) = p[n + 1]
    BY <1>1, <1>2, <1>4, <2>2
  <2>4. /\ Tail(s) \in Seq({"emit", "migrate", "panic"}) /\ Len(Tail(s)) = Len(t)
        /\ \A i \in 1..Len(t) : Tail(s)[i] = s[i + 1]
    BY <1>1, <1>2, <1>4, <2>1, <2>2
  <2>5. \A i \in 1..Len(t) : Tail(s)[i] = t[i]
    <3>1. ASSUME NEW i \in 1..Len(t)
          PROVE  Tail(s)[i] = t[i]
      <4>1. /\ i + 1 \in 1..(Len(p) - n) /\ i \in 1..(Len(p) - (n + 1))
            /\ n + (i + 1) = n + 1 + i
        BY <1>1, <1>4, <2>1
      <4>2. QED  BY <1>2, <2>1, <2>4, <4>1
    <3>2. QED  BY <3>1
  <2>6. Tail(s) = t
    BY <2>1, <2>4, <2>5, SeqEqual
  <2>7. QED  BY <2>2, <2>3, <2>6 DEF s, t
<1>5. s = <<>> => n = Len(p)
  <2> HIDE DEF s
  <2>1. s = <<>> => Len(s) = 0
    OBVIOUS
  <2>2. QED  BY <1>1, <1>2, <2>1
<1>6. n = Len(p) => s = <<>>
  <2> HIDE DEF s
  <2>1. QED  BY <1>1, <1>2, EmptySeq
<1>7. QED  BY <1>2, <1>3, <1>4, <1>5, <1>6

\* A program that is not done takes its next step.
LEMMA NextStep ==
    ASSUME NEW p \in Programs, NEW n \in 0..Len(p), StepsAfter(p, n) # <<>>
    PROVE  /\ n < Len(p) /\ n + 1 \in 1..Len(p) /\ n + 1 \in 0..Len(p)
           /\ Head(StepsAfter(p, n)) = p[n + 1]
           /\ Tail(StepsAfter(p, n)) = StepsAfter(p, n + 1)
<1>1. Len(p) \in Nat
  BY ProgramTypes
<1>2. n # Len(p)
  BY StepsAfterFacts
<1>3. n < Len(p)
  BY <1>1, <1>2
<1>4. QED  BY <1>1, <1>3, StepsAfterFacts

\* What is left of a program is never the mark of no program.
LEMMA NotWaiting ==
    ASSUME NEW s \in Seq({"emit", "migrate", "migrated", "panic"})
    PROVE  s # Waiting
<1>1. SUFFICES ASSUME s = Waiting
               PROVE  FALSE
  OBVIOUS
<1>2. Len(s) = 1 /\ s[1] = "waiting"
  BY <1>1 DEF Waiting
<1>3. s[1] \in {"emit", "migrate", "migrated", "panic"}
  BY <1>2
<1>4. QED  BY <1>2, <1>3

-----------------------------------------------------------------------------
(* Frames *)

\* Emit on the innermost event manager.
Emitted(st, e) == [st EXCEPT ![Len(st)].em = Append(@, e)]

LEMMA EmittedFrames ==
    ASSUME NEW st \in Seq(Frames), Len(st) > 0, NEW e \in Events
    PROVE  /\ Emitted(st, e) \in Seq(Frames) /\ Len(Emitted(st, e)) = Len(st)
           /\ \A d \in 1..Len(st) : Emitted(st, e)[d].span = st[d].span
           /\ \A d \in 1..(Len(st) - 1) : Emitted(st, e)[d].em = st[d].em
           /\ Emitted(st, e)[Len(st)].em = Append(st[Len(st)].em, e)
<1> DEFINE n == Len(st)
           f == [st[n] EXCEPT !.em = Append(@, e)]
           st2 == Emitted(st, e)
<1>1. n \in Nat /\ n \in 1..n /\ n \in DOMAIN st /\ st[n] \in Frames
  OBVIOUS
<1>2. st2 = [st EXCEPT ![n] = f]
  BY <1>1 DEF Emitted
<1>3. Append(st[n].em, e) \in Seq(Events)
  BY <1>1 DEF Frames
<1>4. f \in Frames /\ f.span = st[n].span /\ f.em = Append(st[n].em, e)
  BY <1>1, <1>3 DEF Frames
<1> HIDE DEF f, st2
<1>5. st2[n] = f /\ \A d \in 1..(n - 1) : st2[d] = st[d]
  BY <1>1, <1>2
<1>6. st2 \in Seq(Frames) /\ Len(st2) = n
  <2>1. Len(st) = n
    OBVIOUS
  <2> HIDE DEF n
  <2>2. QED  BY <1>1, <1>2, <1>4, <2>1
<1>7. \A d \in 1..n : d \in 1..(n - 1) \/ d = n
  BY <1>1
<1>8. QED  BY <1>4, <1>5, <1>6, <1>7 DEF st2

LEMMA CalledFrames ==
    ASSUME NEW st \in Seq(Frames), NEW span \in Nat
    PROVE  /\ Called(st, span) \in Seq(Frames) /\ Len(Called(st, span)) = Len(st) + 1
           /\ \A d \in 1..Len(st) : Called(st, span)[d] = st[d]
           /\ Called(st, span)[Len(st) + 1] = [span |-> span, em |-> <<>>]
<1>1. [span |-> span, em |-> <<>>] \in Frames
  BY DEF Frames
<1>2. QED  BY <1>1 DEF Called

LEMMA ReturnedFrames ==
    ASSUME NEW st \in Seq(Frames), Len(st) > 1
    PROVE  /\ Returned(st) \in Seq(Frames) /\ Len(Returned(st)) = Len(st) - 1
           /\ \A d \in 1..(Len(st) - 1) : Returned(st)[d].span = st[d].span
           /\ \A d \in 1..(Len(st) - 2) : Returned(st)[d].em = st[d].em
           /\ Returned(st)[Len(st) - 1].em = st[Len(st) - 1].em \o st[Len(st)].em
<1> DEFINE n == Len(st) - 1
           f == Front(st)
           r == Returned(st)
           log == st[n].em \o st[n + 1].em
<1>1. n \in Nat /\ n > 0 /\ n + 1 = Len(st) /\ n \in 1..Len(st) /\ n + 1 \in 1..Len(st)
  OBVIOUS
<1>2. st[n] \in Frames /\ st[n + 1] \in Frames
  BY <1>1
<1>3. log \in Seq(Events)
  BY <1>2 DEF Frames
<1>4. f \in Seq(Frames) /\ Len(f) = n /\ \A d \in 1..n : f[d] = st[d]
  BY <1>1 DEF Front
<1>5. r = [f EXCEPT ![n] = [f[n] EXCEPT !.em = log]]
  <2>1. n \in DOMAIN f
    BY <1>1, <1>4
  <2>2. f[n].em \o st[Len(st)].em = log
    <3>1. f[n] = st[n] /\ st[Len(st)] = st[n + 1]
      BY <1>1, <1>4
    <3> HIDE DEF n, f
    <3>2. QED  BY <3>1
  <2> HIDE DEF f, log
  <2>3. QED  BY <1>1, <2>1, <2>2 DEF Returned, f
<1> HIDE DEF n, f, r, log
<1>6. /\ r \in Seq(Frames) /\ Len(r) = n /\ \A d \in 1..(n - 1) : r[d] = st[d]
      /\ r[n].em = log /\ r[n].span = st[n].span
  <2>1. f[n] = st[n]
    BY <1>1, <1>4
  <2>2. /\ [f[n] EXCEPT !.em = log] \in Frames
        /\ [f[n] EXCEPT !.em = log].em = log
        /\ [f[n] EXCEPT !.em = log].span = st[n].span
    BY <1>2, <1>3, <2>1 DEF Frames
  <2>3. QED  BY <1>1, <1>4, <1>5, <2>2
<1>7. \A d \in 1..n : d \in 1..(n - 1) \/ d = n
  BY <1>1
<1>8. \A d \in 1..n : r[d].span = st[d].span
  BY <1>6, <1>7
<1>9. Len(st) - 2 = n - 1
  BY <1>1
<1> USE DEF n
<1>10. QED  BY <1>1, <1>6, <1>8, <1>9 DEF r, log

LEMMA AppendBehind ==
    ASSUME NEW s \in Seq(Events), NEW t \in Seq(Events), NEW e \in Events
    PROVE  Append(s \o t, e) = s \o Append(t, e)
<1> DEFINE l == Append(s \o t, e)
           r == s \o Append(t, e)
           m == Len(s)
           n == Len(t)
<1>1. m \in Nat /\ n \in Nat
  OBVIOUS
<1>2. /\ s \o t \in Seq(Events) /\ Len(s \o t) = m + n
      /\ Append(t, e) \in Seq(Events) /\ Len(Append(t, e)) = n + 1
  OBVIOUS
<1>3. /\ l \in Seq(Events) /\ Len(l) = m + n + 1
      /\ r \in Seq(Events) /\ Len(r) = m + n + 1
  BY <1>1, <1>2
<1>4. ASSUME NEW i \in 1..(m + n + 1)
      PROVE  l[i] = r[i]
  <2>1. CASE i \in 1..m
    BY <1>1, <1>2, <2>1
  <2>2. CASE i \in (m + 1)..(m + n)
    BY <1>1, <1>2, <2>2
  <2>3. CASE i = m + n + 1
    BY <1>1, <1>2, <2>3
  <2>4. QED  BY <1>1, <2>1, <2>2, <2>3
<1> HIDE DEF l, r, m, n
<1>5. l = r
  BY <1>3, <1>4, SeqEqual
<1>6. QED  BY <1>5 DEF l, r

LEMMA OwnGrows ==
    ASSUME NEW traced \in BOOLEAN, NEW st \in Seq(Frames), NEW st2 \in Seq(Frames),
           NEW before \in Seq(Events), NEW own \in Seq(Events), NEW e \in Events,
           Holds(traced, st, before, own),
           LET top == IF traced THEN 3 ELSE 1
           IN  /\ \A d \in 1..(top - 1) : st2[d].em = st[d].em
               /\ st2[top].em = Append(st[top].em, e)
    PROVE  Holds(traced, st2, before, Append(own, e))
<1>1. CASE traced
  <2>1. 1 \in 1..(3 - 1) /\ 2 \in 1..(3 - 1)
    OBVIOUS
  <2>2. QED  BY <1>1, <2>1 DEF Holds
<1>2. CASE ~traced
  <2>1. Append(before \o own, e) = before \o Append(own, e)
    BY AppendBehind
  <2>2. QED  BY <1>2, <2>1 DEF Holds
<1>3. QED  BY <1>1, <1>2

-----------------------------------------------------------------------------
(* The reference *)

LEMMA OwnEventsFacts ==
    ASSUME NEW b \in Blocks, NEW k \in Kinds, NEW m \in Module
    PROVE  /\ OwnEvents(b, k, m) \in Seq(Events)
           /\ m \notin Blockers[k] => OwnEvents(b, k, m) = <<>>
           /\ m \in Blockers[k] =>
                OwnEvents(b, k, m) = FirstEvents(k, m, b[k][m], Len(b[k][m]))
<1>1. CASE m \in Blockers[k]
  <2> DEFINE p == b[k][m]
  <2>1. p \in Programs
    BY <1>1, BlockTypes
  <2>2. DOMAIN p = 1..Len(p) /\ Len(p) \in 0..Len(p)
    BY <2>1, ProgramTypes
  <2>3. OwnEvents(b, k, m) = FirstEvents(k, m, p, Len(p))
    BY <1>1, <2>2 DEF OwnEvents, FirstEvents
  <2> HIDE DEF p
  <2>4. FirstEvents(k, m, p, Len(p)) \in Seq(Events)
    BY <2>1, <2>2, FirstEventsFacts
  <2>5. QED  BY <1>1, <2>3, <2>4 DEF p
<1>2. CASE m \notin Blockers[k]
  BY <1>2 DEF OwnEvents
<1>3. QED  BY <1>1, <1>2

LEMMA EventsOfFirstType ==
    ASSUME NEW b \in Blocks, NEW k \in Kinds, NEW n \in 0..Len(Order[k])
    PROVE  EventsOfFirst(b, k)[n] \in Seq(Events)
<1> DEFINE N == Len(Order[k])
           e == EventsOfFirst(b, k)
           S == {i \in Nat : i <= N => e[i] \in Seq(Events)}
<1>1. N \in Nat
  BY OrderTypes
<1>2. e[0] = <<>> /\ \A i \in 1..N : e[i] = e[i - 1] \o OwnEvents(b, k, Order[k][i])
  BY EventsOfFirstStep
<1> HIDE DEF e
<1>3. 0 \in S
  <2>1. <<>> \in Seq(Events)
    OBVIOUS
  <2>2. QED  BY <1>2, <2>1
<1>4. ASSUME NEW i \in Nat, i \in S
      PROVE  i + 1 \in S
  <2>1. SUFFICES ASSUME i + 1 <= N
                 PROVE  e[i + 1] \in Seq(Events)
    OBVIOUS
  <2>2. i + 1 \in 1..N /\ (i + 1) - 1 = i /\ e[i] \in Seq(Events)
    BY <1>1, <1>4, <2>1
  <2>3. OwnEvents(b, k, Order[k][i + 1]) \in Seq(Events)
    BY <2>2, OrderTypes, OwnEventsFacts
  <2>4. e[i + 1] = e[i] \o OwnEvents(b, k, Order[k][i + 1])
    BY <1>2, <2>2
  <2>5. QED  BY <2>2, <2>3, <2>4
<1>5. \A i \in Nat : i \in S
  <2> HIDE DEF S
  <2>1. QED  BY <1>3, <1>4, NatWellFounded
<1>6. n \in S /\ n <= N
  BY <1>1, <1>5
<1>7. QED  BY <1>6 DEF e

\* One module more is done: one without a blocker, or one with a program of its own.
LEMMA ModulePassed ==
    ASSUME NEW b \in Blocks, NEW k \in Kinds, NEW n \in 1..Len(Order[k]),
           Order[k][n] \notin Blockers[k]
    PROVE  /\ EventsOfFirst(b, k)[n] = EventsOfFirst(b, k)[n - 1]
           /\ NonePanics(b, k, n - 1) => NonePanics(b, k, n)
           /\ k = "end" => UpdatingFirst(b, n) = UpdatingFirst(b, n - 1)
<1>1. Len(Order[k]) \in Nat /\ Order[k][n] \in Module /\ n - 1 \in 0..Len(Order[k])
  BY OrderTypes
<1>2. EventsOfFirst(b, k)[n] = EventsOfFirst(b, k)[n - 1] \o <<>>
  <2>1. EventsOfFirst(b, k)[n] = EventsOfFirst(b, k)[n - 1] \o OwnEvents(b, k, Order[k][n])
    BY EventsOfFirstStep
  <2>2. OwnEvents(b, k, Order[k][n]) = <<>>
    BY <1>1, OwnEventsFacts
  <2>3. QED  BY <2>1, <2>2
<1>3. EventsOfFirst(b, k)[n] = EventsOfFirst(b, k)[n - 1]
  <2>1. \A s \in Seq(Events) : s \o <<>> = s
    OBVIOUS
  <2>2. QED  BY <1>1, <1>2, <2>1, EventsOfFirstType
<1>4. \A i \in 1..n : i \in 1..(n - 1) \/ i = n
  BY <1>1
<1>5. NonePanics(b, k, n - 1) => NonePanics(b, k, n)
  BY <1>4 DEF NonePanics
<1>6. ASSUME k = "end"
      PROVE  UpdatingFirst(b, n) = UpdatingFirst(b, n - 1)
  <2>1. Order[k] = EndOrder /\ Blockers[k] = EndBlockers
    BY <1>6 DEF Order, Blockers
  <2>2. EndOrder[n] \notin b.updating
    BY <2>1, BlockTypes, <1>6
  <2>3. \A i \in 1..(n - 1) : i \in 1..n
    BY <1>1
  <2>4. QED  BY <1>4, <2>2, <2>3 DEF UpdatingFirst
<1>7. QED  BY <1>3, <1>5, <1>6

\* What the n-th module of the order adds, with the blocker of module m.
ModuleAdds(b, k, n, m) ==
    /\ EventsOfFirst(b, k)[n] =
         EventsOfFirst(b, k)[n - 1] \o FirstEvents(k, m, b[k][m], Len(b[k][m]))
    /\ NonePanics(b, k, n - 1) /\ NoPanic(b[k][m], Len(b[k][m])) => NonePanics(b, k, n)
    /\ k = "end" /\ m \notin b.updating => UpdatingFirst(b, n) = UpdatingFirst(b, n - 1)
    /\ k = "end" /\ m \in b.updating => UpdatingFirst(b, n) = UpdatingFirst(b, n - 1) \cup {m}

LEMMA ModuleRun ==
    ASSUME NEW b \in Blocks, NEW k \in Kinds, NEW n \in 1..Len(Order[k]),
           NEW m, m = Order[k][n], m \in Blockers[k]
    PROVE  ModuleAdds(b, k, n, m)
<1>1. Len(Order[k]) \in Nat /\ m \in Module
  BY OrderTypes
<1>2. EventsOfFirst(b, k)[n] = EventsOfFirst(b, k)[n - 1] \o FirstEvents(k, m, b[k][m], Len(b[k][m]))
  <2>1. EventsOfFirst(b, k)[n] = EventsOfFirst(b, k)[n - 1] \o OwnEvents(b, k, m)
    BY EventsOfFirstStep
  <2>2. OwnEvents(b, k, m) = FirstEvents(k, m, b[k][m], Len(b[k][m]))
    BY <1>1, OwnEventsFacts
  <2>3. QED  BY <2>1, <2>2
<1>3. (\A i \in 1..n : i \in 1..(n - 1) \/ i = n) /\ (\A i \in 1..(n - 1) : i \in 1..n) /\ n \in 1..n
  BY <1>1
<1>4. NonePanics(b, k, n - 1) /\ NoPanic(b[k][m], Len(b[k][m])) => NonePanics(b, k, n)
  BY <1>3 DEF NonePanics
<1>5. ASSUME k = "end"
      PROVE  UpdatingFirst(b, n) = UpdatingFirst(b, n - 1) \cup (IF m \in b.updating THEN {m} ELSE {})
  <2>1. m = EndOrder[n]
    BY <1>5 DEF Order
  <2>2. QED  BY <1>3, <2>1 DEF UpdatingFirst
<1>6. QED  BY <1>2, <1>4, <1>5 DEF ModuleAdds

LEMMA NoModuleRun ==
    ASSUME NEW b \in Blocks, NEW k \in Kinds
    PROVE  /\ EventsOfFirst(b, k)[0] = <<>>
           /\ NonePanics(b, k, 0)
           /\ UpdatingFirst(b, 0) = {}
<1>1. EventsOfFirst(b, k)[0] = <<>>
  BY EventsOfFirstStep
<1>2. NonePanics(b, k, 0) /\ UpdatingFirst(b, 0) = {}
  BY DEF NonePanics, UpdatingFirst
<1>3. QED  BY <1>1, <1>2

LEMMA EveryModuleRun ==
    ASSUME NEW b \in Blocks
    PROVE  UpdatingFirst(b, Len(EndOrder)) = b.updating
<1>1. Order["end"] = EndOrder /\ Blockers["end"] = EndBlockers /\ "end" \in Kinds
  BY DEF Order, Blockers, Kinds
<1>2. \A m \in b.updating : \E i \in 1..Len(EndOrder) : EndOrder[i] = m
  BY <1>1, BlockTypes, OrderTypes
<1>3. QED  BY <1>2 DEF UpdatingFirst

LEMMA HoldsSame ==
    ASSUME NEW traced \in BOOLEAN, NEW st, NEW st2, NEW before, NEW own,
           Holds(traced, st, before, own),
           \A d \in 1..(IF traced THEN 3 ELSE 1) : st2[d].em = st[d].em
    PROVE  Holds(traced, st2, before, own)
<1>1. CASE traced
  <2>1. 1 \in 1..3 /\ 2 \in 1..3 /\ 3 \in 1..3
    OBVIOUS
  <2>2. QED  BY <1>1, <2>1 DEF Holds
<1>2. CASE ~traced
  BY SMTT(40), <1>2 DEF Holds
<1>3. QED  BY <1>1, <1>2

-----------------------------------------------------------------------------
(* Steps of a blocker *)

LEMMA SpanTypes ==
    ASSUME spans \in Seq(Spans)
    PROVE  /\ \A op \in OpNames, m \in Module \cup {NoModule}, parent \in Nat :
                WithSpan(op, m, parent) \in Seq(Spans)
           /\ \A s \in Nat : FinishedSpan(s) \in Seq(Spans)
<1>1. ASSUME NEW op \in OpNames, NEW m \in Module \cup {NoModule}, NEW parent \in Nat
      PROVE  WithSpan(op, m, parent) \in Seq(Spans)
  <2>1. [op |-> op, module |-> m, parent |-> parent, finished |-> FALSE, valset |-> FALSE] \in Spans
    BY DEF Spans
  <2>2. QED  BY <2>1 DEF WithSpan
<1>2. ASSUME NEW s \in Nat
      PROVE  FinishedSpan(s) \in Seq(Spans)
  <2>1. CASE s \in 1..Len(spans)
    <3> DEFINE f == [spans[s] EXCEPT !.finished = TRUE]
    <3>1. spans[s] \in Spans
      BY <2>1
    <3>2. f \in Spans
      BY <3>1 DEF Spans
    <3>3. FinishedSpan(s) = [spans EXCEPT ![s] = f]
      BY <2>1 DEF FinishedSpan
    <3> HIDE DEF f
    <3>4. QED  BY <2>1, <3>2, <3>3
  <2>2. CASE s \notin 1..Len(spans)
    <3>1. DOMAIN spans = 1..Len(spans)
      OBVIOUS
    <3>2. FinishedSpan(s) = spans
      BY <2>2, <3>1 DEF FinishedSpan
    <3>3. QED  BY <3>2
  <2>3. QED  BY <2>1, <2>2
<1>3. QED  BY <1>1, <1>2

LEMMA ValsetSet ==
    ASSUME NEW t \in Seq(Spans), NEW s \in Nat, NEW v \in BOOLEAN
    PROVE  [t EXCEPT ![s].valset = v] \in Seq(Spans)
<1> DEFINE r == [t EXCEPT ![s].valset = v]
<1>1. CASE s \in 1..Len(t)
  <2> DEFINE f == [t[s] EXCEPT !.valset = v]
  <2>1. t[s] \in Spans
    BY <1>1
  <2>2. f \in Spans
    BY <2>1 DEF Spans
  <2>3. r = [t EXCEPT ![s] = f]
    BY <1>1
  <2> HIDE DEF f, r
  <2>4. r \in Seq(Spans)
    BY <1>1, <2>2, <2>3
  <2>5. QED  BY <2>4 DEF r
<1>2. CASE s \notin 1..Len(t)
  <2>1. DOMAIN t = 1..Len(t)
    OBVIOUS
  <2>2. r = t
    BY <1>2, <2>1
  <2>3. QED  BY <2>2
<1>3. QED  BY <1>1, <1>2

LEMMA RunningFacts ==
    ASSUME BlockInv, InHandler, Running
    PROVE  /\ pc \in Kinds /\ block \in Blocks /\ tracerEnabled \in BOOLEAN
           /\ pos \in 1..Len(Order[pc]) /\ Current \in Module /\ Current \in Blockers[pc]
           /\ block[pc][Current] \in Programs
           /\ EventsOfFirst(block, pc)[pos - 1] \in Seq(Events)
           /\ stack \in Seq(Frames) /\ spans \in Seq(Spans)
           /\ InBlocker
<1>1. /\ pc \in Kinds /\ block \in Blocks /\ tracerEnabled \in BOOLEAN
      /\ stack \in Seq(Frames) /\ spans \in Seq(Spans)
  BY DEF BlockInv, InHandler, Kinds
<1>2. pos \in 0..Len(Order[pc]) /\ InBlocker
  BY DEF BlockInv, HandlerRuns
<1>3. Len(Order[pc]) \in Nat
  BY <1>1, OrderTypes
<1>4. pos \in 1..Len(Order[pc]) /\ pos - 1 \in 0..Len(Order[pc]) /\ Current \in Blockers[pc]
  BY <1>2, <1>3 DEF InBlocker
<1>5. Current \in Module
  BY <1>1, <1>4, OrderTypes DEF Current
<1>6. block[pc][Current] \in Programs
  BY <1>1, <1>4, BlockTypes
<1>7. EventsOfFirst(block, pc)[pos - 1] \in Seq(Events)
  BY <1>1, <1>4, EventsOfFirstType
<1>8. QED  BY <1>1, <1>2, <1>4, <1>5, <1>6, <1>7

LEMMA DoingFacts ==
    ASSUME NEW op \in {"emit", "migrate", "migrated", "panic"}, Doing(op)
    PROVE  InHandler /\ Running /\ todo # <<>> /\ Head(todo) = op
<1>1. InHandler /\ todo # <<>> /\ Head(todo) = op
  BY DEF Doing
<1>2. Head(Waiting) = "waiting"
  BY DEF Waiting
<1>3. QED  BY <1>1, <1>2 DEF Running

\* A step within a blocker leaves the rest of the invariant alone.
LEMMA StillInBlocker ==
    ASSUME BlockInv, InHandler, Running,
           UNCHANGED <<tracerEnabled, block, pc, pos, updates, response>>,
           stack' \in Seq(Frames), spans' \in Seq(Spans), todo' # Waiting, InBlocker'
    PROVE  BlockInv'
<1>1. Running' /\ InHandler' /\ ModulesRun' = ModulesRun
  BY DEF Running, InHandler, ModulesRun
<1>2. HandlerRuns'
  <2>1. /\ pos \in 0..Len(Order[pc]) /\ NonePanics(block, pc, ModulesRun)
        /\ updates = IF pc = "end" THEN UpdatingFirst(block, ModulesRun) ELSE {}
        /\ updates = {} \/ \E m \in Module : updates = {m}
    BY DEF BlockInv, HandlerRuns
  <2>2. QED  BY <1>1, <2>1 DEF HandlerRuns
<1>3. HandlersRan'
  BY DEF BlockInv, HandlersRan, ManagerEvents
<1>4. QED  BY <1>1, <1>2, <1>3 DEF BlockInv

LEMMA EmitBlockInv ==
    ASSUME BlockInv, Emit
    PROVE  BlockInv'
<1> DEFINE p == block[pc][Current]
           e == [origin |-> IF InMigration THEN "migration" ELSE pc, module |-> Current]
           before == EventsOfFirst(block, pc)[pos - 1]
<1>1. /\ InHandler /\ Running /\ todo # <<>> /\ Head(todo) = "emit"
      /\ stack' = [stack EXCEPT ![Depth].em = Append(@, e)]
      /\ todo' = Tail(todo)
      /\ UNCHANGED <<tracerEnabled, block, pc, pos, updates, response, spans>>
  BY DoingFacts DEF Emit
<1>2. /\ pc \in Kinds /\ block \in Blocks /\ tracerEnabled \in BOOLEAN
      /\ Current \in Module /\ Current \in Blockers[pc] /\ pos >= 1
      /\ p \in Programs /\ before \in Seq(Events) /\ stack \in Seq(Frames) /\ InBlocker
      /\ spans \in Seq(Spans)
  BY <1>1, RunningFacts
<1>3. PICK n \in 0..Len(p) : NoPanic(p, n) /\ (Blocking(n) \/ Migrating(n))
  BY <1>2 DEF InBlocker
<1>4. e \in Events /\ Depth > 0 /\ Current' = Current /\ Base' = Base
  <2>1. e \in Events
    BY <1>2 DEF Events, Kinds
  <2>2. Depth > 0
    BY <1>3 DEF Blocking, Migrating, Base
  <2>3. Current' = Current /\ Base' = Base
    BY <1>1 DEF Current, Base
  <2>4. QED  BY <2>1, <2>2, <2>3
<1> HIDE DEF e
<1>5. /\ stack' \in Seq(Frames) /\ Depth' = Depth
      /\ \A d \in 1..(Depth - 1) : stack'[d].em = stack[d].em
      /\ stack'[Depth].em = Append(stack[Depth].em, e)
  <2>1. stack' = Emitted(stack, e) /\ Len(stack) > 0
    BY <1>1, <1>4 DEF Depth, Emitted
  <2>2. /\ stack' \in Seq(Frames) /\ Len(stack') = Len(stack)
        /\ \A d \in 1..(Len(stack) - 1) : stack'[d].em = stack[d].em
        /\ stack'[Len(stack)].em = Append(stack[Len(stack)].em, e)
    BY <1>2, <1>4, <2>1, EmittedFrames
  <2>3. QED  BY <2>2 DEF Depth
<1>6. Len(p) \in Nat
  BY <1>2, ProgramTypes
<1>7. CASE Blocking(n)
  <2>1. /\ Depth = Base /\ todo = StepsAfter(p, n)
        /\ Holds(tracerEnabled, stack, before, FirstEvents(pc, Current, p, n))
    BY <1>7 DEF Blocking, EventsAfter
  <2>2. n < Len(p) /\ p[n + 1] = "emit" /\ todo' = StepsAfter(p, n + 1) /\ n + 1 \in 0..Len(p)
    BY <1>1, <1>2, <2>1, NextStep
  <2>3. e = EventOf(pc, Current, p[n + 1])
    BY <2>1, <2>2 DEF e, EventOf, InMigration, Base
  <2>4. /\ FirstEvents(pc, Current, p, n) \in Seq(Events)
        /\ Append(FirstEvents(pc, Current, p, n), e) = FirstEvents(pc, Current, p, n + 1)
    BY <1>2, <2>2, <2>3, FirstEventsFacts
  <2>5. Holds(tracerEnabled, stack', before, Append(FirstEvents(pc, Current, p, n), e))
    BY <1>2, <1>4, <1>5, <2>1, <2>4, OwnGrows DEF Base
  <2>6. Blocking(n + 1)'
    BY <1>1, <1>4, <1>5, <2>1, <2>2, <2>4, <2>5 DEF Blocking, EventsAfter
  <2>7. NoPanic(p, n + 1)
    BY <1>3, <2>2 DEF NoPanic
  <2>8. InBlocker'
    BY <1>1, <1>2, <1>4, <2>2, <2>6, <2>7 DEF InBlocker
  <2>9. todo' # Waiting
    <3>1. todo' \in Seq({"emit", "migrate", "panic"})
      BY <1>2, <2>2, StepsAfterFacts
    <3>2. QED  BY <3>1, NotWaiting
  <2>10. QED  BY <1>1, <1>2, <1>5, <2>8, <2>9, StillInBlocker
<1>8. CASE Migrating(n)
  <2> DEFINE rest == StepsAfter(p, n + 1)
  <2>1. /\ n < Len(p) /\ p[n + 1] = "migrate" /\ Depth = Base + 1
        /\ \/ todo = <<"emit", "migrated">> \o rest /\ stack[Depth].em = <<>>
           \/ todo = <<"migrated">> \o rest /\ stack[Depth].em = << EventOf(pc, Current, "migrate") >>
        /\ Holds(tracerEnabled, stack, before, FirstEvents(pc, Current, p, n))
    BY <1>8 DEF Migrating, EventsAfter
  <2>2. n + 1 \in 0..Len(p) /\ rest \in Seq({"emit", "migrate", "panic"})
    BY <1>2, <1>6, <2>1, StepsAfterFacts
  <2> HIDE DEF rest
  <2>3. Head(<<"migrated">> \o rest) = "migrated"
    BY <2>2
  <2>4. todo = <<"emit", "migrated">> \o rest /\ stack[Depth].em = <<>>
    BY <1>1, <2>1, <2>3
  <2>5. todo' = <<"migrated">> \o rest
    BY <1>1, <2>2, <2>4
  <2>6. e = EventOf(pc, Current, "migrate")
    BY <2>1 DEF e, EventOf, InMigration, Base
  <2>7. stack'[Depth].em = << EventOf(pc, Current, "migrate") >>
    BY <1>5, <2>4, <2>6
  <2>8. Holds(tracerEnabled, stack', before, FirstEvents(pc, Current, p, n))
    <3>1. \A d \in 1..(IF tracerEnabled THEN 3 ELSE 1) : d \in 1..(Depth - 1)
      BY <2>1 DEF Base
    <3>2. \A d \in 1..(IF tracerEnabled THEN 3 ELSE 1) : stack'[d].em = stack[d].em
      BY <1>5, <3>1
    <3>3. QED  BY <1>2, <2>1, <3>2, HoldsSame
  <2>9. Migrating(n)'
    BY <1>1, <1>4, <1>5, <2>1, <2>5, <2>7, <2>8 DEF Migrating, EventsAfter, rest
  <2>10. InBlocker'
    BY <1>1, <1>2, <1>3, <1>4, <2>9 DEF InBlocker
  <2>11. todo' # Waiting
    <3>1. Head(Waiting) = "waiting"
      BY DEF Waiting
    <3>2. QED  BY <2>3, <2>5, <3>1
  <2>12. QED  BY <1>1, <1>2, <1>5, <2>10, <2>11, StillInBlocker
<1>9. QED  BY <1>3, <1>7, <1>8

LEMMA MigrationBlockInv ==
    ASSUME BlockInv, RunMigrations
    PROVE  BlockInv'
<1> DEFINE p == block[pc][Current]
           span == IF tracerEnabled THEN Len(spans') ELSE 0
           before == EventsOfFirst(block, pc)[pos - 1]
<1>1. /\ InHandler /\ Running /\ todo # <<>> /\ Head(todo) = "migrate"
      /\ stack' = Called(stack, span)
      /\ todo' = <<"emit", "migrated">> \o Tail(todo)
      /\ UNCHANGED <<tracerEnabled, block, pc, pos, updates, response>>
  BY DoingFacts DEF RunMigrations
<1>2. /\ pc \in Kinds /\ block \in Blocks /\ tracerEnabled \in BOOLEAN
      /\ Current \in Module /\ Current \in Blockers[pc] /\ pos >= 1
      /\ p \in Programs /\ before \in Seq(Events) /\ stack \in Seq(Frames) /\ InBlocker
      /\ spans \in Seq(Spans)
  BY <1>1, RunningFacts
<1>3. PICK n \in 0..Len(p) : NoPanic(p, n) /\ (Blocking(n) \/ Migrating(n))
  BY <1>2 DEF InBlocker
<1>4. Len(p) \in Nat /\ Current' = Current /\ Base' = Base
  BY <1>1, <1>2, ProgramTypes DEF Base, Current
<1>5. ~Migrating(n)
  <2>1. SUFFICES ASSUME Migrating(n)
                 PROVE  FALSE
    OBVIOUS
  <2> DEFINE rest == StepsAfter(p, n + 1)
  <2>2. /\ n < Len(p)
        /\ todo = <<"emit", "migrated">> \o rest \/ todo = <<"migrated">> \o rest
    BY <2>1 DEF Migrating
  <2>3. rest \in Seq({"emit", "migrate", "panic"})
    BY <1>2, <1>4, <2>2, StepsAfterFacts
  <2> HIDE DEF rest
  <2>4. Head(<<"emit", "migrated">> \o rest) = "emit" /\ Head(<<"migrated">> \o rest) = "migrated"
    BY <2>3
  <2>5. QED  BY <1>1, <2>2, <2>4
<1>6. /\ Depth = Base /\ todo = StepsAfter(p, n)
      /\ Holds(tracerEnabled, stack, before, FirstEvents(pc, Current, p, n))
  BY <1>3, <1>5 DEF Blocking, EventsAfter
<1>7. n < Len(p) /\ p[n + 1] = "migrate" /\ Tail(todo) = StepsAfter(p, n + 1) /\ n + 1 \in 0..Len(p)
  BY <1>1, <1>2, <1>6, NextStep
<1>8. spans' \in Seq(Spans) /\ span \in Nat
  <2>1. spans' = WithSpan("abci_begin_block", NoModule, stack[Depth].span)
    BY DEF RunMigrations
  <2>2. stack[Depth] \in Frames
    BY <1>2, <1>6 DEF Base, Depth
  <2>3. stack[Depth].span \in Nat
    BY <2>2 DEF Frames
  <2>4. spans' \in Seq(Spans)
    BY <1>2, <2>1, <2>3, SpanTypes DEF OpNames
  <2>5. QED  BY <2>4
<1> HIDE DEF span
<1>9. /\ stack' \in Seq(Frames) /\ Depth' = Depth + 1
      /\ \A d \in 1..Depth : stack'[d] = stack[d]
      /\ stack'[Depth + 1].em = <<>>
  <2>1. [span |-> span, em |-> <<>>].em = <<>>
    OBVIOUS
  <2>2. QED  BY <1>1, <1>2, <1>8, <2>1, CalledFrames DEF Depth
<1>10. Holds(tracerEnabled, stack', before, FirstEvents(pc, Current, p, n))
  BY <1>2, <1>6, <1>9, HoldsSame DEF Base
<1>11. Migrating(n)'
  BY <1>1, <1>4, <1>6, <1>7, <1>9, <1>10 DEF Migrating, EventsAfter
<1>12. InBlocker'
  BY <1>1, <1>2, <1>3, <1>4, <1>11 DEF InBlocker
<1>13. todo' # Waiting
  <2>1. Head(todo') = "emit"
    BY <1>1, <1>2, <1>7, StepsAfterFacts
  <2>2. Head(Waiting) = "waiting"
    BY DEF Waiting
  <2>3. QED  BY <2>1, <2>2
<1>14. QED  BY <1>1, <1>8, <1>9, <1>12, <1>13, StillInBlocker

LEMMA MigratedBlockInv ==
    ASSUME BlockInv, MigrationsRun
    PROVE  BlockInv'
<1> DEFINE p == block[pc][Current]
           e == EventOf(pc, Current, "migrate")
           before == EventsOfFirst(block, pc)[pos - 1]
<1>1. /\ InHandler /\ Running /\ todo # <<>> /\ Head(todo) = "migrated"
      /\ stack' = Returned(stack)
      /\ spans' = FinishedSpan(stack[Depth].span)
      /\ todo' = Tail(todo)
      /\ UNCHANGED <<tracerEnabled, block, pc, pos, updates, response>>
  BY DoingFacts DEF MigrationsRun
<1>2. /\ pc \in Kinds /\ block \in Blocks /\ tracerEnabled \in BOOLEAN
      /\ Current \in Module /\ Current \in Blockers[pc] /\ pos >= 1
      /\ p \in Programs /\ before \in Seq(Events) /\ stack \in Seq(Frames) /\ InBlocker
      /\ spans \in Seq(Spans)
  BY <1>1, RunningFacts
<1>3. PICK n \in 0..Len(p) : NoPanic(p, n) /\ (Blocking(n) \/ Migrating(n))
  BY <1>2 DEF InBlocker
<1>4. Len(p) \in Nat /\ Current' = Current /\ Base' = Base
  BY <1>1, <1>2, ProgramTypes DEF Base, Current
<1>5. ~Blocking(n)
  <2>1. SUFFICES ASSUME Blocking(n)
                 PROVE  FALSE
    OBVIOUS
  <2>2. todo = StepsAfter(p, n)
    BY <2>1 DEF Blocking
  <2>3. n < Len(p) /\ Head(todo) = p[n + 1] /\ n + 1 \in 1..Len(p)
    BY <1>1, <1>2, <2>2, NextStep
  <2>4. p[n + 1] \in {"emit", "migrate", "panic"}
    BY <1>2, <2>3, ProgramTypes
  <2>5. QED  BY <1>1, <2>3, <2>4
<1> DEFINE rest == StepsAfter(p, n + 1)
<1>6. /\ n < Len(p) /\ p[n + 1] = "migrate" /\ Depth = Base + 1
      /\ \/ todo = <<"emit", "migrated">> \o rest /\ stack[Depth].em = <<>>
         \/ todo = <<"migrated">> \o rest /\ stack[Depth].em = << e >>
      /\ Holds(tracerEnabled, stack, before, FirstEvents(pc, Current, p, n))
  BY <1>3, <1>5 DEF Migrating, EventsAfter
<1>7. n + 1 \in 0..Len(p) /\ rest \in Seq({"emit", "migrate", "panic"})
  BY <1>2, <1>4, <1>6, StepsAfterFacts
<1> HIDE DEF rest
<1>8. todo = <<"migrated">> \o rest /\ stack[Depth].em = << e >> /\ todo' = rest
  <2>1. Head(<<"emit", "migrated">> \o rest) = "emit"
    BY <1>7
  <2>2. todo = <<"migrated">> \o rest /\ stack[Depth].em = << e >>
    BY <1>1, <1>6, <2>1
  <2>3. Tail(<<"migrated">> \o rest) = rest
    <3> DEFINE t == Tail(<<"migrated">> \o rest)
    <3>1. t \in Seq({"emit", "migrate", "migrated", "panic"}) /\ Len(t) = Len(rest)
      BY <1>7
    <3>2. rest \in Seq({"emit", "migrate", "migrated", "panic"}) /\ \A i \in 1..Len(rest) : t[i] = rest[i]
      BY <1>7
    <3> HIDE DEF t
    <3>3. t = rest
      BY <3>1, <3>2, SeqEqual
    <3>4. QED  BY <3>3 DEF t
  <2>4. QED  BY <1>1, <2>2, <2>3
<1>9. e \in Events /\ e = EventOf(pc, Current, p[n + 1])
  BY <1>2, <1>6, EventTypes
<1> HIDE DEF e
<1>10. /\ stack' \in Seq(Frames) /\ Depth' = Base
       /\ \A d \in 1..(Base - 1) : stack'[d].em = stack[d].em
       /\ stack'[Base].em = stack[Base].em \o <<e>>
  <2>1. Len(stack) = Base + 1 /\ Base \in Nat /\ Base > 0
    BY <1>6 DEF Depth, Base
  <2>2. Len(stack) > 1 /\ Len(stack) - 1 = Base /\ Len(stack) - 2 = Base - 1
    BY <2>1
  <2> HIDE DEF Base
  <2>3. QED  BY <1>1, <1>2, <1>8, <2>1, <2>2, ReturnedFrames DEF Depth
<1>11. /\ stack[Base].em \in Seq(Events)
       /\ stack'[Base].em = Append(stack[Base].em, e)
  <2>1. Base \in 1..Len(stack)
    BY <1>6 DEF Depth, Base
  <2>2. stack[Base] \in Frames
    BY <1>2, <2>1
  <2>3. stack[Base].em \in Seq(Events)
    BY <2>2 DEF Frames
  <2>4. \A s \in Seq(Events) : s \o <<e>> = Append(s, e)
    <3>1. ASSUME NEW s \in Seq(Events)
          PROVE  s \o <<e>> = Append(s, e)
      <4>1. /\ s \o <<e>> \in Seq(Events) /\ Append(s, e) \in Seq(Events)
            /\ Len(s \o <<e>>) = Len(s) + 1 /\ Len(Append(s, e)) = Len(s) + 1
        BY <1>9
      <4>2. \A i \in 1..(Len(s) + 1) : (s \o <<e>>)[i] = Append(s, e)[i]
        BY <1>9
      <4>3. QED  BY <4>1, <4>2, SeqEqual
    <3>2. QED  BY <3>1
  <2>5. QED  BY <1>10, <2>3, <2>4
<1>12. /\ FirstEvents(pc, Current, p, n) \in Seq(Events)
       /\ Append(FirstEvents(pc, Current, p, n), e) = FirstEvents(pc, Current, p, n + 1)
  BY <1>2, <1>6, <1>9, FirstEventsFacts
<1>13. Holds(tracerEnabled, stack', before, Append(FirstEvents(pc, Current, p, n), e))
  BY <1>2, <1>6, <1>9, <1>10, <1>11, <1>12, OwnGrows DEF Base
<1>14. Blocking(n + 1)'
  BY <1>1, <1>4, <1>8, <1>10, <1>12, <1>13 DEF Blocking, EventsAfter, rest
<1>15. NoPanic(p, n + 1)
  BY <1>3, <1>6 DEF NoPanic
<1>16. InBlocker'
  BY <1>1, <1>2, <1>4, <1>7, <1>14, <1>15 DEF InBlocker
<1>17. todo' # Waiting
  BY <1>7, <1>8, NotWaiting
<1>18. spans' \in Seq(Spans)
  <2>1. stack[Depth] \in Frames
    BY <1>2, <1>6 DEF Base, Depth
  <2>2. stack[Depth].span \in Nat
    BY <2>1 DEF Frames
  <2>3. QED  BY <1>1, <1>2, <2>2, SpanTypes
<1>19. QED  BY <1>1, <1>10, <1>16, <1>17, <1>18, StillInBlocker

-----------------------------------------------------------------------------
(* Steps between blockers *)

LEMMA IdleFacts ==
    ASSUME BlockInv, InHandler, ~Running
    PROVE  /\ pc \in Kinds /\ block \in Blocks /\ tracerEnabled \in BOOLEAN
           /\ pos \in 0..Len(Order[pc]) /\ Len(Order[pc]) \in Nat
           /\ stack \in Seq(Frames) /\ spans \in Seq(Spans)
           /\ EventsOfFirst(block, pc)[pos] \in Seq(Events)
           /\ BetweenBlockers /\ ModulesRun = pos
           /\ NonePanics(block, pc, pos)
           /\ updates = IF pc = "end" THEN UpdatingFirst(block, pos) ELSE {}
           /\ updates = {} \/ \E m \in Module : updates = {m}
<1>1. pc \in Kinds /\ block \in Blocks /\ tracerEnabled \in BOOLEAN
  BY DEF BlockInv, InHandler, Kinds
<1>2. ModulesRun = pos
  BY DEF ModulesRun
<1>3. Len(Order[pc]) \in Nat
  BY <1>1, OrderTypes
<1>4. pos \in 0..Len(Order[pc])
  BY DEF BlockInv, HandlerRuns
<1>5. EventsOfFirst(block, pc)[pos] \in Seq(Events)
  BY <1>1, <1>4, EventsOfFirstType
<1>6. QED  BY <1>1, <1>2, <1>3, <1>4, <1>5 DEF BlockInv, HandlerRuns

\* A step in a handler that leaves its modules' results as they should be.
LEMMA StillInHandler ==
    ASSUME BlockInv, InHandler,
           UNCHANGED <<tracerEnabled, block, pc, response>>,
           stack' \in Seq(Frames), spans' \in Seq(Spans),
           pos' \in 0..Len(Order[pc]),
           IF Running' THEN InBlocker' ELSE BetweenBlockers',
           NonePanics(block, pc, ModulesRun'),
           updates' = IF pc = "end" THEN UpdatingFirst(block, ModulesRun') ELSE {},
           updates' = {} \/ \E m \in Module : updates' = {m}
    PROVE  BlockInv'
<1>1. InHandler'
  BY DEF InHandler
<1>2. HandlerRuns'
  BY <1>1 DEF HandlerRuns
<1>3. HandlersRan'
  BY DEF BlockInv, HandlersRan, ManagerEvents
<1>4. QED  BY <1>1, <1>2, <1>3 DEF BlockInv

LEMMA SkipBlockInv ==
    ASSUME BlockInv, SkipModule
    PROVE  BlockInv'
<1>1. /\ InHandler /\ ~Running /\ pos < Len(Order[pc])
      /\ Order[pc][pos + 1] \notin Blockers[pc]
      /\ pos' = pos + 1
      /\ UNCHANGED <<tracerEnabled, block, pc, todo, stack, updates, response, spans>>
  BY DEF SkipModule
<1>2. /\ pc \in Kinds /\ block \in Blocks /\ pos \in 0..Len(Order[pc]) /\ Len(Order[pc]) \in Nat
      /\ stack \in Seq(Frames) /\ spans \in Seq(Spans) /\ BetweenBlockers
      /\ NonePanics(block, pc, pos)
      /\ updates = IF pc = "end" THEN UpdatingFirst(block, pos) ELSE {}
      /\ updates = {} \/ \E m \in Module : updates = {m}
  BY <1>1, IdleFacts
<1>3. ~Running' /\ ModulesRun' = pos + 1 /\ pos + 1 \in 1..Len(Order[pc]) /\ (pos + 1) - 1 = pos
      /\ pos + 1 \in 0..Len(Order[pc])
  BY <1>1, <1>2 DEF Running, ModulesRun
<1>4. /\ EventsOfFirst(block, pc)[pos + 1] = EventsOfFirst(block, pc)[(pos + 1) - 1]
      /\ NonePanics(block, pc, (pos + 1) - 1) => NonePanics(block, pc, pos + 1)
      /\ pc = "end" => UpdatingFirst(block, pos + 1) = UpdatingFirst(block, (pos + 1) - 1)
  BY <1>1, <1>2, <1>3, ModulePassed
<1>5. BetweenBlockers'
  <2>1. EventsOfFirst(block, pc)[pos + 1] = EventsOfFirst(block, pc)[pos]
    BY <1>3, <1>4
  <2>2. Depth' = Depth /\ HandlerDepth' = HandlerDepth
    BY <1>1 DEF Depth, HandlerDepth
  <2>3. QED  BY <1>1, <1>2, <2>1, <2>2 DEF BetweenBlockers
<1>6. /\ NonePanics(block, pc, ModulesRun')
      /\ updates' = IF pc = "end" THEN UpdatingFirst(block, ModulesRun') ELSE {}
  BY <1>1, <1>2, <1>3, <1>4
<1>7. QED  BY <1>1, <1>2, <1>3, <1>5, <1>6, StillInHandler

LEMMA CallBlockInv ==
    ASSUME BlockInv, CallModule
    PROVE  BlockInv'
<1> DEFINE m == Order[pc][pos + 1]
           p == block[pc][m]
           before == EventsOfFirst(block, pc)[pos]
<1>1. /\ InHandler /\ ~Running /\ pos < Len(Order[pc]) /\ m \in Blockers[pc]
      /\ todo' = p
      /\ spans' = WithSpan(ModuleOp[pc], m, stack[Depth].span)
      /\ stack' = IF tracerEnabled THEN Called(stack, Len(spans')) ELSE stack
      /\ pos' = pos + 1
      /\ UNCHANGED <<tracerEnabled, block, pc, updates, response>>
  BY DEF CallModule
<1>2. /\ pc \in Kinds /\ block \in Blocks /\ tracerEnabled \in BOOLEAN
      /\ pos \in 0..Len(Order[pc]) /\ Len(Order[pc]) \in Nat
      /\ stack \in Seq(Frames) /\ spans \in Seq(Spans) /\ BetweenBlockers
      /\ before \in Seq(Events) /\ NonePanics(block, pc, pos)
      /\ updates = IF pc = "end" THEN UpdatingFirst(block, pos) ELSE {}
      /\ updates = {} \/ \E n \in Module : updates = {n}
  BY <1>1, IdleFacts
<1>3. pos + 1 \in 1..Len(Order[pc]) /\ pos + 1 \in 0..Len(Order[pc]) /\ (pos + 1) - 1 = pos
      /\ pos + 1 >= 1
  BY <1>1, <1>2
<1>4. m \in Module /\ p \in Programs
  BY <1>1, <1>2, <1>3, OrderTypes, BlockTypes
<1>5. Len(p) \in Nat /\ 0 \in 0..Len(p) /\ p = StepsAfter(p, 0) /\ FirstEvents(pc, m, p, 0) = <<>>
  BY <1>2, <1>4, ProgramTypes, StepsAfterFacts, FirstEventsFacts
<1>6. p # Waiting
  <2>1. p \in Seq({"emit", "migrate", "panic"})
    BY <1>4, ProgramTypes
  <2>2. QED  BY <2>1, NotWaiting
<1>7. Current' = m
  BY <1>1, <1>3 DEF Current
<1> HIDE DEF p, m
<1>8. Running' /\ ModulesRun' = pos
  BY <1>1, <1>3, <1>6 DEF Running, ModulesRun
<1>9. /\ Depth = HandlerDepth /\ stack[Depth].em = before /\ (tracerEnabled => stack[1].em = <<>>)
      /\ Depth \in 1..Len(stack)
  BY <1>2 DEF BetweenBlockers, HandlerDepth, Depth
<1>10. spans' \in Seq(Spans)
  <2>1. stack[Depth] \in Frames
    BY <1>2, <1>9
  <2>2. stack[Depth].span \in Nat
    BY <2>1 DEF Frames
  <2>3. ModuleOp[pc] \in OpNames
    BY <1>2 DEF ModuleOp, OpNames, Kinds
  <2>4. QED  BY <1>1, <1>2, <1>4, <2>2, <2>3, SpanTypes
<1>11. stack' \in Seq(Frames) /\ Depth' = Base /\ Holds(tracerEnabled, stack', before, <<>>)
  <2>1. CASE tracerEnabled
    <3>1. Len(stack) = 2 /\ Len(spans') \in Nat
      BY <1>9, <1>10, <2>1 DEF HandlerDepth, Depth
    <3>2. /\ Called(stack, Len(spans')) \in Seq(Frames) /\ Len(Called(stack, Len(spans'))) = 3
          /\ Called(stack, Len(spans'))[1] = stack[1] /\ Called(stack, Len(spans'))[2] = stack[2]
          /\ Called(stack, Len(spans'))[3] = [span |-> Len(spans'), em |-> <<>>]
      <4> DEFINE c == Called(stack, Len(spans'))
      <4>1. /\ c \in Seq(Frames) /\ Len(c) = Len(stack) + 1
            /\ \A d \in 1..Len(stack) : c[d] = stack[d]
            /\ c[Len(stack) + 1] = [span |-> Len(spans'), em |-> <<>>]
        BY <1>2, <3>1, CalledFrames
      <4>2. Len(stack) + 1 = 3 /\ 1 \in 1..Len(stack) /\ 2 \in 1..Len(stack)
        BY <3>1
      <4>3. QED  BY <4>1, <4>2
    <3>3. stack' = Called(stack, Len(spans'))
      BY <1>1, <2>1
    <3>4. stack[1].em = <<>> /\ stack[2].em = before
      BY <1>9, <2>1, <3>1 DEF Depth
    <3> HIDE DEF before
    <3>5. QED  BY <2>1, <3>2, <3>3, <3>4 DEF Holds, Depth, Base
  <2>2. CASE ~tracerEnabled
    <3>1. \A s \in Seq(Events) : s \o <<>> = s
      OBVIOUS
    <3>2. before \o <<>> = before
      BY <1>2, <3>1
    <3>3. stack' = stack /\ Depth = 1 /\ stack[1].em = before
      BY <1>1, <1>9, <2>2 DEF HandlerDepth
    <3>4. QED  BY <1>2, <2>2, <3>2, <3>3 DEF Holds, Depth, Base
  <2>3. QED  BY <1>2, <2>1, <2>2
<1>12. Blocking(0)'
  <2>1. /\ EventsAfter(0)' <=> Holds(tracerEnabled, stack', EventsOfFirst(block, pc)[(pos + 1) - 1],
                                     FirstEvents(pc, m, p, 0))
        /\ todo' = StepsAfter(p, 0) /\ block'[pc'][Current'] = p
    BY <1>1, <1>5, <1>7 DEF EventsAfter, p
  <2>2. Base' = Base
    BY <1>1 DEF Base
  <2>3. QED  BY <1>3, <1>5, <1>11, <2>1, <2>2 DEF Blocking
<1>13. InBlocker'
  <2>1. block'[pc'][Current'] = p
    BY <1>1, <1>7 DEF p
  <2>2. NoPanic(p, 0)
    BY DEF NoPanic
  <2>3. QED  BY <1>1, <1>3, <1>5, <1>7, <1>12, <2>1, <2>2 DEF InBlocker
<1>14. QED  BY <1>1, <1>2, <1>3, <1>8, <1>10, <1>11, <1>13, StillInHandler

LEMMA ReturnBlockInv ==
    ASSUME BlockInv, ModuleReturns
    PROVE  BlockInv'
<1> DEFINE p == block[pc][Current]
           before == EventsOfFirst(block, pc)[pos - 1]
           own == FirstEvents(pc, Current, p, Len(p))
<1>1. /\ InHandler /\ todo = <<>> /\ ~(pc = "end" /\ UpdatesRefused)
      /\ updates' = IF Updating THEN {Current} ELSE updates
      /\ stack' = IF tracerEnabled THEN Returned(stack) ELSE stack
      /\ todo' = Waiting
      /\ UNCHANGED <<tracerEnabled, block, pc, pos, response>>
  BY DEF ModuleReturns
<1>2. Running
  BY <1>1 DEF Running, Waiting
<1>3. /\ pc \in Kinds /\ block \in Blocks /\ tracerEnabled \in BOOLEAN
      /\ pos \in 1..Len(Order[pc]) /\ Current \in Module /\ Current \in Blockers[pc]
      /\ p \in Programs /\ before \in Seq(Events) /\ stack \in Seq(Frames) /\ InBlocker
      /\ spans \in Seq(Spans)
  BY <1>1, <1>2, RunningFacts
<1>4. /\ ModulesRun = pos - 1 /\ NonePanics(block, pc, pos - 1)
      /\ updates = IF pc = "end" THEN UpdatingFirst(block, pos - 1) ELSE {}
      /\ updates = {} \/ \E n \in Module : updates = {n}
  BY <1>1, <1>2 DEF BlockInv, HandlerRuns, ModulesRun
<1>5. PICK n \in 0..Len(p) : NoPanic(p, n) /\ (Blocking(n) \/ Migrating(n))
  BY <1>3 DEF InBlocker
<1>6. Len(p) \in Nat /\ Len(Order[pc]) \in Nat
  BY <1>3, ProgramTypes, OrderTypes
<1>7. ~Migrating(n)
  <2>1. SUFFICES ASSUME Migrating(n)
                 PROVE  FALSE
    OBVIOUS
  <2> DEFINE rest == StepsAfter(p, n + 1)
  <2>2. /\ n < Len(p)
        /\ todo = <<"emit", "migrated">> \o rest \/ todo = <<"migrated">> \o rest
    BY <2>1 DEF Migrating
  <2>3. rest \in Seq({"emit", "migrate", "panic"})
    <3>1. n + 1 \in 0..Len(p)
      BY <1>6, <2>2
    <3>2. QED  BY <1>3, <3>1, StepsAfterFacts
  <2> HIDE DEF rest
  <2>4. Len(<<"emit", "migrated">> \o rest) # 0 /\ Len(<<"migrated">> \o rest) # 0
    BY <2>3
  <2>5. Len(<<>>) = 0
    OBVIOUS
  <2>6. QED  BY <1>1, <2>2, <2>4, <2>5
<1>8. /\ Depth = Base /\ StepsAfter(p, n) = <<>>
      /\ Holds(tracerEnabled, stack, before, FirstEvents(pc, Current, p, n))
  BY <1>1, <1>5, <1>7 DEF Blocking, EventsAfter
<1>9. n = Len(p)
  BY <1>3, <1>8, StepsAfterFacts
<1>10. NoPanic(p, Len(p)) /\ Holds(tracerEnabled, stack, before, own) /\ own \in Seq(Events)
  BY <1>3, <1>5, <1>6, <1>8, <1>9, FirstEventsFacts
<1>11. /\ EventsOfFirst(block, pc)[pos] = before \o own
       /\ NonePanics(block, pc, pos)
       /\ pc = "end" /\ Current \notin block.updating =>
            UpdatingFirst(block, pos) = UpdatingFirst(block, pos - 1)
       /\ pc = "end" /\ Current \in block.updating =>
            UpdatingFirst(block, pos) = UpdatingFirst(block, pos - 1) \cup {Current}
  <2>1. Current = Order[pc][pos]
    BY DEF Current
  <2>2. /\ EventsOfFirst(block, pc)[pos] =
                EventsOfFirst(block, pc)[pos - 1]
                \o FirstEvents(pc, Current, block[pc][Current], Len(block[pc][Current]))
        /\ NonePanics(block, pc, pos - 1) /\ NoPanic(block[pc][Current], Len(block[pc][Current]))
           => NonePanics(block, pc, pos)
        /\ pc = "end" /\ Current \notin block.updating =>
             UpdatingFirst(block, pos) = UpdatingFirst(block, pos - 1)
        /\ pc = "end" /\ Current \in block.updating =>
             UpdatingFirst(block, pos) = UpdatingFirst(block, pos - 1) \cup {Current}
    <3>1. pc \in Kinds /\ block \in Blocks /\ pos \in 1..Len(Order[pc]) /\ Current \in Blockers[pc]
      BY <1>3
    <3>2. ModuleAdds(block, pc, pos, Current)
      BY <2>1, <3>1, ModuleRun
    <3>3. QED  BY <3>2 DEF ModuleAdds
  <2>3. QED  BY <1>4, <1>10, <2>2
<1> HIDE DEF own, before, p
<1>12. ~Running' /\ ModulesRun' = pos /\ pos \in 0..Len(Order[pc])
  BY <1>1, <1>3, <1>6 DEF Running, ModulesRun
<1>13. /\ stack' \in Seq(Frames) /\ Depth' = HandlerDepth
       /\ stack'[HandlerDepth].em = before \o own
       /\ tracerEnabled => stack'[1].em = <<>>
  <2>1. CASE tracerEnabled
    <3>1. Len(stack) = 3 /\ stack[1].em = <<>> /\ stack[2].em = before /\ stack[3].em = own
      BY <1>8, <1>10, <2>1 DEF Depth, Base, Holds
    <3>2. stack' = Returned(stack)
      BY <1>1, <2>1
    <3>3. /\ Returned(stack) \in Seq(Frames) /\ Len(Returned(stack)) = Len(stack) - 1
          /\ \A d \in 1..(Len(stack) - 2) : Returned(stack)[d].em = stack[d].em
          /\ Returned(stack)[Len(stack) - 1].em = stack[Len(stack) - 1].em \o stack[Len(stack)].em
      <4>1. Len(stack) > 1
        BY <3>1
      <4>2. QED  BY <1>3, <4>1, ReturnedFrames
    <3>4. Len(stack) - 1 = 2 /\ 1 \in 1..(Len(stack) - 2)
      BY <3>1
    <3>5. QED  BY <2>1, <3>1, <3>2, <3>3, <3>4 DEF Depth, HandlerDepth
  <2>2. CASE ~tracerEnabled
    BY <1>1, <1>3, <1>8, <1>10, <2>2 DEF Depth, Base, HandlerDepth, Holds
  <2>3. QED  BY <1>3, <2>1, <2>2
<1>14. BetweenBlockers'
  <2>1. HandlerDepth' = HandlerDepth /\ EventsOfFirst(block, pc)'[pos'] = before \o own
    BY <1>1, <1>11 DEF HandlerDepth
  <2>2. QED  BY <1>1, <1>13, <2>1 DEF BetweenBlockers
<1>15. spans' \in Seq(Spans)
  <2>1. CASE tracerEnabled
    <3> DEFINE s == stack[Depth].span
               finished == FinishedSpan(s)
    <3>1. stack[Depth] \in Frames
      BY <1>3, <1>8 DEF Depth, Base
    <3>2. s \in Nat
      BY <3>1 DEF Frames
    <3> HIDE DEF s
    <3>3. finished \in Seq(Spans)
      BY <1>3, <3>2, SpanTypes
    <3>4. spans' = [finished EXCEPT ![s].valset = Updating]
      BY <2>1 DEF ModuleReturns, s
    <3>5. Updating \in BOOLEAN
      BY DEF Updating
    <3> HIDE DEF finished
    <3>6. QED  BY <3>2, <3>3, <3>4, <3>5, ValsetSet
  <2>2. CASE ~tracerEnabled
    BY <1>3, <2>2 DEF ModuleReturns
  <2>3. QED  BY <1>3, <2>1, <2>2
<1>16. /\ updates' = IF pc = "end" THEN UpdatingFirst(block, pos) ELSE {}
       /\ updates' = {} \/ \E m \in Module : updates' = {m}
  <2>1. CASE pc = "end" /\ Current \in block.updating
    <3>1. updates = {} /\ updates' = {Current}
      BY <1>1, <2>1 DEF UpdatesRefused, Updating
    <3>2. QED  BY <1>3, <1>4, <1>11, <2>1, <3>1
  <2>2. CASE ~(pc = "end" /\ Current \in block.updating)
    <3>1. updates' = updates
      BY <1>1, <2>2 DEF Updating
    <3>2. QED  BY <1>4, <1>11, <2>2, <3>1
  <2>3. QED  BY <2>1, <2>2
<1>17. QED  BY <1>1, <1>11, <1>12, <1>13, <1>14, <1>15, <1>16, StillInHandler

-----------------------------------------------------------------------------
(* Handlers begin and return *)

LEMMA StartBlockInv ==
    ASSUME BlockInv, block \in Blocks, pc \notin Kinds, NEW k \in Kinds, Start(k),
           k = "end" => pc = "begun"
    PROVE  BlockInv'
<1>1. /\ pc' = k /\ pos' = 0 /\ updates' = {}
      /\ spans' = WithSpan(BlockOp[k], NoModule, 0)
      /\ stack' = LET managed == << [span |-> 0, em |-> <<>>] >>
                  IN  IF tracerEnabled THEN Called(managed, Len(spans')) ELSE managed
      /\ UNCHANGED <<tracerEnabled, block, todo, response>>
  BY DEF Start
<1>2. /\ todo = Waiting /\ tracerEnabled \in BOOLEAN /\ spans \in Seq(Spans)
  BY DEF BlockInv, InHandler
<1>3. ~Running' /\ InHandler' /\ ModulesRun' = 0
  BY <1>1, <1>2 DEF Running, InHandler, ModulesRun
<1>4. spans' \in Seq(Spans)
  <2>1. BlockOp[k] \in OpNames /\ 0 \in Nat
    BY DEF BlockOp, OpNames, Kinds
  <2>2. QED  BY <1>1, <1>2, <2>1, SpanTypes
<1>5. /\ stack' \in Seq(Frames) /\ Depth' = HandlerDepth
      /\ stack'[HandlerDepth].em = <<>> /\ (tracerEnabled => stack'[1].em = <<>>)
  <2> DEFINE first == [span |-> 0, em |-> <<>>]
             managed == << first >>
  <2>1. first \in Frames /\ first.em = <<>>
    BY DEF Frames
  <2> HIDE DEF first
  <2>2. managed \in Seq(Frames) /\ Len(managed) = 1 /\ managed[1] = first
    BY <2>1
  <2> HIDE DEF managed
  <2>3. CASE tracerEnabled
    <3> DEFINE c == Called(managed, Len(spans'))
    <3>1. Len(spans') \in Nat
      BY <1>4
    <3>2. /\ c \in Seq(Frames) /\ Len(c) = Len(managed) + 1
          /\ \A d \in 1..Len(managed) : c[d] = managed[d]
          /\ c[Len(managed) + 1] = [span |-> Len(spans'), em |-> <<>>]
      BY <2>2, <3>1, CalledFrames
    <3>3. c[1] = first /\ c[2].em = <<>> /\ Len(c) = 2
      BY <2>2, <3>2
    <3>4. stack' = c
      BY <1>1, <2>3 DEF managed, first
    <3> HIDE DEF c
    <3>5. QED  BY <2>1, <2>3, <3>2, <3>3, <3>4 DEF Depth, HandlerDepth
  <2>4. CASE ~tracerEnabled
    <3>1. stack' = managed
      BY <1>1, <2>4 DEF managed, first
    <3>2. QED  BY <2>1, <2>2, <2>4, <3>1 DEF Depth, HandlerDepth
  <2>5. QED  BY <1>2, <2>3, <2>4
<1>6. /\ EventsOfFirst(block, k)[0] = <<>>
      /\ NonePanics(block, k, 0)
      /\ UpdatingFirst(block, 0) = {}
      /\ Len(Order[k]) \in Nat
  BY NoModuleRun, OrderTypes
<1>7. BetweenBlockers'
  <2>1. HandlerDepth' = HandlerDepth
    BY <1>1 DEF HandlerDepth
  <2>2. EventsOfFirst(block, pc)'[pos'] = <<>>
    BY <1>1, <1>6
  <2>3. QED  BY <1>1, <1>5, <2>1, <2>2 DEF BetweenBlockers
<1>8. HandlerRuns'
  BY <1>1, <1>3, <1>6, <1>7 DEF HandlerRuns
<1>9. HandlersRan'
  <2>1. CASE k = "begin"
    BY <1>1, <2>1 DEF HandlersRan
  <2>2. CASE k = "end"
    BY <1>1, <2>2 DEF BlockInv, HandlersRan, ManagerEvents
  <2>3. QED  BY <2>1, <2>2 DEF Kinds
<1>10. QED  BY <1>1, <1>2, <1>3, <1>4, <1>5, <1>8, <1>9 DEF BlockInv, Kinds

LEMMA HandlerBlockInv ==
    ASSUME BlockInv, HandlerReturns
    PROVE  BlockInv'
<1> DEFINE managed == IF tracerEnabled THEN Returned(stack)[1].em ELSE stack[1].em
<1>1. /\ InHandler /\ ~Running /\ pos = Len(Order[pc])
      /\ response' = IF pc = "begin" THEN [response EXCEPT !.begin = managed]
                     ELSE [response EXCEPT !.end = managed, !.updates = updates]
      /\ spans' = FinishedSpan(stack[Depth].span)
      /\ pc' = IF pc = "begin" THEN "begun" ELSE "ended"
      /\ stack' = <<>>
      /\ UNCHANGED <<tracerEnabled, block, pos, todo, updates>>
  BY DEF HandlerReturns
<1>2. /\ pc \in Kinds /\ block \in Blocks /\ tracerEnabled \in BOOLEAN
      /\ stack \in Seq(Frames) /\ spans \in Seq(Spans)
      /\ EventsOfFirst(block, pc)[pos] \in Seq(Events)
      /\ BetweenBlockers
      /\ NonePanics(block, pc, pos)
      /\ updates = IF pc = "end" THEN UpdatingFirst(block, pos) ELSE {}
      /\ updates = {} \/ \E m \in Module : updates = {m}
  BY <1>1, IdleFacts
<1>3. managed = ManagerEvents(pc)
  <2>1. Depth = HandlerDepth /\ stack[Depth].em = ManagerEvents(pc)
        /\ (tracerEnabled => stack[1].em = <<>>) /\ ManagerEvents(pc) \in Seq(Events)
    BY <1>1, <1>2 DEF BetweenBlockers, ManagerEvents
  <2>2. CASE tracerEnabled
    <3>1. Len(stack) = 2 /\ stack[2].em = ManagerEvents(pc) /\ stack[1].em = <<>>
      BY <2>1, <2>2 DEF Depth, HandlerDepth
    <3>2. Len(stack) > 1 /\ Len(stack) - 1 = 1
      BY <3>1
    <3>3. Returned(stack)[Len(stack) - 1].em = stack[Len(stack) - 1].em \o stack[Len(stack)].em
      BY <1>2, <3>2, ReturnedFrames
    <3>4. Returned(stack)[1].em = <<>> \o ManagerEvents(pc)
      BY <3>1, <3>2, <3>3
    <3>5. \A s \in Seq(Events) : <<>> \o s = s
      OBVIOUS
    <3>6. QED  BY <2>1, <2>2, <3>4, <3>5
  <2>3. CASE ~tracerEnabled
    BY <2>1, <2>3 DEF HandlerDepth
  <2>4. QED  BY <1>2, <2>2, <2>3
<1> HIDE DEF managed
<1>4. ~InHandler' /\ todo' = Waiting /\ stack' \in Seq(Frames)
  <2>1. <<>> \in Seq(Frames)
    OBVIOUS
  <2>2. QED  BY <1>1, <1>2, <2>1 DEF InHandler, Running, Kinds
<1>5. spans' \in Seq(Spans)
  <2>1. stack[Depth] \in Frames
    BY <1>2 DEF BetweenBlockers, HandlerDepth, Depth
  <2>2. stack[Depth].span \in Nat
    BY <2>1 DEF Frames
  <2>3. QED  BY <1>1, <1>2, <2>2, SpanTypes
<1>6. HandlersRan'
  <2>1. CASE pc = "begin"
    <3>1. response'.begin = ManagerEvents("begin")
      BY <1>1, <1>3, <2>1 DEF BlockInv, Responses
    <3>2. NonePanics(block, "begin", Len(BeginOrder))
      BY <1>1, <1>2, <2>1 DEF Order
    <3>3. ManagerEvents("begin")' = ManagerEvents("begin")
      BY <1>1 DEF ManagerEvents
    <3>4. QED  BY <1>1, <2>1, <3>1, <3>2, <3>3 DEF HandlersRan
  <2>2. CASE pc = "end"
    <3>1. /\ response'.end = ManagerEvents("end") /\ response'.updates = updates
          /\ response'.begin = response.begin
      BY <1>1, <1>3, <2>2 DEF BlockInv, Responses
    <3>2. NonePanics(block, "end", Len(EndOrder)) /\ pos = Len(EndOrder)
      BY <1>1, <1>2, <2>2 DEF Order
    <3>3. updates = block.updating
      BY <1>2, <2>2, <3>2, EveryModuleRun
    <3>4. NonePanics(block, "begin", Len(BeginOrder)) /\ response.begin = ManagerEvents("begin")
      BY <2>2 DEF BlockInv, HandlersRan
    <3>5. \A k : ManagerEvents(k)' = ManagerEvents(k)
      BY <1>1 DEF ManagerEvents
    <3>6. QED  BY <1>1, <1>2, <2>2, <3>1, <3>2, <3>3, <3>4, <3>5 DEF HandlersRan
  <2>3. QED  BY <1>2, <2>1, <2>2 DEF Kinds
<1>7. HandlerRuns'
  BY <1>4 DEF HandlerRuns
<1>8. pc' \in {"begun", "ended"}
  BY <1>1
<1>9. response' \in Responses
  <2>1. ManagerEvents(pc) \in Seq(Events) /\ updates \in SUBSET Module
    BY <1>1, <1>2 DEF ManagerEvents
  <2>2. response \in Responses
    BY DEF BlockInv
  <2>3. QED  BY <1>1, <1>3, <2>1, <2>2 DEF Responses
<1>10. QED  BY <1>1, <1>2, <1>4, <1>5, <1>6, <1>7, <1>8, <1>9 DEF BlockInv

LEMMA StopBlockInv ==
    ASSUME BlockInv, Stop
    PROVE  BlockInv'
<1>1. /\ pc' = "down" /\ todo' = Waiting /\ stack' = <<>> /\ spans' = <<>>
      /\ UNCHANGED <<tracerEnabled, block>>
  BY DEF Stop
<1>2. stack' \in Seq(Frames) /\ spans' \in Seq(Spans) /\ response' \in Responses
  BY <1>1 DEF Stop, NoResponse, Responses
<1>3. HandlerRuns' /\ HandlersRan'
  BY <1>1 DEF HandlerRuns, HandlersRan, InHandler, Kinds
<1>4. QED  BY <1>1, <1>2, <1>3 DEF BlockInv, InHandler, Kinds

\* Outside the handlers and the time between them there is nothing to keep.
LEMMA NodeBlockInv ==
    ASSUME BlockInv, Propose \/ Commit \/ Restart
    PROVE  BlockInv'
<1>1. /\ pc' = "idle" /\ todo' = todo /\ stack' = stack
      /\ spans' \in Seq(Spans) /\ tracerEnabled' \in BOOLEAN
      /\ block' \in Blocks \cup {NoBlock}
      /\ pc \notin Kinds /\ response' \in Responses
  <2>1. <<>> \in Seq(Spans) /\ NoResponse \in Responses
    BY DEF NoResponse, Responses
  <2>2. QED  BY <2>1 DEF BlockInv, Propose, Commit, Restart, node, Kinds
<1>2. todo = Waiting
  BY <1>1 DEF BlockInv, InHandler
<1>3. HandlerRuns' /\ HandlersRan'
  BY <1>1 DEF HandlerRuns, HandlersRan, InHandler, Kinds
<1>4. QED  BY <1>1, <1>2, <1>3 DEF BlockInv, InHandler, Kinds

-----------------------------------------------------------------------------
(* The theorem *)

LEMMA InitBlockInv ==
    ASSUME Init
    PROVE  BlockInv
<1>1. stack \in Seq(Frames) /\ spans \in Seq(Spans) /\ response \in Responses
  BY DEF Init, NoResponse, Responses
<1>2. HandlerRuns /\ HandlersRan
  BY DEF Init, HandlerRuns, HandlersRan, InHandler, Kinds
<1>3. QED  BY <1>1, <1>2 DEF Init, BlockInv, InHandler, Kinds

LEMMA NextBlockInv ==
    ASSUME BlockInv, [Next]_vars
    PROVE  BlockInv'
<1>1. CASE BeginBlock
  BY <1>1, StartBlockInv DEF BeginBlock, BlockInv, Kinds
<1>2. CASE EndBlock
  BY <1>2, StartBlockInv DEF EndBlock, BlockInv, Kinds
<1>3. CASE SkipModule
  BY <1>3, SkipBlockInv
<1>4. CASE CallModule
  BY <1>4, CallBlockInv
<1>5. CASE Emit
  BY <1>5, EmitBlockInv
<1>6. CASE RunMigrations
  BY <1>6, MigrationBlockInv
<1>7. CASE MigrationsRun
  BY <1>7, MigratedBlockInv
<1>8. CASE ModuleReturns
  BY <1>8, ReturnBlockInv
<1>9. CASE Panic
  BY <1>9, StopBlockInv DEF Panic
<1>10. CASE HandlerReturns
  BY <1>10, HandlerBlockInv
<1>11. CASE Crash
  BY <1>11, StopBlockInv DEF Crash
<1>12. CASE Propose \/ Commit \/ Restart
  BY <1>12, NodeBlockInv
<1>13. CASE UNCHANGED vars
  BY <1>13 DEF vars, node, BlockInv, InHandler, HandlerRuns, HandlersRan, Running, InBlocker,
               BetweenBlockers, Blocking, Migrating, EventsAfter, ModulesRun, Depth, Current,
               Base, HandlerDepth, ManagerEvents
<1>14. CASE Synced
  BY <1>13, <1>14 DEF Synced
<1>15. QED
  BY <1>1, <1>2, <1>3, <1>4, <1>5, <1>6, <1>7, <1>8, <1>9, <1>10, <1>11, <1>12, <1>13, <1>14
     DEF Next, Step

LEMMA CommitsFollow ==
    ASSUME BlockInv
    PROVE  CommitsAsManager
<1>1. SUFFICES ASSUME pc = "ended"
               PROVE  ~Halting /\ response = ManagerResponse
  BY DEF CommitsAsManager
<1>2. /\ block \in Blocks /\ response \in Responses
      /\ response.begin = ManagerEvents("begin") /\ response.end = ManagerEvents("end")
      /\ response.updates = block.updating
      /\ NonePanics(block, "begin", Len(BeginOrder)) /\ NonePanics(block, "end", Len(EndOrder))
      /\ block.updating = {} \/ \E m \in Module : block.updating = {m}
  BY <1>1 DEF BlockInv, HandlersRan
<1>3. response = ManagerResponse
  BY <1>2 DEF ManagerResponse, Responses
<1>4. ASSUME NEW k \in Kinds, NEW m \in Blockers[k]
      PROVE  "panic" \notin Range(block[k][m])
  <2>1. PICK i \in 1..Len(Order[k]) : Order[k][i] = m
    BY OrderTypes
  <2>2. NonePanics(block, k, Len(Order[k]))
    BY <1>2 DEF Order, Kinds
  <2>3. NoPanic(block[k][m], Len(block[k][m]))
    BY <2>1, <2>2 DEF NonePanics
  <2>4. block[k][m] \in Programs
    BY <1>2, BlockTypes
  <2>5. DOMAIN block[k][m] = 1..Len(block[k][m])
    BY <2>4, ProgramTypes
  <2>6. QED  BY <2>3, <2>5 DEF NoPanic, Range
<1>5. Cardinality(block.updating) \in {0, 1}
  <2>1. CASE block.updating = {}
    BY <2>1, FS_EmptySet
  <2>2. CASE \E m \in Module : block.updating = {m}
    BY <2>2, FS_Singleton
  <2>3. QED  BY <1>2, <2>1, <2>2
<1>6. ~Halting
  BY <1>4, <1>5 DEF Halting
<1>7. QED  BY <1>3, <1>6

\* A block that is committed has the events and the validator updates that
\* module.Manager returns for it, and is one with which it does not panic:
\* BeginBlock and EndBlock of TraceModuleManager, with tracing or without, for every
\* order of modules, whatever blockers and migrations do and however often the
\* node is stopped in between.
THEOREM BlocksAsManager == Spec => []CommitsAsManager
<1>1. Init => BlockInv
  BY InitBlockInv
<1>2. BlockInv /\ [Next]_vars => BlockInv'
  BY NextBlockInv
<1>3. BlockInv => CommitsAsManager
  BY CommitsFollow
<1>4. QED  BY <1>1, <1>2, <1>3, PTL DEF Spec

-----------------------------------------------------------------------------
(* The trace of a block *)

\* Among the spans sp: those of handler k that are its own, and those of modules.
RootsIn(k, sp) == {s \in DOMAIN sp : sp[s].op = BlockOp[k] /\ sp[s].parent = 0}

ModulesIn(k, sp) ==
    {s \in DOMAIN sp : sp[s].op \in {BlockOp[k], ModuleOp[k]} /\ sp[s].module # NoModule}

Absent(k, sp) == RootsIn(k, sp) = {} /\ ModulesIn(k, sp) = {}

\* What of TracesBlock holds when handler k has come to its n-th module.
Traced(k, sp, n, root) ==
    /\ RootsIn(k, sp) = {root}
    /\ \A s \in ModulesIn(k, sp) :
            /\ sp[s].parent = root
            /\ sp[s].module \in Blockers[k]
            /\ \E i \in 1..n : sp[s].module = Order[k][i]
    /\ \A i \in 1..n : Order[k][i] \in Blockers[k] =>
            \E s \in ModulesIn(k, sp) : sp[s].module = Order[k][i]
    /\ \A s, t \in ModulesIn(k, sp) : s < t <=> RunsBefore(k, sp[s].module, sp[t].module)

Trees ==
    /\ pc = "begin" => Traced("begin", spans, pos, stack[2].span)
    /\ pc \in {"begun", "end", "ended"} =>
            \E root \in Nat : Traced("begin", spans, Len(BeginOrder), root)
    /\ pc \in {"begin", "begun"} => Absent("end", spans)
    /\ pc = "end" => Traced("end", spans, pos, stack[2].span)
    /\ pc = "ended" => \E root \in Nat : Traced("end", spans, Len(EndOrder), root)

\* Spans that are not finished are those of the calls in progress.
OpenSpans ==
    /\ \A s \in DOMAIN spans :
            spans[s].finished \/ (InHandler /\ \E d \in 2..Depth : stack[d].span = s)
    /\ InHandler => \A d \in 2..Depth : stack[d].span \in DOMAIN spans
    /\ InHandler /\ Running =>
            spans[stack[3].span].module = Current /\ ~spans[stack[3].span].valset

UpdatesSoFar ==
    IF InHandler THEN updates ELSE IF pc = "ended" THEN response.updates ELSE {}

MarkedIn(sp) == {sp[s].module : s \in {t \in DOMAIN sp : sp[t].valset}}

TraceInv ==
    /\ pc \in {"idle", "down"} => spans = <<>>
    /\ tracerEnabled => Trees /\ OpenSpans /\ MarkedIn(spans) = UpdatesSoFar

\* Spans of which only the marks have changed.
SameTree(sp, sp2) ==
    /\ DOMAIN sp2 = DOMAIN sp
    /\ \A s \in DOMAIN sp :
            sp2[s].op = sp[s].op /\ sp2[s].module = sp[s].module /\ sp2[s].parent = sp[s].parent

LEMMA TreeSame ==
    ASSUME NEW k, NEW sp, NEW sp2, SameTree(sp, sp2)
    PROVE  /\ Absent(k, sp) => Absent(k, sp2)
           /\ \A n, root : Traced(k, sp, n, root) => Traced(k, sp2, n, root)
<1>1. RootsIn(k, sp2) = RootsIn(k, sp) /\ ModulesIn(k, sp2) = ModulesIn(k, sp)
  BY DEF SameTree, RootsIn, ModulesIn
<1>2. \A s \in ModulesIn(k, sp) : sp2[s].parent = sp[s].parent /\ sp2[s].module = sp[s].module
  BY DEF SameTree, ModulesIn
<1>3. Absent(k, sp) => Absent(k, sp2)
  BY <1>1 DEF Absent
<1>4. ASSUME NEW n, NEW root, Traced(k, sp, n, root)
      PROVE  Traced(k, sp2, n, root)
  BY <1>1, <1>2, <1>4 DEF Traced
<1>5. QED  BY <1>3, <1>4

LEMMA AppendedSpan ==
    ASSUME NEW sp \in Seq(Spans), NEW x \in Spans
    PROVE  /\ Append(sp, x) \in Seq(Spans) /\ Len(sp) \in Nat
           /\ DOMAIN sp = 1..Len(sp)
           /\ DOMAIN Append(sp, x) = (1..Len(sp)) \cup {Len(sp) + 1}
           /\ \A s \in 1..Len(sp) : Append(sp, x)[s] = sp[s]
           /\ Append(sp, x)[Len(sp) + 1] = x
<1>1. 1..(Len(sp) + 1) = (1..Len(sp)) \cup {Len(sp) + 1}
  OBVIOUS
<1>2. DOMAIN Append(sp, x) = 1..(Len(sp) + 1)
  OBVIOUS
<1>3. QED  BY <1>1, <1>2

LEMMA SetsGrown ==
    ASSUME NEW k, NEW sp \in Seq(Spans), NEW x \in Spans
    PROVE  LET new == Len(sp) + 1
           IN  /\ RootsIn(k, Append(sp, x)) =
                    RootsIn(k, sp) \cup (IF x.op = BlockOp[k] /\ x.parent = 0 THEN {new} ELSE {})
               /\ ModulesIn(k, Append(sp, x)) =
                    ModulesIn(k, sp)
                    \cup (IF x.op \in {BlockOp[k], ModuleOp[k]} /\ x.module # NoModule THEN {new} ELSE {})
<1> DEFINE a == Append(sp, x)
           new == Len(sp) + 1
<1>1. /\ DOMAIN a = DOMAIN sp \cup {new}
      /\ \A s \in DOMAIN sp : a[s] = sp[s]
      /\ a[new] = x
  BY AppendedSpan
<1> HIDE DEF a, new
<1>2. RootsIn(k, a) = RootsIn(k, sp) \cup (IF x.op = BlockOp[k] /\ x.parent = 0 THEN {new} ELSE {})
  BY <1>1 DEF RootsIn
<1>3. ModulesIn(k, a) =
        ModulesIn(k, sp)
        \cup (IF x.op \in {BlockOp[k], ModuleOp[k]} /\ x.module # NoModule THEN {new} ELSE {})
  BY <1>1 DEF ModulesIn
<1>4. QED  BY <1>2, <1>3 DEF a, new

\* A span that is none of handler k.
LEMMA TreeOther ==
    ASSUME NEW k, NEW sp \in Seq(Spans), NEW x \in Spans,
           ~(x.op = BlockOp[k] /\ x.parent = 0),
           ~(x.op \in {BlockOp[k], ModuleOp[k]} /\ x.module # NoModule)
    PROVE  /\ Absent(k, sp) => Absent(k, Append(sp, x))
           /\ \A n, root : Traced(k, sp, n, root) => Traced(k, Append(sp, x), n, root)
<1> DEFINE a == Append(sp, x)
<1>1. RootsIn(k, a) = RootsIn(k, sp) /\ ModulesIn(k, a) = ModulesIn(k, sp)
  <2>1. RootsIn(k, a) = RootsIn(k, sp) \cup {}
    BY SetsGrown
  <2>2. ModulesIn(k, a) = ModulesIn(k, sp) \cup {}
    BY SetsGrown
  <2>3. QED  BY <2>1, <2>2
<1>2. \A s \in ModulesIn(k, sp) : a[s] = sp[s]
  BY AppendedSpan DEF ModulesIn
<1> HIDE DEF a
<1>3. Absent(k, sp) => Absent(k, a)
  BY <1>1 DEF Absent
<1>4. ASSUME NEW n, NEW root, Traced(k, sp, n, root)
      PROVE  Traced(k, a, n, root)
  BY <1>1, <1>2, <1>4 DEF Traced
<1>5. QED  BY <1>3, <1>4 DEF a

\* The span of the handler itself.
LEMMA TreeStarted ==
    ASSUME NEW k \in Kinds, NEW sp \in Seq(Spans), NEW x \in Spans, Absent(k, sp),
           x.op = BlockOp[k], x.parent = 0, x.module = NoModule
    PROVE  Traced(k, Append(sp, x), 0, Len(sp) + 1)
<1>1. RootsIn(k, Append(sp, x)) = {Len(sp) + 1} /\ ModulesIn(k, Append(sp, x)) = {}
  BY SetsGrown DEF Absent
<1>2. QED  BY <1>1 DEF Traced

\* The next module of the order, without a blocker or with one.
LEMMA TreeSkipped ==
    ASSUME NEW k \in Kinds, NEW sp, NEW root, NEW n \in 1..Len(Order[k]),
           Traced(k, sp, n - 1, root), Order[k][n] \notin Blockers[k]
    PROVE  Traced(k, sp, n, root)
<1>1. Len(Order[k]) \in Nat
  BY OrderTypes
<1>2. (\A i \in 1..n : i \in 1..(n - 1) \/ i = n) /\ (\A i \in 1..(n - 1) : i \in 1..n)
  BY <1>1
<1>3. QED  BY <1>2 DEF Traced

LEMMA TreeGrown ==
    ASSUME NEW k \in Kinds, NEW sp \in Seq(Spans), NEW x \in Spans, NEW root,
           NEW n \in 1..Len(Order[k]), Traced(k, sp, n - 1, root),
           Order[k][n] \in Blockers[k],
           x.op = ModuleOp[k], x.module = Order[k][n], x.parent = root
    PROVE  Traced(k, Append(sp, x), n, root)
<1> DEFINE a == Append(sp, x)
           new == Len(sp) + 1
           m == Order[k][n]
           M == ModulesIn(k, sp)
<1>1. Len(Order[k]) \in Nat /\ m \in Module /\ m # NoModule
  BY OrderTypes, NoModuleAssumption
<1>2. x.op # BlockOp[k]
  BY DEF BlockOp, ModuleOp, Kinds
<1>3. RootsIn(k, a) = {root} /\ ModulesIn(k, a) = M \cup {new}
  BY <1>1, <1>2, SetsGrown DEF Traced
<1>4. /\ a[new] = x /\ new \in Nat
      /\ \A s \in M : a[s] = sp[s] /\ s \in Nat /\ s < new
  <2>1. \A s \in M : s \in 1..Len(sp)
    BY AppendedSpan DEF ModulesIn
  <2>2. QED  BY <2>1, AppendedSpan
<1>5. (\A i \in 1..n : i \in 1..(n - 1) \/ i = n) /\ (\A i \in 1..(n - 1) : i \in 1..n /\ i < n)
      /\ n \in 1..n
  BY <1>1
<1> HIDE DEF a, new
<1>6. \A s \in M : /\ sp[s].parent = root /\ sp[s].module \in Blockers[k]
                   /\ \E i \in 1..(n - 1) : sp[s].module = Order[k][i]
  BY DEF Traced
<1>7. \A s \in ModulesIn(k, a) :
            /\ a[s].parent = root
            /\ a[s].module \in Blockers[k]
            /\ \E i \in 1..n : a[s].module = Order[k][i]
  BY <1>3, <1>4, <1>5, <1>6
<1>8. \A i \in 1..n : Order[k][i] \in Blockers[k] =>
            \E s \in ModulesIn(k, a) : a[s].module = Order[k][i]
  BY <1>3, <1>4, <1>5 DEF Traced
<1>9. /\ ~RunsBefore(k, m, m)
      /\ \A s \in M : RunsBefore(k, sp[s].module, m) /\ ~RunsBefore(k, m, sp[s].module)
  <2>1. DOMAIN Order[k] = 1..Len(Order[k]) /\ n \in DOMAIN Order[k] /\ \A i \in 1..(n - 1) : i \in DOMAIN Order[k]
    BY <1>1, OrderTypes
  <2>2. \A i, j \in DOMAIN Order[k] : Order[k][i] = Order[k][j] => i = j
    BY <2>1, OrderTypes
  <2>3. \A i, j \in DOMAIN Order[k] : i < j => ~(j < i)
    BY <1>1, <2>1
  <2>4. ~RunsBefore(k, m, m)
    <3>1. \A i \in DOMAIN Order[k] : ~(i < i)
      BY <1>1, <2>1
    <3>2. QED  BY <2>2, <3>1 DEF RunsBefore
  <2>5. ASSUME NEW s \in M
        PROVE  RunsBefore(k, sp[s].module, m) /\ ~RunsBefore(k, m, sp[s].module)
    <3>1. PICK i \in 1..(n - 1) : sp[s].module = Order[k][i]
      BY <1>6
    <3>2. i \in DOMAIN Order[k] /\ i < n
      BY <1>5, <2>1
    <3>3. RunsBefore(k, sp[s].module, m)
      BY <2>1, <3>1, <3>2 DEF RunsBefore
    <3>4. ~RunsBefore(k, m, sp[s].module)
      BY <2>1, <2>2, <2>3, <3>1, <3>2 DEF RunsBefore
    <3>5. QED  BY <3>3, <3>4
  <2>6. QED  BY <2>4, <2>5
<1>10. ASSUME NEW s \in ModulesIn(k, a), NEW t \in ModulesIn(k, a)
       PROVE  s < t <=> RunsBefore(k, a[s].module, a[t].module)
  <2>1. CASE s \in M /\ t \in M
    BY <1>4, <2>1 DEF Traced
  <2>2. CASE s \in M /\ t = new
    BY <1>4, <1>9, <2>2
  <2>3. CASE s = new /\ t \in M
    <3>1. ~(s < t)
      <4>1. t \in Nat /\ t < new /\ new \in Nat
        BY <1>4, <2>3
      <4>2. QED  BY <2>3, <4>1
    <3>2. QED  BY <1>4, <1>9, <2>3, <3>1
  <2>4. CASE s = new /\ t = new
    <3>1. ~(s < t)
      BY <1>4, <2>4
    <3>2. QED  BY <1>4, <1>9, <2>4, <3>1
  <2>5. QED  BY <1>3, <2>1, <2>2, <2>3, <2>4
<1>11. Traced(k, a, n, root)
  BY <1>3, <1>7, <1>8, <1>10 DEF Traced
<1>12. QED  BY <1>11 DEF a

-----------------------------------------------------------------------------
(* The trace: steps in a handler *)

\* The invariants together.
Inv == BlockInv /\ TraceInv

LEMMA HandlerFacts ==
    ASSUME Inv, InHandler, tracerEnabled
    PROVE  /\ stack \in Seq(Frames) /\ spans \in Seq(Spans) /\ pc \in Kinds /\ block \in Blocks
           /\ Depth \in {2, 3, 4} /\ DOMAIN spans = 1..Len(spans) /\ Len(spans) \in Nat
           /\ Running <=> Depth \in {3, 4}
           /\ Depth = 4 <=> InMigration
           /\ \A d \in 2..Depth : stack[d].span \in 1..Len(spans)
<1>1. stack \in Seq(Frames) /\ spans \in Seq(Spans) /\ pc \in Kinds /\ block \in Blocks
  BY DEF Inv, BlockInv, InHandler, Kinds
<1>2. Running => Depth \in {3, 4}
  BY DEF Inv, BlockInv, HandlerRuns, InBlocker, Blocking, Migrating, Base
<1>3. ~Running => Depth = 2
  BY DEF Inv, BlockInv, HandlerRuns, BetweenBlockers, HandlerDepth
<1>4. DOMAIN spans = 1..Len(spans) /\ Len(spans) \in Nat
  BY <1>1
<1>5. \A d \in 2..Depth : stack[d].span \in 1..Len(spans)
  BY <1>4 DEF Inv, TraceInv, OpenSpans
<1>6. Depth = 4 <=> InMigration
  BY <1>2, <1>3 DEF InMigration, Base
<1>7. QED  BY <1>1, <1>2, <1>3, <1>4, <1>5, <1>6

\* A step within a handler at the same module that changes marks of spans only.
LEMMA TreesStay ==
    ASSUME Trees, SameTree(spans, spans'), UNCHANGED <<pc, pos>>,
           InHandler => stack'[2].span = stack[2].span
    PROVE  Trees'
<1>1. \A k : Absent(k, spans) => Absent(k, spans')
  BY TreeSame
<1>2. \A k, n, root : Traced(k, spans, n, root) => Traced(k, spans', n, root)
  BY TreeSame
<1>3. QED  BY <1>1, <1>2 DEF Trees, InHandler, Kinds

LEMMA EmitTraceInv ==
    ASSUME Inv, Emit, tracerEnabled
    PROVE  Trees' /\ OpenSpans' /\ (MarkedIn(spans) = UpdatesSoFar)'
<1> DEFINE e == [origin |-> IF InMigration THEN "migration" ELSE pc, module |-> Current]
<1>1. /\ InHandler /\ Running
      /\ stack' = [stack EXCEPT ![Depth].em = Append(@, e)]
      /\ UNCHANGED <<tracerEnabled, block, pc, pos, updates, response, spans>>
  BY DoingFacts DEF Emit
<1>2. /\ stack \in Seq(Frames) /\ pc \in Kinds /\ Depth \in {3, 4} /\ Current \in Module
  BY <1>1, HandlerFacts, RunningFacts DEF Inv
<1>3. e \in Events
  BY <1>2 DEF Events
<1> HIDE DEF e
<1>4. Depth' = Depth /\ \A d \in 1..Depth : stack'[d].span = stack[d].span
  <2>1. stack' = Emitted(stack, e) /\ Len(stack) > 0
    BY <1>1, <1>2 DEF Depth, Emitted
  <2>2. /\ Len(stack') = Len(stack)
        /\ \A d \in 1..Len(stack) : stack'[d].span = stack[d].span
    BY <1>2, <1>3, <2>1, EmittedFrames
  <2>3. QED  BY <2>2 DEF Depth
<1>6. Trees'
  <2>1. SameTree(spans, spans')
    BY <1>1 DEF SameTree
  <2>2. 2 \in 1..Depth
    BY <1>2
  <2>3. QED  BY <1>1, <1>4, <2>1, <2>2, TreesStay DEF Inv, TraceInv
<1>7. OpenSpans'
  <2>1. OpenSpans
    BY DEF Inv, TraceInv
  <2>2. 3 \in 1..Depth /\ \A d \in 2..Depth : d \in 1..Depth
    BY <1>2
  <2>3. InHandler' /\ Current' = Current
    BY <1>1 DEF InHandler, Current
  <2>4. QED  BY <1>1, <1>4, <2>1, <2>2, <2>3 DEF OpenSpans
<1>8. (MarkedIn(spans) = UpdatesSoFar)'
  BY <1>1 DEF Inv, TraceInv, UpdatesSoFar, InHandler
<1>9. QED  BY <1>6, <1>7, <1>8

LEMMA FinishedFields ==
    ASSUME spans \in Seq(Spans), NEW s \in 1..Len(spans)
    PROVE  /\ SameTree(spans, FinishedSpan(s)) /\ FinishedSpan(s) \in Seq(Spans)
           /\ \A t \in DOMAIN spans :
                /\ FinishedSpan(s)[t].valset = spans[t].valset
                /\ FinishedSpan(s)[t].finished <=> (t = s \/ spans[t].finished)
<1> DEFINE f == [spans[s] EXCEPT !.finished = TRUE]
           r == FinishedSpan(s)
<1>1. DOMAIN spans = 1..Len(spans) /\ s # 0 /\ spans[s] \in Spans /\ s \in DOMAIN spans
  OBVIOUS
<1>2. /\ f.finished = TRUE /\ f.valset = spans[s].valset /\ f.op = spans[s].op
      /\ f.module = spans[s].module /\ f.parent = spans[s].parent
  BY <1>1 DEF Spans
<1>3. r = [spans EXCEPT ![s] = f]
  BY <1>1 DEF FinishedSpan
<1>4. r \in Seq(Spans)
  BY <1>1, SpanTypes
<1> HIDE DEF f, r
<1>5. DOMAIN r = DOMAIN spans /\ r[s] = f /\ \A t \in DOMAIN spans : t # s => r[t] = spans[t]
  BY <1>1, <1>3
<1>6. SameTree(spans, r)
  BY <1>2, <1>5 DEF SameTree
<1>7. \A t \in DOMAIN spans :
          /\ r[t].valset = spans[t].valset
          /\ r[t].finished <=> (t = s \/ spans[t].finished)
  BY <1>2, <1>5
<1>8. QED  BY <1>4, <1>6, <1>7 DEF r

LEMMA MarksSame ==
    ASSUME NEW sp, NEW sp2, SameTree(sp, sp2), \A t \in DOMAIN sp : sp2[t].valset = sp[t].valset
    PROVE  MarkedIn(sp2) = MarkedIn(sp)
<1>1. {t \in DOMAIN sp2 : sp2[t].valset} = {t \in DOMAIN sp : sp[t].valset}
  BY DEF SameTree
<1>2. \A t \in {u \in DOMAIN sp : sp[u].valset} : sp2[t].module = sp[t].module
  BY DEF SameTree
<1>3. QED  BY <1>1, <1>2 DEF MarkedIn

LEMMA MarksGrown ==
    ASSUME NEW sp \in Seq(Spans), NEW x \in Spans, x.valset = FALSE
    PROVE  MarkedIn(Append(sp, x)) = MarkedIn(sp)
<1> DEFINE a == Append(sp, x)
           new == Len(sp) + 1
<1>1. /\ DOMAIN a = DOMAIN sp \cup {new} /\ \A s \in DOMAIN sp : a[s] = sp[s]
      /\ a[new] = x
  BY AppendedSpan
<1> HIDE DEF a, new
<1>2. {t \in DOMAIN a : a[t].valset} = {t \in DOMAIN sp : sp[t].valset}
  BY <1>1
<1>3. MarkedIn(a) = MarkedIn(sp)
  BY <1>1, <1>2 DEF MarkedIn
<1>4. QED  BY <1>3 DEF a

\* A new span x is begun, in a call of its own on top of the stack.
LEMMA OpenSpansGrown ==
    ASSUME Inv, tracerEnabled, NEW x \in Spans, spans' = Append(spans, x),
           InHandler, InHandler',
           stack' \in Seq(Frames), Depth' = Depth + 1,
           \A d \in 1..Depth : stack'[d].span = stack[d].span,
           stack'[Depth + 1].span = Len(spans) + 1
    PROVE  /\ \A s \in DOMAIN spans' :
                spans'[s].finished \/ \E d \in 2..Depth' : stack'[d].span = s
           /\ \A d \in 2..Depth' : stack'[d].span \in DOMAIN spans'
<1>1. /\ spans \in Seq(Spans) /\ Depth \in {2, 3, 4}
      /\ \A d \in 2..Depth : stack[d].span \in DOMAIN spans
      /\ \A s \in DOMAIN spans : spans[s].finished \/ \E d \in 2..Depth : stack[d].span = s
  BY HandlerFacts DEF Inv, TraceInv, OpenSpans
<1>2. /\ DOMAIN spans' = DOMAIN spans \cup {Len(spans) + 1}
      /\ \A s \in DOMAIN spans : spans'[s] = spans[s]
  BY <1>1, AppendedSpan
<1>3. /\ \A d \in 2..Depth : d \in 1..Depth /\ d \in 2..Depth'
      /\ \A d \in 2..Depth' : d \in 2..Depth \/ d = Depth + 1
      /\ Depth + 1 \in 2..Depth'
  BY <1>1
<1>4. ASSUME NEW s \in DOMAIN spans'
      PROVE  spans'[s].finished \/ \E d \in 2..Depth' : stack'[d].span = s
  <2>1. CASE s \in DOMAIN spans
    BY SMTT(60), <1>1, <1>2, <1>3, <2>1
  <2>2. CASE s = Len(spans) + 1
    BY <1>3, <2>2
  <2>3. QED  BY <1>2, <2>1, <2>2
<1>5. ASSUME NEW d \in 2..Depth'
      PROVE  stack'[d].span \in DOMAIN spans'
  <2>1. CASE d \in 2..Depth
    BY <1>1, <1>2, <1>3, <2>1
  <2>2. CASE d = Depth + 1
    BY <1>2, <2>2
  <2>3. QED  BY <1>3, <2>1, <2>2
<1>6. QED  BY <1>4, <1>5

LEMMA SkipTraceInv ==
    ASSUME Inv, SkipModule, tracerEnabled
    PROVE  Trees' /\ OpenSpans' /\ (MarkedIn(spans) = UpdatesSoFar)'
<1>1. /\ InHandler /\ ~Running /\ pos < Len(Order[pc])
      /\ Order[pc][pos + 1] \notin Blockers[pc]
      /\ pos' = pos + 1
      /\ UNCHANGED <<tracerEnabled, block, pc, todo, stack, updates, response, spans>>
  BY DEF SkipModule
<1>2. /\ pc \in Kinds /\ pos \in 0..Len(Order[pc]) /\ Len(Order[pc]) \in Nat
  BY <1>1, IdleFacts DEF Inv
<1>3. pos + 1 \in 1..Len(Order[pc]) /\ (pos + 1) - 1 = pos
  BY <1>1, <1>2
<1>4. \A root : Traced(pc, spans, pos, root) => Traced(pc, spans, pos + 1, root)
  BY <1>1, <1>2, <1>3, TreeSkipped
<1>5. Trees'
  BY <1>1, <1>2, <1>4 DEF Inv, TraceInv, Trees, Kinds
<1>6. ~Running' /\ InHandler'
  BY <1>1 DEF Running, InHandler
<1>7. OpenSpans'
  BY <1>1, <1>6 DEF Inv, TraceInv, OpenSpans, Depth
<1>8. QED  BY <1>1, <1>5, <1>7 DEF Inv, TraceInv, UpdatesSoFar, InHandler

LEMMA CallTraceInv ==
    ASSUME Inv, CallModule, tracerEnabled
    PROVE  Trees' /\ OpenSpans' /\ (MarkedIn(spans) = UpdatesSoFar)'
<1> DEFINE m == Order[pc][pos + 1]
           x == [op |-> ModuleOp[pc], module |-> m, parent |-> stack[2].span,
                 finished |-> FALSE, valset |-> FALSE]
<1>1. /\ InHandler /\ ~Running /\ pos < Len(Order[pc]) /\ m \in Blockers[pc]
      /\ spans' = WithSpan(ModuleOp[pc], m, stack[Depth].span)
      /\ stack' = Called(stack, Len(spans'))
      /\ pos' = pos + 1
      /\ UNCHANGED <<tracerEnabled, block, pc, updates, response>>
  BY DEF CallModule
<1>2. /\ pc \in Kinds /\ pos \in 0..Len(Order[pc]) /\ Len(Order[pc]) \in Nat
      /\ stack \in Seq(Frames) /\ spans \in Seq(Spans)
  BY <1>1, IdleFacts DEF Inv
<1>3. pos + 1 \in 1..Len(Order[pc]) /\ (pos + 1) - 1 = pos
  BY <1>1, <1>2
<1>4. Depth = 2 /\ stack[2].span \in 1..Len(spans) /\ Len(stack) = 2
  BY <1>1, HandlerFacts DEF Depth
<1>5. m \in Module
  BY <1>2, <1>3, OrderTypes
<1>6. spans' = Append(spans, x) /\ x \in Spans
  <2>1. spans' = Append(spans, x)
    BY <1>1, <1>4 DEF WithSpan
  <2>2. x \in Spans
    BY <1>2, <1>4, <1>5 DEF Spans, ModuleOp, OpNames, Kinds
  <2>3. QED  BY <2>1, <2>2
<1>7. /\ x.op = ModuleOp[pc] /\ x.module = m /\ x.parent = stack[2].span /\ x.valset = FALSE
  OBVIOUS
<1> HIDE DEF x
<1>8. /\ spans' \in Seq(Spans) /\ Len(spans') = Len(spans) + 1
  BY <1>2, <1>6
<1>9. /\ stack' \in Seq(Frames) /\ Depth' = 3
      /\ stack'[1] = stack[1] /\ stack'[2] = stack[2] /\ stack'[3].span = Len(spans) + 1
  <2> DEFINE c == Called(stack, Len(spans'))
  <2>1. Len(spans') \in Nat
    BY <1>8
  <2>2. /\ c \in Seq(Frames) /\ Len(c) = Len(stack) + 1
        /\ \A d \in 1..Len(stack) : c[d] = stack[d]
        /\ c[Len(stack) + 1] = [span |-> Len(spans'), em |-> <<>>]
    BY <1>2, <2>1, CalledFrames
  <2>3. Len(stack) + 1 = 3 /\ 1 \in 1..Len(stack) /\ 2 \in 1..Len(stack)
    <3>1. Len(stack) = 2
      BY <1>4
    <3>2. QED  BY <3>1
  <2> HIDE DEF c
  <2>4. c[3].span = Len(spans) + 1
    BY <1>8, <2>2, <2>3
  <2>5. QED  BY <1>1, <2>2, <2>3, <2>4 DEF Depth, c
<1>10. Trees'
  <2>1. \A root : Traced(pc, spans, pos, root) /\ root = stack[2].span => Traced(pc, spans', pos + 1, root)
    BY <1>1, <1>2, <1>3, <1>6, <1>7, TreeGrown
  <2>2. ASSUME NEW k \in Kinds, k # pc
        PROVE  /\ Absent(k, spans) => Absent(k, spans')
               /\ \A n, root : Traced(k, spans, n, root) => Traced(k, spans', n, root)
    <3>1. x.op \notin {BlockOp[k], ModuleOp[k]}
      BY <1>2, <1>7, <2>2 DEF BlockOp, ModuleOp, Kinds
    <3>2. QED  BY <1>2, <1>6, <3>1, TreeOther
  <2>3. CASE pc = "begin"
    <3>1. Traced("begin", spans, pos, stack[2].span) /\ Absent("end", spans)
      BY <2>3 DEF Inv, TraceInv, Trees
    <3>2. Traced("begin", spans', pos + 1, stack[2].span) /\ Absent("end", spans')
      BY <2>1, <2>2, <2>3, <3>1 DEF Kinds
    <3>3. QED  BY <1>1, <1>9, <2>3, <3>2 DEF Trees
  <2>4. CASE pc = "end"
    <3>1. /\ Traced("end", spans, pos, stack[2].span)
          /\ \E root \in Nat : Traced("begin", spans, Len(BeginOrder), root)
      BY <2>4 DEF Inv, TraceInv, Trees
    <3>2. Traced("end", spans', pos + 1, stack[2].span)
      BY <2>1, <2>4, <3>1
    <3>3. \E root \in Nat : Traced("begin", spans', Len(BeginOrder), root)
      BY <2>2, <2>4, <3>1 DEF Kinds
    <3>4. QED  BY <1>1, <1>9, <2>4, <3>2, <3>3 DEF Trees
  <2>5. QED  BY <1>2, <2>3, <2>4 DEF Kinds
<1>11. InHandler' /\ Current' = m
  BY <1>1 DEF InHandler, Current
<1>12. OpenSpans'
  <2>1. Depth' = Depth + 1 /\ Depth + 1 = 3 /\ \A d \in 1..Depth : d = 1 \/ d = 2
    BY <1>4, <1>9
  <2>2. /\ \A s \in DOMAIN spans' :
                spans'[s].finished \/ \E d \in 2..Depth' : stack'[d].span = s
        /\ \A d \in 2..Depth' : stack'[d].span \in DOMAIN spans'
    BY <1>1, <1>6, <1>9, <1>11, <2>1, OpenSpansGrown
  <2>3. spans'[stack'[3].span] = x
    BY <1>2, <1>6, <1>9, AppendedSpan
  <2>4. QED  BY <1>7, <1>11, <2>2, <2>3 DEF OpenSpans
<1>13. (MarkedIn(spans) = UpdatesSoFar)'
  <2>1. MarkedIn(spans') = MarkedIn(spans)
    BY <1>2, <1>6, <1>7, MarksGrown
  <2>2. QED  BY <1>1, <2>1 DEF Inv, TraceInv, UpdatesSoFar, InHandler
<1>14. QED  BY <1>10, <1>12, <1>13

LEMMA MigrationTraceInv ==
    ASSUME Inv, RunMigrations, tracerEnabled
    PROVE  Trees' /\ OpenSpans' /\ (MarkedIn(spans) = UpdatesSoFar)'
<1> DEFINE x == [op |-> "abci_begin_block", module |-> NoModule, parent |-> stack[Depth].span,
                 finished |-> FALSE, valset |-> FALSE]
<1>1. /\ InHandler /\ Running
      /\ spans' = WithSpan("abci_begin_block", NoModule, stack[Depth].span)
      /\ stack' = Called(stack, Len(spans'))
      /\ UNCHANGED <<tracerEnabled, block, pc, pos, updates, response>>
  BY DoingFacts DEF RunMigrations
<1>2. /\ stack \in Seq(Frames) /\ spans \in Seq(Spans) /\ pc \in Kinds /\ Depth \in {3, 4}
      /\ Depth = Len(stack) /\ stack[Depth].span \in 1..Len(spans)
      /\ stack[3].span \in 1..Len(spans) /\ DOMAIN spans = 1..Len(spans)
  BY <1>1, HandlerFacts DEF Depth
<1>3. spans' = Append(spans, x) /\ x \in Spans
  <2>1. spans' = Append(spans, x)
    BY <1>1 DEF WithSpan
  <2>2. x \in Spans
    BY <1>2 DEF Spans, OpNames
  <2>3. QED  BY <2>1, <2>2
<1>4. x.module = NoModule /\ x.parent # 0 /\ x.valset = FALSE
  BY <1>2
<1> HIDE DEF x
<1>5. /\ stack' \in Seq(Frames) /\ Depth' = Depth + 1
      /\ \A d \in 1..Depth : stack'[d] = stack[d]
      /\ stack'[Depth + 1].span = Len(spans) + 1
  <2> DEFINE c == Called(stack, Len(spans'))
  <2>1. Len(spans') = Len(spans) + 1 /\ Len(spans') \in Nat
    BY <1>2, <1>3
  <2>2. /\ c \in Seq(Frames) /\ Len(c) = Len(stack) + 1
        /\ \A d \in 1..Len(stack) : c[d] = stack[d]
        /\ c[Len(stack) + 1] = [span |-> Len(spans'), em |-> <<>>]
    BY <1>2, <2>1, CalledFrames
  <2> HIDE DEF c
  <2>3. c[Len(stack) + 1].span = Len(spans) + 1
    BY <2>1, <2>2
  <2>4. QED  BY <1>1, <2>2, <2>3 DEF Depth, c
<1>6. /\ \A k : Absent(k, spans) => Absent(k, spans')
      /\ \A k, n, root : Traced(k, spans, n, root) => Traced(k, spans', n, root)
  BY <1>2, <1>3, <1>4, TreeOther
<1>7. 1 \in 1..Depth /\ 2 \in 1..Depth /\ 3 \in 1..Depth
  BY <1>2
<1>8. Trees'
  <2>1. stack'[2] = stack[2]
    BY <1>5, <1>7
  <2>2. QED  BY <1>1, <1>6, <2>1 DEF Inv, TraceInv, Trees
<1>9. InHandler' /\ Current' = Current
  BY <1>1 DEF InHandler, Current
<1>10. OpenSpans'
  <2>1. /\ \A s \in DOMAIN spans' :
                spans'[s].finished \/ \E d \in 2..Depth' : stack'[d].span = s
        /\ \A d \in 2..Depth' : stack'[d].span \in DOMAIN spans'
    BY <1>1, <1>3, <1>5, <1>9, OpenSpansGrown
  <2>2. spans'[stack'[3].span] = spans[stack[3].span]
    BY <1>2, <1>3, <1>5, <1>7, AppendedSpan
  <2>3. QED  BY <1>1, <1>9, <2>1, <2>2 DEF Inv, TraceInv, OpenSpans
<1>11. (MarkedIn(spans) = UpdatesSoFar)'
  <2>1. MarkedIn(spans') = MarkedIn(spans)
    BY <1>2, <1>3, <1>4, MarksGrown
  <2>2. QED  BY <1>1, <2>1 DEF Inv, TraceInv, UpdatesSoFar, InHandler
<1>12. QED  BY <1>8, <1>10, <1>11

\* The innermost call ends, with its span.
LEMMA OpenSpansLeft ==
    ASSUME Inv, tracerEnabled, InHandler, Depth > 2,
           DOMAIN spans' = DOMAIN spans,
           \A s \in DOMAIN spans :
                spans'[s].finished <=> (s = stack[Depth].span \/ spans[s].finished),
           stack' = Returned(stack)
    PROVE  /\ stack' \in Seq(Frames) /\ Depth' = Depth - 1
           /\ \A d \in 1..(Depth - 1) : stack'[d].span = stack[d].span
           /\ \A s \in DOMAIN spans' :
                spans'[s].finished \/ \E d \in 2..Depth' : stack'[d].span = s
           /\ \A d \in 2..Depth' : stack'[d].span \in DOMAIN spans'
<1>1. /\ stack \in Seq(Frames) /\ Depth \in {2, 3, 4}
      /\ \A d \in 2..Depth : stack[d].span \in DOMAIN spans
      /\ \A s \in DOMAIN spans : spans[s].finished \/ \E d \in 2..Depth : stack[d].span = s
  BY HandlerFacts DEF Inv, TraceInv, OpenSpans
<1>2. /\ stack' \in Seq(Frames) /\ Depth' = Depth - 1
      /\ \A d \in 1..(Depth - 1) : stack'[d].span = stack[d].span
  <2>1. Len(stack) > 1
    BY DEF Depth
  <2>2. QED  BY <1>1, <2>1, ReturnedFrames DEF Depth
<1>3. /\ \A d \in 2..Depth : d \in 2..Depth' \/ d = Depth
      /\ \A d \in 2..Depth' : d \in 1..(Depth - 1) /\ d \in 2..Depth
  BY <1>1, <1>2
<1>4. ASSUME NEW s \in DOMAIN spans'
      PROVE  spans'[s].finished \/ \E d \in 2..Depth' : stack'[d].span = s
  <2>1. CASE spans[s].finished \/ s = stack[Depth].span
    BY <2>1
  <2>2. CASE ~spans[s].finished /\ s # stack[Depth].span
    <3>1. PICK d \in 2..Depth : stack[d].span = s
      BY <1>1, <2>2
    <3>2. d \in 2..Depth'
      BY <1>3, <2>2, <3>1
    <3>3. QED  BY <1>2, <1>3, <3>1, <3>2
  <2>3. QED  BY <2>1, <2>2
<1>5. \A d \in 2..Depth' : stack'[d].span \in DOMAIN spans'
  BY <1>1, <1>2, <1>3
<1>6. QED  BY <1>2, <1>4, <1>5

LEMMA MigratedTraceInv ==
    ASSUME Inv, MigrationsRun, tracerEnabled
    PROVE  Trees' /\ OpenSpans' /\ (MarkedIn(spans) = UpdatesSoFar)'
<1>1. /\ InHandler /\ Running /\ Head(todo) = "migrated" /\ todo # <<>>
      /\ stack' = Returned(stack)
      /\ spans' = FinishedSpan(stack[Depth].span)
      /\ UNCHANGED <<tracerEnabled, block, pc, pos, updates, response>>
  BY DoingFacts DEF MigrationsRun
<1>2. Depth = 4
  <2>1. InBlocker /\ block[pc][Current] \in Programs /\ Base = 3
    BY <1>1, RunningFacts DEF Inv, Base
  <2> DEFINE p == block[pc][Current]
  <2>2. PICK n \in 0..Len(p) : Blocking(n) \/ Migrating(n)
    BY <2>1 DEF InBlocker
  <2>3. ASSUME Blocking(n)
        PROVE  FALSE
    <3>1. todo = StepsAfter(p, n)
      BY <2>3 DEF Blocking
    <3>2. Head(todo) = p[n + 1] /\ n + 1 \in 1..Len(p)
      BY <1>1, <2>1, <3>1, NextStep
    <3>3. p[n + 1] \in {"emit", "migrate", "panic"}
      BY <2>1, <3>2, ProgramTypes
    <3>4. QED  BY <1>1, <3>2, <3>3
  <2>4. QED  BY <2>1, <2>2, <2>3 DEF Migrating
<1>3. /\ spans \in Seq(Spans) /\ pc \in Kinds /\ DOMAIN spans = 1..Len(spans)
      /\ stack[4].span \in 1..Len(spans)
  BY <1>1, <1>2, HandlerFacts
<1>4. /\ SameTree(spans, spans')
      /\ \A t \in DOMAIN spans :
            /\ spans'[t].valset = spans[t].valset
            /\ spans'[t].finished <=> (t = stack[Depth].span \/ spans[t].finished)
  BY <1>1, <1>2, <1>3, FinishedFields
<1>5. DOMAIN spans' = DOMAIN spans
  BY <1>4 DEF SameTree
<1>6. /\ Depth' = 3 /\ \A d \in 1..3 : stack'[d].span = stack[d].span
      /\ \A s \in DOMAIN spans' : spans'[s].finished \/ \E d \in 2..Depth' : stack'[d].span = s
      /\ \A d \in 2..Depth' : stack'[d].span \in DOMAIN spans'
  <2>1. Depth > 2 /\ Depth - 1 = 3
    BY <1>2
  <2>2. QED  BY <1>1, <1>4, <1>5, <2>1, OpenSpansLeft
<1>7. 2 \in 1..3 /\ 3 \in 1..3 /\ 3 \in 2..4
  OBVIOUS
<1>8. Trees'
  BY <1>1, <1>4, <1>6, <1>7, TreesStay DEF Inv, TraceInv
<1>9. InHandler' /\ Current' = Current
  BY <1>1 DEF InHandler, Current
<1>10. OpenSpans'
  <2>1. /\ stack[3].span \in DOMAIN spans
        /\ spans[stack[3].span].module = Current /\ ~spans[stack[3].span].valset
    BY <1>1, <1>2, <1>7 DEF Inv, TraceInv, OpenSpans
  <2>2. /\ spans'[stack'[3].span].module = Current /\ ~spans'[stack'[3].span].valset
    BY <1>4, <1>6, <1>7, <2>1 DEF SameTree
  <2>3. QED  BY <1>6, <1>9, <2>2 DEF OpenSpans
<1>11. (MarkedIn(spans) = UpdatesSoFar)'
  <2>1. MarkedIn(spans') = MarkedIn(spans)
    BY <1>4, MarksSame
  <2>2. QED  BY <1>1, <2>1 DEF Inv, TraceInv, UpdatesSoFar, InHandler
<1>12. QED  BY <1>8, <1>10, <1>11

LEMMA ReturnTraceInv ==
    ASSUME Inv, ModuleReturns, tracerEnabled
    PROVE  Trees' /\ OpenSpans' /\ (MarkedIn(spans) = UpdatesSoFar)'
<1> DEFINE s == stack[Depth].span
           f == FinishedSpan(s)
<1>1. /\ InHandler /\ todo = <<>> /\ ~(pc = "end" /\ UpdatesRefused)
      /\ updates' = IF Updating THEN {Current} ELSE updates
      /\ stack' = Returned(stack) /\ todo' = Waiting
      /\ spans' = [f EXCEPT ![s].valset = Updating]
      /\ UNCHANGED <<tracerEnabled, block, pc, pos, response>>
  BY DEF ModuleReturns
<1>2. Running
  BY <1>1 DEF Running, Waiting
<1>3. Depth = 3
  <2>1. InBlocker /\ block[pc][Current] \in Programs /\ Base = 3
    BY <1>1, <1>2, RunningFacts DEF Inv, Base
  <2> DEFINE p == block[pc][Current]
  <2>2. PICK n \in 0..Len(p) : Blocking(n) \/ Migrating(n)
    BY <2>1 DEF InBlocker
  <2>3. ASSUME Migrating(n)
        PROVE  FALSE
    <3> DEFINE rest == StepsAfter(p, n + 1)
    <3>1. /\ n < Len(p)
          /\ todo = <<"emit", "migrated">> \o rest \/ todo = <<"migrated">> \o rest
      BY <2>3 DEF Migrating
    <3>2. Len(p) \in Nat
      BY <2>1, ProgramTypes
    <3>3. rest \in Seq({"emit", "migrate", "panic"})
      BY <2>1, <3>1, <3>2, StepsAfterFacts
    <3> HIDE DEF rest
    <3>4. Len(<<"emit", "migrated">> \o rest) # 0 /\ Len(<<"migrated">> \o rest) # 0
      BY <3>3
    <3>5. Len(<<>>) = 0
      OBVIOUS
    <3>6. QED  BY <1>1, <3>1, <3>4, <3>5
  <2>4. QED  BY <2>1, <2>2, <2>3 DEF Blocking
<1>4. /\ spans \in Seq(Spans) /\ pc \in Kinds /\ DOMAIN spans = 1..Len(spans)
      /\ s \in 1..Len(spans) /\ s \in DOMAIN spans
  BY <1>1, <1>3, HandlerFacts
<1>5. /\ SameTree(spans, f) /\ f \in Seq(Spans)
      /\ \A t \in DOMAIN spans :
            /\ f[t].valset = spans[t].valset
            /\ f[t].finished <=> (t = s \/ spans[t].finished)
  BY <1>4, FinishedFields
<1>6. spans[s].module = Current /\ spans[s].valset = FALSE /\ s = stack[3].span
  BY <1>1, <1>2, <1>3, <1>4 DEF Inv, TraceInv, OpenSpans, Spans
<1>7. Updating \in BOOLEAN
  BY DEF Updating
<1> HIDE DEF f, s
<1>8. /\ DOMAIN spans' = DOMAIN spans /\ SameTree(spans, spans')
      /\ \A t \in DOMAIN spans :
            /\ spans'[t].finished <=> (t = s \/ spans[t].finished)
            /\ t # s => spans'[t].valset = spans[t].valset
      /\ spans'[s].valset = Updating
  <2> DEFINE g == [f[s] EXCEPT !.valset = Updating]
  <2>1. DOMAIN f = DOMAIN spans /\ s \in DOMAIN f
    BY <1>4, <1>5 DEF SameTree
  <2>2. f[s] \in Spans
    BY <1>5, <2>1
  <2>3. /\ g.valset = Updating /\ g.finished = f[s].finished /\ g.op = f[s].op
        /\ g.module = f[s].module /\ g.parent = f[s].parent
    BY <2>2 DEF Spans
  <2>4. spans' = [f EXCEPT ![s] = g]
    BY <1>1, <2>1
  <2> HIDE DEF g
  <2>5. DOMAIN spans' = DOMAIN f /\ spans'[s] = g /\ \A t \in DOMAIN f : t # s => spans'[t] = f[t]
    BY <2>1, <2>4
  <2>6. SameTree(spans, spans')
    BY <1>5, <2>1, <2>3, <2>5 DEF SameTree
  <2>7. QED  BY <1>4, <1>5, <2>1, <2>3, <2>5, <2>6
<1>9. /\ Depth' = 2 /\ \A d \in 1..2 : stack'[d].span = stack[d].span
      /\ \A t \in DOMAIN spans' : spans'[t].finished \/ \E d \in 2..Depth' : stack'[d].span = t
      /\ \A d \in 2..Depth' : stack'[d].span \in DOMAIN spans'
  <2>1. Depth > 2 /\ Depth - 1 = 2 /\ s = stack[Depth].span
    BY <1>3 DEF s
  <2>2. QED  BY <1>1, <1>8, <2>1, OpenSpansLeft
<1>10. Trees'
  BY <1>1, <1>8, <1>9, TreesStay DEF Inv, TraceInv
<1>11. InHandler' /\ ~Running'
  BY <1>1 DEF InHandler, Running
<1>12. OpenSpans'
  BY <1>9, <1>11 DEF OpenSpans
<1>13. (MarkedIn(spans) = UpdatesSoFar)'
  <2>1. MarkedIn(spans) = updates
    BY <1>1 DEF Inv, TraceInv, UpdatesSoFar
  <2>2. UpdatesSoFar' = updates'
    BY <1>11 DEF UpdatesSoFar
  <2>3. \A t \in DOMAIN spans : spans'[t].module = spans[t].module
    BY <1>8 DEF SameTree
  <2>4. CASE Updating
    <3>1. updates = {} /\ updates' = {Current}
      BY <1>1, <2>4 DEF UpdatesRefused, Updating
    <3>2. \A t \in DOMAIN spans : ~spans[t].valset
      BY <2>1, <3>1 DEF MarkedIn
    <3>3. {t \in DOMAIN spans' : spans'[t].valset} = {s}
      BY <1>4, <1>8, <2>4, <3>2
    <3>4. MarkedIn(spans') = {Current}
      BY <1>4, <1>6, <2>3, <3>3 DEF MarkedIn
    <3>5. QED  BY <2>2, <3>1, <3>4
  <2>5. CASE ~Updating
    <3>1. spans'[s].valset = spans[s].valset
      BY <1>6, <1>7, <1>8, <2>5
    <3>2. MarkedIn(spans') = MarkedIn(spans)
      BY <1>8, <3>1, MarksSame
    <3>3. QED  BY <1>1, <2>1, <2>2, <2>5, <3>2
  <2>6. QED  BY <2>4, <2>5
<1>14. QED  BY <1>10, <1>12, <1>13

-----------------------------------------------------------------------------
(* The trace: handlers begin and return *)

LEMMA HandlerTraceInv ==
    ASSUME Inv, HandlerReturns, tracerEnabled
    PROVE  Trees' /\ OpenSpans' /\ (MarkedIn(spans) = UpdatesSoFar)'
<1> DEFINE s == stack[Depth].span
<1>1. /\ InHandler /\ ~Running /\ pos = Len(Order[pc])
      /\ \E managed :
            response' = IF pc = "begin" THEN [response EXCEPT !.begin = managed]
                        ELSE [response EXCEPT !.end = managed, !.updates = updates]
      /\ spans' = FinishedSpan(s)
      /\ pc' = IF pc = "begin" THEN "begun" ELSE "ended"
      /\ stack' = <<>>
  BY DEF HandlerReturns
<1>2. /\ spans \in Seq(Spans) /\ pc \in Kinds /\ Depth = 2 /\ DOMAIN spans = 1..Len(spans)
      /\ Len(spans) \in Nat /\ stack[2].span \in 1..Len(spans)
  <2>1. Depth = 2
    BY <1>1, HandlerFacts
  <2>2. 2 \in 2..Depth
    BY <2>1
  <2>3. QED  BY <1>1, <2>1, <2>2, HandlerFacts
<1>3. s = stack[2].span
  BY <1>2
<1> HIDE DEF s
<1>4. /\ SameTree(spans, spans')
      /\ \A t \in DOMAIN spans :
            /\ spans'[t].valset = spans[t].valset
            /\ spans'[t].finished <=> (t = s \/ spans[t].finished)
  BY <1>1, <1>2, <1>3, FinishedFields
<1>5. /\ \A k : Absent(k, spans) => Absent(k, spans')
      /\ \A k, n, root : Traced(k, spans, n, root) => Traced(k, spans', n, root)
  BY <1>4, TreeSame
<1>6. Trees'
  <2>1. s \in Nat
    BY <1>2, <1>3
  <2>2. CASE pc = "begin"
    <3>1. Traced("begin", spans, Len(BeginOrder), s) /\ Absent("end", spans)
      BY <1>1, <1>3, <2>2 DEF Inv, TraceInv, Trees, Order
    <3>2. QED  BY <1>1, <1>5, <2>1, <2>2, <3>1 DEF Trees
  <2>3. CASE pc = "end"
    <3>1. /\ Traced("end", spans, Len(EndOrder), s)
          /\ \E root \in Nat : Traced("begin", spans, Len(BeginOrder), root)
      BY <1>1, <1>3, <2>3 DEF Inv, TraceInv, Trees, Order
    <3>2. QED  BY <1>1, <1>5, <2>1, <2>3, <3>1 DEF Trees
  <2>4. QED  BY <1>2, <2>2, <2>3 DEF Kinds
<1>7. ~InHandler'
  BY <1>1 DEF InHandler, Kinds
<1>8. OpenSpans'
  <2>1. \A t \in DOMAIN spans : spans[t].finished \/ t = s
    <3>1. \A d \in 2..Depth : d = 2
      BY <1>2
    <3>2. QED  BY <1>3, <3>1 DEF Inv, TraceInv, OpenSpans
  <2>2. \A t \in DOMAIN spans' : spans'[t].finished
    BY <1>4, <2>1 DEF SameTree
  <2>3. QED  BY <1>7, <2>2 DEF OpenSpans
<1>9. (MarkedIn(spans) = UpdatesSoFar)'
  <2>1. MarkedIn(spans') = updates
    <3>1. MarkedIn(spans') = MarkedIn(spans)
      BY <1>4, MarksSame
    <3>2. QED  BY <1>1, <3>1 DEF Inv, TraceInv, UpdatesSoFar
  <2>2. CASE pc = "begin"
    <3>1. updates = {}
      BY <1>1, <2>2 DEF Inv, BlockInv, HandlerRuns
    <3>2. QED  BY <1>1, <1>7, <2>1, <2>2, <3>1 DEF UpdatesSoFar
  <2>3. CASE pc = "end"
    <3>1. response'.updates = updates
      BY <1>1, <2>3 DEF Inv, BlockInv, Responses
    <3>2. QED  BY <1>1, <1>7, <2>1, <2>3, <3>1 DEF UpdatesSoFar
  <2>4. QED  BY <1>2, <2>2, <2>3 DEF Kinds
<1>10. QED  BY <1>6, <1>8, <1>9

LEMMA StartTraceInv ==
    ASSUME Inv, tracerEnabled, NEW k \in Kinds, Start(k),
           k = "begin" => pc = "idle", k = "end" => pc = "begun"
    PROVE  Trees' /\ OpenSpans' /\ (MarkedIn(spans) = UpdatesSoFar)'
<1> DEFINE x == [op |-> BlockOp[k], module |-> NoModule, parent |-> 0,
                 finished |-> FALSE, valset |-> FALSE]
           new == Len(spans) + 1
<1>1. /\ pc' = k /\ pos' = 0 /\ updates' = {} /\ todo' = todo
      /\ spans' = WithSpan(BlockOp[k], NoModule, 0)
      /\ stack' = Called(<< [span |-> 0, em |-> <<>>] >>, Len(spans'))
  BY DEF Start
<1>2. spans \in Seq(Spans) /\ todo = Waiting /\ ~InHandler /\ pc # "ended"
  BY DEF Inv, BlockInv, InHandler, Kinds
<1>3. spans' = Append(spans, x) /\ x \in Spans
  <2>1. spans' = Append(spans, x)
    BY <1>1 DEF WithSpan
  <2>2. x \in Spans
    BY DEF Spans, OpNames, BlockOp, Kinds
  <2>3. QED  BY <2>1, <2>2
<1>4. /\ x.op = BlockOp[k] /\ x.parent = 0 /\ x.module = NoModule /\ x.valset = FALSE
  OBVIOUS
<1> HIDE DEF x
<1>5. /\ DOMAIN spans' = DOMAIN spans \cup {new} /\ new \in Nat
      /\ \A s \in DOMAIN spans : spans'[s] = spans[s]
  BY <1>2, <1>3, AppendedSpan
<1>6. Depth' = 2 /\ stack'[2].span = new
  <2> DEFINE first == [span |-> 0, em |-> <<>>]
             managed == << first >>
             c == Called(managed, Len(spans'))
  <2>1. first \in Frames
    BY DEF Frames
  <2> HIDE DEF first
  <2>2. managed \in Seq(Frames) /\ Len(managed) = 1
    BY <2>1
  <2>3. Len(spans') = new /\ Len(spans') \in Nat
    BY <1>2, <1>3
  <2> HIDE DEF managed
  <2>4. Len(c) = Len(managed) + 1 /\ c[Len(managed) + 1] = [span |-> Len(spans'), em |-> <<>>]
    BY <2>2, <2>3, CalledFrames
  <2>5. Len(c) = 2 /\ c[2].span = new
    BY <2>2, <2>3, <2>4
  <2>6. stack' = c
    BY <1>1 DEF managed, first
  <2> HIDE DEF c
  <2>7. QED  BY <2>5, <2>6 DEF Depth
<1> HIDE DEF new
<1>7. Absent(k, spans)
  <2>1. CASE k = "begin"
    <3>1. spans = <<>>
      BY <2>1 DEF Inv, TraceInv
    <3>2. QED  BY <3>1 DEF Absent, RootsIn, ModulesIn
  <2>2. CASE k = "end"
    BY <2>2 DEF Inv, TraceInv, Trees
  <2>3. QED  BY <2>1, <2>2 DEF Kinds
<1>8. Traced(k, spans', 0, new)
  BY <1>2, <1>3, <1>4, <1>7, TreeStarted DEF new
<1>9. ASSUME NEW j \in Kinds, j # k
      PROVE  /\ Absent(j, spans) => Absent(j, spans')
             /\ \A n, root : Traced(j, spans, n, root) => Traced(j, spans', n, root)
  <2>1. x.op # BlockOp[j]
    BY <1>4, <1>9 DEF BlockOp, Kinds
  <2>2. QED  BY <1>2, <1>3, <1>4, <2>1, TreeOther
<1>10. Trees'
  <2>1. CASE k = "begin"
    <3>1. spans = <<>>
      BY <2>1 DEF Inv, TraceInv
    <3>2. Absent("end", spans)
      BY <3>1 DEF Absent, RootsIn, ModulesIn
    <3>3. Absent("end", spans')
      BY <1>9, <2>1, <3>2 DEF Kinds
    <3>4. QED  BY <1>1, <1>6, <1>8, <2>1, <3>3 DEF Trees
  <2>2. CASE k = "end"
    <3>1. \E root \in Nat : Traced("begin", spans, Len(BeginOrder), root)
      BY <2>2 DEF Inv, TraceInv, Trees
    <3>2. \E root \in Nat : Traced("begin", spans', Len(BeginOrder), root)
      BY <1>9, <2>2, <3>1 DEF Kinds
    <3>3. QED  BY <1>1, <1>6, <1>8, <2>2, <3>2 DEF Trees
  <2>3. QED  BY <2>1, <2>2 DEF Kinds
<1>11. InHandler' /\ ~Running'
  BY <1>1, <1>2 DEF InHandler, Running
<1>12. OpenSpans'
  <2>1. \A s \in DOMAIN spans : spans[s].finished
    BY <1>2 DEF Inv, TraceInv, OpenSpans
  <2>2. 2 \in 2..Depth' /\ \A d \in 2..Depth' : d = 2
    BY <1>6
  <2>3. \A s \in DOMAIN spans' : spans'[s].finished \/ \E d \in 2..Depth' : stack'[d].span = s
    BY <1>5, <1>6, <2>1, <2>2
  <2>4. \A d \in 2..Depth' : stack'[d].span \in DOMAIN spans'
    BY <1>5, <1>6, <2>2
  <2>5. QED  BY <1>11, <2>3, <2>4 DEF OpenSpans
<1>13. (MarkedIn(spans) = UpdatesSoFar)'
  <2>1. MarkedIn(spans') = MarkedIn(spans)
    BY <1>2, <1>3, <1>4, MarksGrown
  <2>2. MarkedIn(spans) = {}
    BY <1>2 DEF Inv, TraceInv, UpdatesSoFar
  <2>3. QED  BY <1>1, <1>11, <2>1, <2>2 DEF UpdatesSoFar
<1>14. QED  BY <1>10, <1>12, <1>13

\* Between blocks, and when the process is down, there are no spans.
LEMMA EmptyTrace ==
    ASSUME spans = <<>>, pc \in {"idle", "down"}
    PROVE  TraceInv
<1>1. DOMAIN spans = {}
  OBVIOUS
<1>2. Trees /\ OpenSpans /\ MarkedIn(spans) = UpdatesSoFar
  BY <1>1 DEF Trees, OpenSpans, MarkedIn, UpdatesSoFar, InHandler, Kinds
<1>3. QED  BY <1>2 DEF TraceInv

LEMMA EmptiedTrace ==
    ASSUME spans' = <<>>, pc' \in {"idle", "down"}
    PROVE  TraceInv'
<1>1. DOMAIN spans' = {}
  OBVIOUS
<1>2. ~InHandler' /\ pc' # "ended"
  BY DEF InHandler, Kinds
<1>3. Trees'
  BY DEF Trees
<1>4. OpenSpans'
  BY <1>1, <1>2 DEF OpenSpans
<1>5. (MarkedIn(spans) = UpdatesSoFar)'
  <2>1. MarkedIn(spans') = {}
    BY <1>1 DEF MarkedIn
  <2>2. UpdatesSoFar' = {}
    BY <1>2 DEF UpdatesSoFar
  <2>3. QED  BY <2>1, <2>2
<1>6. QED  BY <1>3, <1>4, <1>5 DEF TraceInv

-----------------------------------------------------------------------------
(* The theorem on traces *)

LEMMA NextTraceInv ==
    ASSUME Inv, [Next]_vars
    PROVE  TraceInv'
<1>1. CASE Stop \/ Commit
  <2>1. spans' = <<>> /\ pc' \in {"idle", "down"}
    BY <1>1 DEF Stop, Commit
  <2>2. QED  BY <2>1, EmptiedTrace
<1>2. CASE Restart \/ Propose
  <2>1. spans' = <<>> /\ pc' = "idle"
    BY <1>2 DEF Restart, Propose, Inv, TraceInv
  <2>2. QED  BY <2>1, EmptiedTrace
<1>3. CASE UNCHANGED vars
  BY <1>3 DEF vars, node, Inv, TraceInv, Trees, OpenSpans, UpdatesSoFar, InHandler, Running,
              Depth, Current
<1>4. CASE \/ BeginBlock \/ EndBlock \/ SkipModule \/ CallModule \/ Emit \/ RunMigrations
           \/ MigrationsRun \/ ModuleReturns \/ HandlerReturns
  <2>1. pc' \notin {"idle", "down"} /\ tracerEnabled' = tracerEnabled
    BY <1>4 DEF BeginBlock, EndBlock, Start, SkipModule, CallModule, Emit, RunMigrations,
                MigrationsRun, ModuleReturns, HandlerReturns, Doing, InHandler, Kinds
  <2>2. SUFFICES ASSUME tracerEnabled
                 PROVE  Trees' /\ OpenSpans' /\ (MarkedIn(spans) = UpdatesSoFar)'
    BY <2>1 DEF TraceInv
  <2>3. CASE BeginBlock
    BY <2>2, <2>3, StartTraceInv DEF BeginBlock, Kinds
  <2>4. CASE EndBlock
    BY <2>2, <2>4, StartTraceInv DEF EndBlock, Kinds
  <2>5. CASE SkipModule
    BY <2>2, <2>5, SkipTraceInv
  <2>6. CASE CallModule
    BY <2>2, <2>6, CallTraceInv
  <2>7. CASE Emit
    BY <2>2, <2>7, EmitTraceInv
  <2>8. CASE RunMigrations
    BY <2>2, <2>8, MigrationTraceInv
  <2>9. CASE MigrationsRun
    BY <2>2, <2>9, MigratedTraceInv
  <2>10. CASE ModuleReturns
    BY <2>2, <2>10, ReturnTraceInv
  <2>11. CASE HandlerReturns
    BY <2>2, <2>11, HandlerTraceInv
  <2>12. QED
    BY <1>4, <2>3, <2>4, <2>5, <2>6, <2>7, <2>8, <2>9, <2>10, <2>11
<1>5. QED
  BY <1>1, <1>2, <1>3, <1>4 DEF Next, Step, Panic, Crash, Synced

LEMMA TracesFollow ==
    ASSUME Inv
    PROVE  TracesBlock
<1>1. SUFFICES ASSUME pc = "ended", tracerEnabled
               PROVE  /\ \A s \in DOMAIN spans : spans[s].finished
                      /\ \A k \in Kinds :
                            /\ {spans[s].module : s \in OfHandler(k)} = Blockers[k]
                            /\ \A s, t \in OfHandler(k) :
                                    s < t <=> RunsBefore(k, spans[s].module, spans[t].module)
                            /\ \A s \in OfHandler(k) : spans[s].parent = RootOf(k)
                      /\ {spans[s].module : s \in {t \in DOMAIN spans : spans[t].valset}}
                            = response.updates
  BY DEF TracesBlock
<1>2. ~InHandler
  BY <1>1 DEF InHandler, Kinds
<1>3. \A s \in DOMAIN spans : spans[s].finished
  BY <1>1, <1>2 DEF Inv, TraceInv, OpenSpans
<1>4. MarkedIn(spans) = response.updates
  BY <1>1, <1>2 DEF Inv, TraceInv, UpdatesSoFar
<1>5. ASSUME NEW k \in Kinds
      PROVE  /\ {spans[s].module : s \in OfHandler(k)} = Blockers[k]
             /\ \A s, t \in OfHandler(k) :
                    s < t <=> RunsBefore(k, spans[s].module, spans[t].module)
             /\ \A s \in OfHandler(k) : spans[s].parent = RootOf(k)
  <2>1. \E root : Traced(k, spans, Len(Order[k]), root)
    BY <1>1 DEF Inv, TraceInv, Trees, Order, Kinds
  <2>2. PICK root : Traced(k, spans, Len(Order[k]), root)
    BY <2>1
  <2>3. OfHandler(k) = ModulesIn(k, spans)
    BY DEF OfHandler, ModulesIn
  <2>4. RootOf(k) = root
    <3>1. RootsIn(k, spans) = {root}
      BY <2>2 DEF Traced
    <3>2. \A s \in DOMAIN spans : spans[s].op = BlockOp[k] /\ spans[s].parent = 0 <=> s = root
      BY <3>1 DEF RootsIn
    <3>3. root \in DOMAIN spans
      BY <3>1 DEF RootsIn
    <3>4. QED  BY <3>2, <3>3 DEF RootOf
  <2>5. \A m \in Blockers[k] : \E s \in ModulesIn(k, spans) : spans[s].module = m
    BY <2>2, OrderTypes DEF Traced
  <2>6. {spans[s].module : s \in OfHandler(k)} = Blockers[k]
    BY <2>2, <2>3, <2>5 DEF Traced
  <2>7. QED  BY <2>2, <2>3, <2>4, <2>6 DEF Traced
<1>6. QED  BY <1>3, <1>4, <1>5 DEF MarkedIn

\* When a block is about to be committed and tracing is on, every blocker has a span
\* under that of its handler, in the order of the modules, all spans are finished,
\* and those marked are of the module that updated the validators: the spans of
\* BeginBlock, EndBlock and RunMigrations of TraceModuleManager.
THEOREM BlocksTraced == Spec => []TracesBlock
<1>1. Init => Inv
  <2>1. Init => BlockInv
    BY InitBlockInv
  <2>2. Init => spans = <<>> /\ pc = "idle"
    BY DEF Init
  <2>3. QED  BY <2>1, <2>2, EmptyTrace DEF Inv
<1>2. Inv /\ [Next]_vars => Inv'
  BY NextBlockInv, NextTraceInv DEF Inv
<1>3. Inv => TracesBlock
  BY TracesFollow
<1>4. QED  BY <1>1, <1>2, <1>3, PTL DEF Spec

=============================================================================
