--------------------------- MODULE SubMessagesProofs ---------------------------
(***************************************************************************)
(* Limited messages keep within their limit and do their caller no harm,   *)
(* for every gas limit and every program.                                  *)
(***************************************************************************)
EXTENDS SubMessages, TLAPS

\* sdk meters.
Meters == [limit: Nat, used: Nat]

MeterOf(i) == meters[frames[i].meter]

\* The types, and that running calls have a meter.
SubTypes ==
    /\ traced \in BOOLEAN /\ steps \in Nat
    /\ meters \in Seq(Meters) /\ spans \in Seq(Spans) /\ frames \in Seq(Frames)
    /\ Depth > 0
    /\ \A i \in 1..Depth : frames[i].meter \in 1..Len(meters)
    /\ mode \in {"run", "error", "outOfGas"} \cup Ended

\* Meters are in the order of the frames: a limited message has a new one, the
\* others that of their caller.
MetersNest ==
    /\ frames[1].meter = 1 /\ ~frames[1].limited
    /\ \A i, j \in 1..Depth : i <= j => frames[i].meter <= frames[j].meter
    /\ \A i \in 2..Depth :
          IF frames[i].limited THEN frames[i - 1].meter < frames[i].meter
                               ELSE frames[i - 1].meter = frames[i].meter

\* What is left on the meter of the caller is more than a message can cost.
LimitsNest ==
    \A i \in 2..Depth :
        frames[i].limited => MeterOf(i - 1).used + MeterOf(i).limit < MeterOf(i - 1).limit

\* Only the last meter can be exhausted, and is when there is a panic.
GasLeft ==
    /\ mode \in {"run", "error"} => MeterOf(Depth).used <= MeterOf(Depth).limit
    /\ mode = "outOfGas" => MeterOf(Depth).used > MeterOf(Depth).limit

\* The inductive invariant.
SubInv == SubTypes /\ MetersNest /\ LimitsNest /\ GasLeft /\ AbortsOutOfGas

-----------------------------------------------------------------------------
(* Sequences *)

\* Append, and what it leaves in place.
LEMMA Appended ==
    ASSUME NEW S, NEW s \in Seq(S), NEW e \in S
    PROVE  /\ Append(s, e) \in Seq(S) /\ Len(Append(s, e)) = Len(s) + 1
           /\ Append(s, e)[Len(s) + 1] = e
           /\ \A i \in 1..Len(s) : Append(s, e)[i] = s[i]
  OBVIOUS

\* A sequence without its last element.
LEMMA Popped ==
    ASSUME NEW S, NEW s \in Seq(S), Len(s) > 1
    PROVE  /\ SubSeq(s, 1, Len(s) - 1) \in Seq(S)
           /\ Len(SubSeq(s, 1, Len(s) - 1)) = Len(s) - 1
           /\ \A i \in 1..(Len(s) - 1) : SubSeq(s, 1, Len(s) - 1)[i] = s[i]
  OBVIOUS

\* A sequence with other elements.
LEMMA Mapped ==
    ASSUME NEW S, NEW s \in Seq(S), NEW t, t = [i \in DOMAIN s |-> t[i]],
           \A i \in DOMAIN s : t[i] \in S
    PROVE  t \in Seq(S)
  <1>1. Len(s) \in Nat /\ DOMAIN s = 1..Len(s)
    OBVIOUS
  <1>2. t \in [1..Len(s) -> S]
    BY <1>1
  <1> QED
    BY <1>1, <1>2

\* A sequence with one other element.
LEMMA Updated ==
    ASSUME NEW S, NEW s \in Seq(S), NEW k \in 1..Len(s), NEW e \in S
    PROVE  LET t == [s EXCEPT ![k] = e] IN
           /\ t \in Seq(S) /\ Len(t) = Len(s) /\ t[k] = e
           /\ \A i \in 1..Len(s) : i # k => t[i] = s[i]
  OBVIOUS

-----------------------------------------------------------------------------
(* Charges *)

\* gas.go:51: only the decorated meter is charged.
LEMMA ChargedMeters ==
    ASSUME SubTypes, NEW i \in 1..Depth, NEW amount \in Nat
    PROVE  LET m == frames[i].meter
               charged == Charged(frames[i], amount) IN
           /\ charged \in Seq(Meters) /\ Len(charged) = Len(meters)
           /\ charged[m] = [limit |-> meters[m].limit, used |-> meters[m].used + amount]
           /\ \A n \in 1..Len(meters) : n # m => charged[n] = meters[n]
  <1>1. frames[i].meter \in 1..Len(meters)
    BY DEF SubTypes
  <1>2. meters \in Seq(Meters)
    BY DEF SubTypes
  <1> DEFINE m == frames[i].meter
             paid == [limit |-> meters[m].limit, used |-> meters[m].used + amount]
  <1>3. meters[m] \in Meters
    BY <1>1, <1>2
  <1>4. paid \in Meters
    BY <1>3 DEF Meters
  <1>5. Charged(frames[i], amount) = [meters EXCEPT ![m] = paid]
    <2>1. [meters[m] EXCEPT !.used = meters[m].used + amount] = paid
      BY <1>3 DEF Meters
    <2>2. Charged(frames[i], amount) =
            [meters EXCEPT ![m] = [meters[m] EXCEPT !.used = meters[m].used + amount]]
      BY Zenon DEF Charged, Consumed
    <2> QED
      BY <2>1, <2>2, Zenon
  <1> HIDE DEF m, paid
  <1>6. /\ [meters EXCEPT ![m] = paid] \in Seq(Meters)
        /\ Len([meters EXCEPT ![m] = paid]) = Len(meters)
        /\ [meters EXCEPT ![m] = paid][m] = paid
        /\ \A n \in 1..Len(meters) : n # m => [meters EXCEPT ![m] = paid][n] = meters[n]
    BY <1>1, <1>2, <1>4, Updated DEF m
  <1> QED
    BY <1>5, <1>6 DEF m, paid

\* gas.go:51: the entries of the decorators.
LEMMA RecordedSpans ==
    ASSUME SubTypes, NEW i \in 1..Depth, NEW amount \in Nat
    PROVE  Recorded(frames[i], amount) \in Seq(Spans)
  <1> DEFINE m == frames[i].meter
             entry == ConsumeGasTrace(amount, meters[m].used)
  <1>1. m \in 1..Len(meters) /\ meters \in Seq(Meters) /\ spans \in Seq(Spans)
    BY DEF SubTypes
  <1>2. meters[m].used \in Nat
    <2>1. meters[m] \in Meters
      BY <1>1
    <2> QED
      BY <2>1 DEF Meters
  <1>3. entry \in GasTraces
    BY <1>2 DEF ConsumeGasTrace, NewGasTrace, GasTraces
  <1> HIDE DEF entry
  <1>4. \A s \in DOMAIN spans : [spans[s] EXCEPT !.trace = Append(@, entry)] \in Spans
    <2> SUFFICES ASSUME NEW s \in DOMAIN spans
                 PROVE  [spans[s] EXCEPT !.trace = Append(@, entry)] \in Spans
      OBVIOUS
    <2>1. spans[s] \in Spans
      BY <1>1
    <2>2. Append(spans[s].trace, entry) \in Seq(GasTraces)
      BY <2>1, <1>3 DEF Spans
    <2> QED
      BY <2>1, <2>2 DEF Spans
  <1>5. Recorded(frames[i], amount) =
          [s \in DOMAIN spans |->
              IF s \in frames[i].layers
              THEN [spans[s] EXCEPT !.trace = Append(@, entry)]
              ELSE spans[s]]
    BY DEF Recorded, entry
  <1> QED
    BY <1>1, <1>4, <1>5, Mapped, SMTT(40)

-----------------------------------------------------------------------------
(* What steps do to the frames *)

\* The frames above frame k are gone and frame k is charged, or its meter is
\* charged while it runs: those below are on other meters, or share this one.
LEMMA ChargeNests ==
    ASSUME SubTypes, MetersNest, LimitsNest,
           NEW k \in 1..Depth, NEW amount \in Nat,
           Len(frames') = k, \A i \in 1..k : frames'[i] = frames[i],
           meters' = Charged(frames[k], amount)
    PROVE  /\ MetersNest' /\ LimitsNest'
           /\ \A i \in 1..k : (frames[i].meter \in 1..Len(meters))'
           /\ MeterOf(k)' = [limit |-> MeterOf(k).limit, used |-> MeterOf(k).used + amount]
  <1>1. /\ Len(meters') = Len(meters)
        /\ meters'[frames[k].meter] =
              [limit |-> MeterOf(k).limit, used |-> MeterOf(k).used + amount]
        /\ \A n \in 1..Len(meters) : n # frames[k].meter => meters'[n] = meters[n]
    BY ChargedMeters DEF MeterOf
  <1>2. /\ Depth \in Nat
        /\ \A i \in 1..Depth : frames[i].meter \in 1..Len(meters)
        /\ \A i \in 1..Depth : MeterOf(i).used \in Nat /\ MeterOf(i).limit \in Nat
    <2>1. Depth \in Nat
      BY DEF SubTypes, Depth
    <2>2. \A i \in 1..Depth : frames[i].meter \in 1..Len(meters)
      BY DEF SubTypes
    <2>3. \A n \in 1..Len(meters) : meters[n] \in Meters
      BY DEF SubTypes
    <2>4. \A i \in 1..Depth : MeterOf(i) \in Meters
      BY <2>2, <2>3 DEF MeterOf
    <2> QED
      BY <2>1, <2>2, <2>4 DEF Meters
  <1>3. MeterOf(k)' = [limit |-> MeterOf(k).limit, used |-> MeterOf(k).used + amount]
    BY <1>1 DEF MeterOf
  <1>4. \A i \in 1..k : MeterOf(i)'.limit = MeterOf(i).limit
    <2> TAKE i \in 1..k
    <2>1. i \in 1..Depth /\ frames[i].meter \in 1..Len(meters) /\ frames'[i] = frames[i]
      BY <1>2
    <2>2. CASE frames[i].meter = frames[k].meter
      BY <1>1, <2>1, <2>2 DEF MeterOf
    <2>3. CASE frames[i].meter # frames[k].meter
      BY <1>1, <2>1, <2>3 DEF MeterOf
    <2> QED
      BY <2>2, <2>3
  <1>5. \A i \in 1..k : frames[i].meter # frames[k].meter => MeterOf(i)' = MeterOf(i)
    BY <1>1, <1>2 DEF MeterOf
  <1>6. MetersNest'
    <2>1. k \in Nat /\ k >= 1 /\ k <= Depth
      BY <1>2
    <2>2. frames'[1].meter = 1 /\ ~frames'[1].limited
      BY <2>1 DEF MetersNest
    <2>3. \A i, j \in 1..k : i <= j => frames'[i].meter <= frames'[j].meter
      BY <1>2, <2>1 DEF MetersNest
    <2>4. \A i \in 2..k :
              IF frames'[i].limited THEN frames'[i - 1].meter < frames'[i].meter
                                    ELSE frames'[i - 1].meter = frames'[i].meter
      <3> TAKE i \in 2..k
      <3>1. i \in 2..Depth /\ i - 1 \in 1..k /\ i \in 1..k
        BY <1>2, <2>1
      <3>2. frames'[i - 1] = frames[i - 1] /\ frames'[i] = frames[i]
        BY <3>1
      <3> QED
        BY <3>1, <3>2 DEF MetersNest
    <2> QED
      BY <2>2, <2>3, <2>4 DEF MetersNest, Depth
  <1>7. LimitsNest'
    <2> SUFFICES ASSUME NEW i \in 2..k, frames[i].limited
                 PROVE  MeterOf(i - 1)'.used + MeterOf(i)'.limit < MeterOf(i - 1)'.limit
      BY DEF LimitsNest, Depth, MeterOf
    <2>1. i \in 2..Depth /\ i - 1 \in 1..k /\ i \in 1..k /\ i \in 1..Depth
      BY <1>2
    <2>2. frames[i - 1].meter < frames[i].meter /\ frames[i].meter <= frames[k].meter
      BY <2>1, <1>2 DEF MetersNest
    <2>3. MeterOf(i - 1)' = MeterOf(i - 1) /\ MeterOf(i)'.limit = MeterOf(i).limit
      BY <2>1, <2>2, <1>2, <1>4, <1>5
    <2> QED
      BY <2>1, <2>3 DEF LimitsNest
  <1>8. \A i \in 1..k : (frames[i].meter \in 1..Len(meters))'
    BY <1>1, <1>2
  <1> QED
    BY <1>3, <1>6, <1>7, <1>8

\* Leaving a call of the running frames has types, whatever it costs.
LEMMA LeaveTypes ==
    ASSUME SubTypes, NEW charge \in Nat, NEW state \in {"finished", "lost"},
           Leave(state, charge)
    PROVE  /\ Depth > 1 /\ Depth' = Depth - 1 /\ frames' \in Seq(Frames)
           /\ \A i \in 1..(Depth - 1) : frames'[i] = frames[i]
           /\ meters' = IF Pays THEN Charged(frames[Depth - 1], charge) ELSE meters
           /\ meters' \in Seq(Meters) /\ spans' \in Seq(Spans)
           /\ traced' \in BOOLEAN /\ steps' \in Nat
  <1>1. Depth > 1 /\ Depth \in Nat /\ Depth - 1 \in 1..Depth
    BY DEF SubTypes, Leave, Depth
  <1>2. /\ Depth' = Depth - 1 /\ frames' \in Seq(Frames)
        /\ \A i \in 1..(Depth - 1) : frames'[i] = frames[i]
    BY <1>1, Popped DEF Leave, SubTypes, Depth
  <1>3. meters' = IF Pays THEN Charged(frames[Depth - 1], charge) ELSE meters
    BY DEF Leave, Caller
  <1>4. meters' \in Seq(Meters)
    BY <1>1, <1>3, ChargedMeters DEF SubTypes
  <1>5. spans' \in Seq(Spans)
    <2> DEFINE recorded == IF Pays THEN Recorded(Caller, charge) ELSE spans
    <2>1. recorded \in Seq(Spans)
      BY <1>1, RecordedSpans DEF SubTypes, Caller
    <2>2. DOMAIN recorded = DOMAIN spans
      BY DEF Recorded
    <2>3. spans' = [s \in DOMAIN spans |->
                      IF s = Top.span THEN [recorded[s] EXCEPT !.state = state] ELSE recorded[s]]
      BY DEF Leave
    <2> HIDE DEF recorded
    <2>4. \A s \in DOMAIN recorded : recorded[s] \in Spans
      BY <2>1
    <2>5. \A s \in DOMAIN recorded : [recorded[s] EXCEPT !.state = state] \in Spans
      BY <2>4 DEF Spans
    <2>6. \A s \in DOMAIN recorded : spans'[s] \in Spans
      BY <2>2, <2>3, <2>4, <2>5
    <2> QED
      BY <2>1, <2>2, <2>3, <2>6, Mapped
  <1>6. traced' \in BOOLEAN /\ steps' \in Nat
    BY DEF Leave, SubTypes
  <1> QED
    BY <1>1, <1>2, <1>3, <1>4, <1>5, <1>6

\* A limited message is left while it costs no more than its limit: it was less
\* than what its caller had left.
LEMMA LimitedLeft ==
    ASSUME SubTypes, MetersNest, LimitsNest, Top.limited, Pays,
           NEW charge \in Nat, charge <= meters[Top.meter].limit,
           NEW state \in {"finished", "lost"}, Leave(state, charge)
    PROVE  /\ ~Exhausts(Caller, charge)
           /\ (MetersNest /\ LimitsNest)'
           /\ \A i \in 1..(Depth - 1) : (frames[i].meter \in 1..Len(meters))'
           /\ MeterOf(Depth)'.used <= MeterOf(Depth)'.limit
           /\ meters'[Caller.meter].used - meters[Caller.meter].used <= meters[Top.meter].limit
           /\ ~OutOfGas(meters'[Caller.meter].used, meters'[Caller.meter].limit)
  <1>0. Depth > 1 /\ Depth \in Nat
    BY LeaveTypes DEF SubTypes, Depth
  <1> PICK k \in 1..Depth : k = Depth - 1
    BY <1>0
  <1>1. /\ Depth' = k
        /\ \A i \in 1..k : frames'[i] = frames[i]
        /\ meters' = Charged(frames[k], charge)
    BY LeaveTypes
  <1>2. k \in 1..Depth /\ Depth \in 2..Depth /\ k \in 1..k
    BY <1>0
  <1>3. /\ (MetersNest /\ LimitsNest)'
        /\ \A i \in 1..k : (frames[i].meter \in 1..Len(meters))'
        /\ MeterOf(k)' = [limit |-> MeterOf(k).limit, used |-> MeterOf(k).used + charge]
    BY <1>1, <1>2, ChargeNests DEF Depth
  <1>4. MeterOf(k).used + MeterOf(Depth).limit < MeterOf(k).limit
    BY <1>2 DEF LimitsNest, Top
  <1>5. /\ MeterOf(k).used \in Nat /\ MeterOf(k).limit \in Nat /\ MeterOf(Depth).limit \in Nat
    <2>1. \A i \in 1..Depth : frames[i].meter \in 1..Len(meters)
      BY DEF SubTypes
    <2>2. \A n \in 1..Len(meters) : meters[n] \in Meters
      BY DEF SubTypes
    <2> QED
      BY <2>1, <2>2, <1>2, SMTT(40) DEF MeterOf, Meters
  <1>6. charge <= MeterOf(Depth).limit
    BY DEF MeterOf, Top
  <1>7. MeterOf(k).used + charge <= MeterOf(k).limit
    BY <1>4, <1>5, <1>6
  <1>8. ~Exhausts(Caller, charge)
    BY <1>5, <1>7 DEF Exhausts, OutOfGas, Consumed, Caller, MeterOf
  <1>9. MeterOf(Depth)' = MeterOf(k)'
    BY <1>1 DEF MeterOf
  <1>10. MeterOf(k)' = meters'[Caller.meter]
    BY <1>1, <1>2 DEF MeterOf, Caller
  <1>11. MeterOf(k) = meters[Caller.meter] /\ MeterOf(Depth) = meters[Top.meter]
    BY DEF MeterOf, Caller, Top
  <1>12. MeterOf(Depth)'.used <= MeterOf(Depth)'.limit
    BY <1>3, <1>7, <1>9
  <1>13. /\ meters'[Caller.meter].used - meters[Caller.meter].used <= meters[Top.meter].limit
         /\ ~OutOfGas(meters'[Caller.meter].used, meters'[Caller.meter].limit)
    <2>1. /\ meters'[Caller.meter].used = meters[Caller.meter].used + charge
          /\ meters'[Caller.meter].limit = MeterOf(k).limit
      BY <1>3, <1>10, <1>11
    <2> QED
      BY <2>1, <1>5, <1>6, <1>7, <1>11 DEF OutOfGas
  <1> QED
    BY <1>3, <1>8, <1>12, <1>13

\* A message without a limit leaves its caller with the meter as it is.
LEMMA UnlimitedLeft ==
    ASSUME SubTypes, MetersNest, LimitsNest, ~Top.limited, ~Pays,
           NEW charge \in Nat, NEW state \in {"finished", "lost"}, Leave(state, charge)
    PROVE  /\ (MetersNest /\ LimitsNest)'
           /\ \A i \in 1..(Depth - 1) : (frames[i].meter \in 1..Len(meters))'
           /\ MeterOf(Depth)' = MeterOf(Depth)
  <1>0. Depth > 1 /\ Depth \in Nat
    BY LeaveTypes DEF SubTypes, Depth
  <1> PICK k \in 1..Depth : k = Depth - 1
    BY <1>0
  <1>1. Depth' = k /\ \A i \in 1..k : frames'[i] = frames[i]
    BY LeaveTypes
  <1>2. meters' = meters
    BY LeaveTypes
  <1>3. \A i \in 1..k : MeterOf(i)' = MeterOf(i)
    BY <1>1, <1>2 DEF MeterOf
  <1>4. MetersNest'
    <2>1. frames'[1].meter = 1 /\ ~frames'[1].limited
      BY <1>0, <1>1 DEF MetersNest
    <2>2. \A i, j \in 1..k : i <= j => frames'[i].meter <= frames'[j].meter
      BY <1>0, <1>1 DEF MetersNest
    <2>3. \A i \in 2..k :
              IF frames'[i].limited THEN frames'[i - 1].meter < frames'[i].meter
                                    ELSE frames'[i - 1].meter = frames'[i].meter
      <3> TAKE i \in 2..k
      <3>1. i \in 2..Depth /\ i - 1 \in 1..k /\ i \in 1..k
        BY <1>0
      <3>2. frames'[i - 1] = frames[i - 1] /\ frames'[i] = frames[i]
        BY <3>1, <1>1
      <3> QED
        BY <3>1, <3>2 DEF MetersNest
    <2> QED
      BY <2>1, <2>2, <2>3, <1>1 DEF MetersNest
  <1>5. LimitsNest'
    <2> SUFFICES ASSUME NEW i \in 2..k, frames[i].limited
                 PROVE  MeterOf(i - 1)'.used + MeterOf(i)'.limit < MeterOf(i - 1)'.limit
      BY <1>1 DEF LimitsNest, MeterOf
    <2>1. i \in 2..Depth /\ i - 1 \in 1..k /\ i \in 1..k
      BY <1>0
    <2> QED
      BY <2>1, <1>3 DEF LimitsNest
  <1>6. \A i \in 1..k : (frames[i].meter \in 1..Len(meters))'
    BY <1>0, <1>1, <1>2 DEF SubTypes
  <1>7. MeterOf(Depth)' = MeterOf(Depth)
    <2>1. frames[k].meter = frames[Depth].meter
      BY <1>0 DEF MetersNest, Top
    <2>2. MeterOf(Depth)' = meters'[frames'[k].meter]
      BY <1>1 DEF MeterOf
    <2> QED
      BY <2>1, <2>2, <1>1, <1>2, <1>0 DEF MeterOf
  <1> QED
    BY <1>4, <1>5, <1>6, <1>7

-----------------------------------------------------------------------------
(* The invariant *)

\* A transaction starts with nothing consumed.
LEMMA InitSubInv == Init => SubInv
  <1> SUFFICES ASSUME Init PROVE SubInv
    OBVIOUS
  <1> DEFINE root == [meter |-> 1, layers |-> {}, span |-> 0, limited |-> FALSE, replies |-> FALSE]
             gas == [limit |-> TxLimit, used |-> 0]
  <1>1. root \in Frames /\ gas \in Meters
    BY SubMessagesAssumption DEF Frames, Meters
  <1>2. frames = <<root>> /\ meters = <<gas>> /\ spans = <<>>
    BY DEF Init
  <1> HIDE DEF root, gas
  <1>3. /\ frames \in Seq(Frames) /\ meters \in Seq(Meters) /\ spans \in Seq(Spans)
        /\ Depth = 1 /\ Len(meters) = 1 /\ frames[1] = root /\ meters[1] = gas
    BY <1>1, <1>2 DEF Depth
  <1>4. SubTypes
    BY <1>3 DEF SubTypes, Init, root
  <1>5. MetersNest /\ LimitsNest
    BY <1>3 DEF MetersNest, LimitsNest, root
  <1>6. GasLeft
    BY <1>3, SubMessagesAssumption DEF GasLeft, MeterOf, Init, root, gas
  <1>7. AbortsOutOfGas
    BY DEF AbortsOutOfGas, Init
  <1> QED
    BY <1>4, <1>5, <1>6, <1>7 DEF SubInv

\* The meters of the running calls.
LEMMA MetersTyped ==
    ASSUME SubTypes, NEW i \in 1..Depth
    PROVE  MeterOf(i) \in Meters /\ MeterOf(i).used \in Nat /\ MeterOf(i).limit \in Nat
  <1>1. frames[i].meter \in 1..Len(meters)
    BY DEF SubTypes
  <1>2. \A n \in 1..Len(meters) : meters[n] \in Meters
    BY DEF SubTypes
  <1> QED
    BY <1>1, <1>2 DEF MeterOf, Meters

\* A charge to the running call leaves all meters below alone.
LEMMA ConsumeGasInv ==
    ASSUME SubInv, NEW amount \in Amounts, ConsumeGas(amount)
    PROVE  SubInv'
  <1>1. amount \in Nat
    BY SubMessagesAssumption
  <1> PICK k \in 1..Depth : k = Depth
    BY DEF SubInv, SubTypes, Depth
  <1>2. Len(frames') = k /\ frames' = frames /\ frames[k] = Top
    BY DEF ConsumeGas, Depth, Top
  <1>3. meters' = Charged(frames[k], amount) /\ spans' = Recorded(frames[k], amount)
    BY <1>2 DEF ConsumeGas
  <1>4. /\ MetersNest' /\ LimitsNest'
        /\ \A i \in 1..k : (frames[i].meter \in 1..Len(meters))'
        /\ MeterOf(k)' = [limit |-> MeterOf(k).limit, used |-> MeterOf(k).used + amount]
    BY <1>1, <1>2, <1>3, ChargeNests DEF SubInv
  <1>5. meters' \in Seq(Meters) /\ spans' \in Seq(Spans)
    BY <1>1, <1>3, ChargedMeters, RecordedSpans DEF SubInv
  <1>6. Depth' = k /\ mode' \in {"run", "outOfGas"}
    BY <1>2 DEF ConsumeGas, Depth
  <1>7. SubTypes'
    BY <1>2, <1>4, <1>5, <1>6 DEF SubTypes, SubInv, ConsumeGas, Step
  <1>8. mode' = IF MeterOf(k).used + amount > MeterOf(k).limit THEN "outOfGas" ELSE "run"
    BY <1>2 DEF ConsumeGas, Exhausts, OutOfGas, Consumed, MeterOf
  <1>9. MeterOf(Depth)' = MeterOf(k)'
    BY <1>6 DEF MeterOf
  <1>10. GasLeft'
    BY <1>1, <1>4, <1>8, <1>9, MetersTyped DEF GasLeft, SubInv
  <1>11. AbortsOutOfGas'
    BY <1>6 DEF AbortsOutOfGas
  <1> QED
    BY <1>4, <1>7, <1>10, <1>11 DEF SubInv

\* A message runs on the meter of its caller, or on one that can cost less than
\* the caller has left.
LEMMA DispatchMsgInv ==
    ASSUME SubInv, NEW limit \in Limits \cup {NoLimit}, NEW known \in BOOLEAN,
           NEW replies \in BOOLEAN, DispatchMsg(limit, known, replies)
    PROVE  SubInv'
  <1> PICK k \in 1..Depth : k = Depth /\ Depth \in Nat
    BY DEF SubInv, SubTypes, Depth
  <1> DEFINE limited == limit # NoLimit /\ limit < Remaining(Top)
             meter == IF limited THEN Len(meters) + 1 ELSE Top.meter
             around == IF limited THEN {} ELSE Top.layers
             span == Len(spans) + 1
             fresh == [limit |-> limit, used |-> 0]
             started == [meter |-> meter, start |-> IF limited THEN 0 ELSE meters[meter].used,
                         trace |-> <<>>, state |-> "open"]
             frame == [meter |-> meter, limited |-> limited, replies |-> replies,
                       layers |-> IF traced THEN Layers(around, span) ELSE {},
                       span |-> IF traced THEN span ELSE 0]
  <1>1. /\ meters' = IF limited THEN Append(meters, fresh) ELSE meters
        /\ spans' = IF traced THEN Append(spans, started) ELSE spans
        /\ frames' = Append(frames, frame)
        /\ mode' = ModeIn(known) /\ mode = "run"
        /\ traced' = traced /\ steps' = steps + 1
    BY DEF DispatchMsg, Step
  <1>2. /\ meters \in Seq(Meters) /\ spans \in Seq(Spans) /\ frames \in Seq(Frames)
        /\ frames[k] = Top /\ Top \in Frames /\ Top.meter \in 1..Len(meters)
        /\ MeterOf(k) = meters[Top.meter]
        /\ MeterOf(k).used \in Nat /\ MeterOf(k).limit \in Nat
    BY MetersTyped DEF SubInv, SubTypes, Top, Depth, MeterOf
  <1>3. limited => /\ limit \in Nat /\ fresh \in Meters
                   /\ MeterOf(k).used + limit < MeterOf(k).limit
    <2>1. Remaining(Top) = MeterOf(k).limit - MeterOf(k).used
      BY <1>2 DEF Remaining, Limit, GasConsumed
    <2> QED
      BY <1>2, <2>1, SubMessagesAssumption, SMTT(40) DEF Meters
  <1>4. meter \in Nat /\ meter > 0
    BY <1>2
  <1>5. started \in Spans
    <2>1. ~limited => meters[meter].used \in Nat
      BY <1>2
    <2>2. <<>> \in Seq(GasTraces)
      OBVIOUS
    <2> QED
      BY <1>4, <2>1, <2>2 DEF Spans
  <1>6. frame \in Frames
    <2>1. span \in Nat /\ around \in SUBSET Nat
      BY <1>2 DEF Frames
    <2> QED
      BY <1>4, <2>1 DEF Frames, Layers
  <1>7. limited \in BOOLEAN
    OBVIOUS
  <1>8. frame.meter = meter /\ frame.limited = limited
    OBVIOUS
  <1> HIDE DEF limited, frame, started, meter
  <1>9. /\ frames' \in Seq(Frames) /\ Depth' = k + 1 /\ frames'[k + 1] = frame
        /\ \A i \in 1..k : frames'[i] = frames[i]
    BY <1>1, <1>2, <1>6, Appended DEF Depth
  <1>10. spans' \in Seq(Spans)
    BY <1>1, <1>2, <1>5, Appended
  <1>11. /\ meters' \in Seq(Meters) /\ Len(meters') >= Len(meters) /\ Len(meters') \in Nat
         /\ \A n \in 1..Len(meters) : meters'[n] = meters[n]
         /\ limited => Len(meters') = Len(meters) + 1 /\ meters'[Len(meters) + 1] = fresh
    <2>1. CASE limited
      BY <1>1, <1>2, <1>3, <2>1, Appended
    <2>2. CASE ~limited
      BY <1>1, <1>2, <2>2
    <2> QED
      BY <2>1, <2>2
  <1>12. /\ \A i \in 1..k : frames[i].meter \in 1..Len(meters)
         /\ limited => meter = Len(meters) + 1
         /\ ~limited => meter = frames[k].meter
    BY <1>2 DEF SubInv, SubTypes, meter
  <1>13. \A i \in 1..k : MeterOf(i)' = MeterOf(i)
    BY <1>9, <1>11, <1>12 DEF MeterOf
  <1>14. SubTypes'
    <2>1. \A i \in 1..(k + 1) : frames'[i].meter \in 1..Len(meters')
      <3> TAKE i \in 1..(k + 1)
      <3>1. CASE i = k + 1
        BY <3>1, <1>2, <1>8, <1>9, <1>11, <1>12
      <3>2. CASE i \in 1..k
        <4>1. frames'[i] = frames[i] /\ frames[i].meter \in 1..Len(meters)
          BY <3>2, <1>9, <1>12
        <4> QED
          BY <4>1, <1>2, <1>11
      <3> QED
        BY <3>1, <3>2
    <2>2. mode' \in {"run", "error"}
      BY <1>1 DEF ModeIn, HandlerFound
    <2>3. traced' \in BOOLEAN /\ steps' \in Nat
      BY <1>1 DEF SubInv, SubTypes
    <2> QED
      BY <1>9, <1>10, <1>11, <2>1, <2>2, <2>3 DEF SubTypes
  <1>15. MetersNest'
    <2>1. frames'[1].meter = 1 /\ ~frames'[1].limited
      BY <1>9 DEF SubInv, MetersNest
    <2>2. \A i, j \in 1..(k + 1) : i <= j => frames'[i].meter <= frames'[j].meter
      <3> TAKE i, j \in 1..(k + 1)
      <3>1. \A l \in 1..k : frames[l].meter <= meter
        <4>1. \A l \in 1..k : frames[l].meter <= frames[k].meter
          BY DEF SubInv, MetersNest
        <4> QED
          BY <1>2, <1>12, <4>1
      <3>2. CASE j = k + 1
        <4>1. frames'[j].meter = meter
          BY <3>2, <1>8, <1>9
        <4>2. i \in 1..k => frames'[i].meter = frames[i].meter
          BY <1>9
        <4> QED
          BY <4>1, <4>2, <3>1, <3>2, <1>4
      <3>3. CASE j \in 1..k
        <4>1. i <= j => i \in 1..k
          BY <3>3
        <4> QED
          BY <3>3, <4>1, <1>9 DEF SubInv, MetersNest
      <3> QED
        BY <3>2, <3>3
    <2>3. \A i \in 2..(k + 1) :
              IF frames'[i].limited THEN frames'[i - 1].meter < frames'[i].meter
                                    ELSE frames'[i - 1].meter = frames'[i].meter
      <3> TAKE i \in 2..(k + 1)
      <3>1. CASE i = k + 1
        <4>1. frames'[i].meter = meter /\ frames'[i].limited = limited
              /\ frames'[i - 1] = frames[k]
          BY <3>1, <1>8, <1>9
        <4>2. frames[k].meter \in 1..Len(meters)
          BY <1>12
        <4> QED
          BY <4>1, <4>2, <1>2, <1>12
      <3>2. CASE i \in 2..k
        <4>1. i - 1 \in 1..k /\ i \in 1..k /\ i \in 2..Depth
          BY <3>2
        <4>2. frames'[i - 1] = frames[i - 1] /\ frames'[i] = frames[i]
          BY <4>1, <1>9
        <4> QED
          BY <4>1, <4>2 DEF SubInv, MetersNest
      <3> QED
        BY <3>1, <3>2
    <2> QED
      BY <2>1, <2>2, <2>3, <1>9 DEF MetersNest
  <1>16. MeterOf(k + 1)' = IF limited THEN fresh ELSE MeterOf(k)
    BY <1>8, <1>9, <1>11, <1>12 DEF MeterOf
  <1>17. LimitsNest'
    <2> SUFFICES ASSUME NEW i \in 2..(k + 1), frames'[i].limited
                 PROVE  MeterOf(i - 1)'.used + MeterOf(i)'.limit < MeterOf(i - 1)'.limit
      BY <1>9 DEF LimitsNest, MeterOf
    <2>1. CASE i = k + 1
      <3>1. limited
        BY <2>1, <1>8, <1>9
      <3>2. MeterOf(i)' = fresh /\ MeterOf(i - 1)' = MeterOf(k)
        <4>1. i - 1 = k
          BY <2>1
        <4> QED
          BY <2>1, <3>1, <4>1, <1>13, <1>16 DEF MeterOf
      <3> QED
        BY <3>1, <3>2, <1>3
    <2>2. CASE i \in 2..k
      <3>1. i - 1 \in 1..k /\ i \in 1..k /\ i \in 2..Depth /\ frames[i].limited
        BY <2>2, <1>9
      <3>2. MeterOf(i)' = MeterOf(i) /\ MeterOf(i - 1)' = MeterOf(i - 1)
        BY <3>1, <1>13
      <3> QED
        BY <3>1, <3>2 DEF SubInv, LimitsNest
    <2> QED
      BY <2>1, <2>2
  <1>18. GasLeft'
    <2>1. MeterOf(Depth)' = MeterOf(k + 1)'
      BY <1>9 DEF MeterOf
    <2>2. MeterOf(k).used <= MeterOf(k).limit
      BY <1>1 DEF SubInv, GasLeft
    <2>3. MeterOf(Depth)'.used <= MeterOf(Depth)'.limit
      BY <2>1, <2>2, <1>3, <1>16
    <2>4. mode' \in {"run", "error"}
      BY <1>1 DEF ModeIn, HandlerFound
    <2> QED
      BY <2>3, <2>4 DEF GasLeft
  <1>19. AbortsOutOfGas'
    BY <1>1 DEF AbortsOutOfGas, ModeIn, HandlerFound
  <1> QED
    BY <1>14, <1>15, <1>17, <1>18, <1>19 DEF SubInv

\* The three ways to leave a call: they differ in what is charged and in the mode.
LEMMA LeaveInv ==
    ASSUME SubInv, NEW charge \in Nat, NEW state \in {"finished", "lost"},
           Leave(state, charge), mode \in {"run", "error", "outOfGas"},
           Top.limited => charge <= meters[Top.meter].limit,
           mode' \in {"run", "error", "outOfGas"},
           Top.limited => mode' = ModeAfter(mode # "run", charge),
           ~Top.limited => (mode' = "outOfGas" <=> mode = "outOfGas")
    PROVE  /\ SubInv'
           /\ Top.limited =>
                /\ meters'[Caller.meter].used - meters[Caller.meter].used
                      <= meters[Top.meter].limit
                /\ ~OutOfGas(meters'[Caller.meter].used, meters'[Caller.meter].limit)
  <1>1. Pays <=> Top.limited
    BY DEF Pays
  <1>2. /\ Depth > 1 /\ Depth' = Depth - 1 /\ frames' \in Seq(Frames)
        /\ \A i \in 1..(Depth - 1) : frames'[i] = frames[i]
        /\ meters' \in Seq(Meters) /\ spans' \in Seq(Spans)
        /\ traced' \in BOOLEAN /\ steps' \in Nat
    BY LeaveTypes DEF SubInv
  <1>3. SubInv => SubTypes /\ MetersNest /\ LimitsNest /\ GasLeft
    BY DEF SubInv
  <1>4. AbortsOutOfGas'
    BY DEF AbortsOutOfGas
  <1> PICK k \in 1..Depth : k = Depth - 1 /\ Depth \in Nat /\ k > 0
    BY <1>2 DEF SubInv, SubTypes, Depth
  <1>5. (\A i \in 1..k : (frames[i].meter \in 1..Len(meters))') => SubTypes'
    BY <1>2 DEF SubTypes
  <1>6. CASE Top.limited
    <2>1. /\ ~Exhausts(Caller, charge)
          /\ (MetersNest /\ LimitsNest)'
          /\ \A i \in 1..k : (frames[i].meter \in 1..Len(meters))'
          /\ MeterOf(Depth)'.used <= MeterOf(Depth)'.limit
          /\ meters'[Caller.meter].used - meters[Caller.meter].used <= meters[Top.meter].limit
          /\ ~OutOfGas(meters'[Caller.meter].used, meters'[Caller.meter].limit)
      BY <1>1, <1>3, <1>6, LimitedLeft
    <2>2. mode' # "outOfGas"
      BY <1>6, <2>1 DEF ModeAfter
    <2> QED
      BY <1>4, <1>5, <2>1, <2>2 DEF SubInv, GasLeft
  <1>7. CASE ~Top.limited
    <2>1. /\ (MetersNest /\ LimitsNest)'
          /\ \A i \in 1..k : (frames[i].meter \in 1..Len(meters))'
          /\ MeterOf(Depth)' = MeterOf(Depth)
      BY <1>1, <1>3, <1>7, UnlimitedLeft
    <2>2. GasLeft'
      BY <1>3, <1>7, <2>1 DEF GasLeft
    <2> QED
      BY <1>4, <1>5, <1>7, <2>1, <2>2 DEF SubInv
  <1> QED
    BY <1>6, <1>7

\* What a call is charged for is on its meter.
LEMMA TopMeter ==
    ASSUME SubInv
    PROVE  /\ meters[Top.meter].used \in Nat /\ meters[Top.meter].limit \in Nat
           /\ mode \in {"run", "error"} => meters[Top.meter].used <= meters[Top.meter].limit
           /\ mode = "outOfGas" => OutOfGas(meters[Top.meter].used, meters[Top.meter].limit)
           /\ mode # "nilHandler"
  <1>1. Depth \in 1..Depth
    BY DEF SubInv, SubTypes, Depth
  <1>2. MeterOf(Depth) = meters[Top.meter]
    BY DEF MeterOf, Top
  <1> QED
    BY <1>1, <1>2, MetersTyped DEF SubInv, SubTypes, GasLeft, OutOfGas, Ended

\* What LimitProtects says of a step.
LimitKept ==
    Leaving /\ Top.limited =>
        /\ meters'[Caller.meter].used - meters[Caller.meter].used <= meters[Top.meter].limit
        /\ ~OutOfGas(meters'[Caller.meter].used, meters'[Caller.meter].limit)

\* Every step keeps the invariant, and the limit of the message it leaves.
LEMMA NextSubInv == SubInv /\ [Next]_vars => SubInv' /\ (LimitKept \/ UNCHANGED vars)
  <1> SUFFICES ASSUME SubInv, [Next]_vars
               PROVE  SubInv' /\ (LimitKept \/ UNCHANGED vars)
    OBVIOUS
  <1>1. ASSUME NEW amount \in Amounts, ConsumeGas(amount)
        PROVE  SubInv' /\ LimitKept
    <2>1. ~Leaving
      BY <1>1 DEF ConsumeGas, Leaving, SubInv, SubTypes
    <2> QED
      BY <1>1, <2>1, ConsumeGasInv DEF LimitKept
  <1>2. ASSUME NEW limit \in Limits \cup {NoLimit}, NEW known \in BOOLEAN,
               NEW replies \in BOOLEAN, DispatchMsg(limit, known, replies)
        PROVE  SubInv' /\ LimitKept
    <2>1. Len(frames') = Len(frames) + 1 /\ Len(frames) \in Nat
      BY <1>2 DEF DispatchMsg, SubInv, SubTypes
    <2> QED
      BY <1>2, <2>1, DispatchMsgInv DEF LimitKept, Leaving
  <1>3. ASSUME Fail PROVE SubInv' /\ LimitKept
    <2>1. UNCHANGED <<traced, meters, frames, spans, steps>> /\ mode = "run" /\ mode' = "error"
      BY <1>3 DEF Fail
    <2>2. SubTypes' /\ MetersNest' /\ LimitsNest'
      BY <2>1 DEF SubInv, SubTypes, MetersNest, LimitsNest, MeterOf, Depth
    <2>3. GasLeft' /\ AbortsOutOfGas'
      BY <2>1 DEF SubInv, GasLeft, AbortsOutOfGas, MeterOf, Depth
    <2>4. ~Leaving
      BY <2>1 DEF Leaving, SubInv, SubTypes
    <2> QED
      BY <2>2, <2>3, <2>4 DEF SubInv, LimitKept
  <1>4. ASSUME Return PROVE SubInv' /\ LimitKept
    <2> DEFINE charge == meters[Top.meter].used
    <2>1. /\ mode \in {"run", "error"} /\ Leave("finished", charge)
          /\ mode' = ModeAfter(mode = "error", charge)
      BY <1>4 DEF Return
    <2>2. charge \in Nat /\ charge <= meters[Top.meter].limit
      BY <2>1, TopMeter
    <2>3. mode' \in {"run", "error", "outOfGas"}
      BY <2>1 DEF ModeAfter
    <2>4. ~Top.limited => mode' # "outOfGas"
      BY <2>1 DEF ModeAfter, Pays
    <2> HIDE DEF charge
    <2>5. mode' = ModeAfter(mode # "run", charge)
      BY <2>1
    <2> QED
      BY <2>1, <2>2, <2>3, <2>4, <2>5, LeaveInv DEF LimitKept
  <1>5. ASSUME Recover PROVE SubInv' /\ LimitKept
    <2> DEFINE charge == meters[Top.meter].limit
    <2>1. /\ mode = "outOfGas" /\ Top.limited /\ Leave("lost", charge)
          /\ mode' = ModeAfter(TRUE, charge)
      BY <1>5 DEF Recover, Recovers
    <2>2. charge \in Nat
      BY TopMeter
    <2>3. mode' \in {"run", "error", "outOfGas"}
      BY <2>1 DEF ModeAfter
    <2>4. charge <= meters[Top.meter].limit
      BY <2>2
    <2> HIDE DEF charge
    <2>5. mode' = ModeAfter(mode # "run", charge)
      BY <2>1
    <2> QED
      BY <2>1, <2>2, <2>3, <2>4, <2>5, LeaveInv DEF LimitKept
  <1>6. ASSUME Unwind PROVE SubInv' /\ LimitKept
    <2>1. mode = "outOfGas" /\ ~Top.limited /\ Leave("lost", 0) /\ mode' = mode
      BY <1>6, TopMeter DEF Unwind, Recovers, Panics
    <2> QED
      BY <2>1, LeaveInv DEF LimitKept
  <1>7. ASSUME End PROVE SubInv' /\ LimitKept
    <2>1. /\ UNCHANGED <<traced, meters, frames, spans, steps>> /\ Depth = 1
          /\ mode' \in Ended
          /\ mode' = "aborted" => mode = "outOfGas"
      BY <1>7, TopMeter DEF End, SubInv, SubTypes, Panics, Ended
    <2>2. SubTypes' /\ MetersNest' /\ LimitsNest'
      BY <2>1 DEF SubInv, SubTypes, MetersNest, LimitsNest, MeterOf, Depth
    <2>3. GasLeft'
      BY <2>1 DEF GasLeft, Ended
    <2>4. AbortsOutOfGas'
      BY <2>1, TopMeter DEF AbortsOutOfGas, SubInv, MetersNest, Top
    <2>5. ~Leaving
      BY <2>1 DEF Leaving, Depth
    <2> QED
      BY <2>2, <2>3, <2>4, <2>5 DEF SubInv, LimitKept
  <1>8. ASSUME UNCHANGED vars PROVE SubInv'
    BY <1>8 DEF vars, SubInv, SubTypes, MetersNest, LimitsNest, GasLeft, AbortsOutOfGas,
                MeterOf, Depth
  <1> QED
    BY <1>1, <1>2, <1>3, <1>4, <1>5, <1>6, <1>7, <1>8 DEF Next, Terminated

-----------------------------------------------------------------------------
(* What the entries of a span explain *)

\* Every running call of a traced transaction has an open span, and no other span
\* is open.
SpansOfFrames ==
    /\ \A i \in 1..Depth : frames[i].span # 0 =>
          /\ frames[i].span \in 1..Len(spans)
          /\ spans[frames[i].span].meter = frames[i].meter
          /\ spans[frames[i].span].state = "open"
    /\ \A i, j \in 1..Depth : i # j /\ frames[i].span # 0 => frames[i].span # frames[j].span
    /\ \A s \in 1..Len(spans) :
          spans[s].state = "open" => \E i \in 1..Depth : frames[i].span = s

\* The decorators around the meter of a call are those of the calls on that meter.
LayersOfMeter ==
    \A i \in 1..Depth :
        frames[i].layers =
            {s \in 1..Len(spans) :
                \E j \in 1..i : frames[j].span = s /\ frames[j].meter = frames[i].meter}

NoneUntraced == ~traced => Len(spans) = 0

ExplainInv == SubInv /\ SpansOfFrames /\ LayersOfMeter /\ NoneUntraced /\ GasExplained

\* gas.go:53: an entry that starts at what the meter says continues the trace.
LEMMA TraceExtended ==
    ASSUME NEW span \in Spans, NEW used \in Nat, NEW amount \in Nat,
           Chained(span), TracedUpTo(span) = used,
           NEW ext, ext = [span EXCEPT !.trace = Append(@, ConsumeGasTrace(amount, used))]
    PROVE  Chained(ext) /\ TracedUpTo(ext) = used + amount
  <1> DEFINE entry == ConsumeGasTrace(amount, used)
             n == Len(span.trace)
  <1>1. entry.offset = used /\ entry.gas = amount /\ entry \in GasTraces
    BY DEF ConsumeGasTrace, NewGasTrace, GasTraces
  <1>2. span.trace \in Seq(GasTraces) /\ n \in Nat
    BY DEF Spans
  <1>3. ext.trace = Append(span.trace, entry) /\ ext.start = span.start
    BY DEF Spans
  <1> HIDE DEF entry
  <1>4. /\ ext.trace \in Seq(GasTraces) /\ Len(ext.trace) = n + 1 /\ ext.trace[n + 1] = entry
        /\ \A i \in 1..n : ext.trace[i] = span.trace[i]
    BY <1>1, <1>2, <1>3, Appended
  <1>5. TracedUpTo(ext) = used + amount
    BY <1>1, <1>2, <1>4 DEF TracedUpTo
  <1>6. \A i \in 1..(n + 1) :
            ext.trace[i].offset =
                IF i = 1 THEN ext.start ELSE ext.trace[i - 1].offset + ext.trace[i - 1].gas
    <2> TAKE i \in 1..(n + 1)
    <2>1. CASE i = n + 1 /\ n = 0
      BY <1>1, <1>3, <1>4, <2>1 DEF TracedUpTo
    <2>2. CASE i = n + 1 /\ n # 0
      <3>1. i - 1 = n /\ n \in 1..n
        BY <1>2, <2>2
      <3>2. ext.trace[i - 1] = span.trace[n]
        BY <1>4, <3>1
      <3> QED
        BY <1>1, <1>2, <1>4, <2>2, <3>2 DEF TracedUpTo
    <2>3. CASE i \in 1..n
      <3>1. i # 1 => i - 1 \in 1..n
        BY <1>2, <2>3
      <3>2. ext.trace[i] = span.trace[i] /\ (i # 1 => ext.trace[i - 1] = span.trace[i - 1])
        BY <1>4, <2>3, <3>1
      <3>3. DOMAIN span.trace = 1..n
        BY <1>2
      <3> QED
        BY <1>3, <2>3, <3>2, <3>3 DEF Chained
    <2> QED
      BY <1>2, <2>1, <2>2, <2>3
  <1>7. Chained(ext)
    <2>1. DOMAIN ext.trace = 1..(n + 1)
      BY <1>4
    <2> QED
      BY <1>6, <2>1 DEF Chained
  <1> QED
    BY <1>5, <1>7

LEMMA SameTrace ==
    ASSUME NEW a, NEW b, a.trace = b.trace, a.start = b.start
    PROVE  (Chained(a) <=> Chained(b)) /\ TracedUpTo(a) = TracedUpTo(b)
  BY DEF Chained, TracedUpTo

\* What a charge to frame k does to a span: those of the calls on its meter, up to
\* this one, have an entry for it; those of other calls are on other meters.
LEMMA RecordedExplains ==
    ASSUME ExplainInv, NEW k \in 1..Depth, NEW amount \in Nat, NEW s \in 1..Len(spans),
           NEW r, r = Recorded(frames[k], amount)[s]
    PROVE  /\ r \in Spans /\ r.meter = spans[s].meter /\ r.state = spans[s].state
           /\ Chained(r)
           /\ \A i \in 1..k : frames[i].span = s =>
                 TracedUpTo(r) = Charged(frames[k], amount)[r.meter].used
  <1> DEFINE m == frames[k].meter
             ext == [spans[s] EXCEPT !.trace = Append(@, ConsumeGasTrace(amount, meters[m].used))]
  <1>1. /\ Depth \in Nat /\ spans \in Seq(Spans) /\ spans[s] \in Spans /\ DOMAIN spans = 1..Len(spans)
        /\ m \in 1..Len(meters) /\ meters[m].used \in Nat
        /\ \A i \in 1..Depth : frames[i].meter \in 1..Len(meters)
    BY MetersTyped DEF ExplainInv, SubInv, SubTypes, Depth, MeterOf
  <1>2. Chained(spans[s]) /\ (spans[s].state = "open" => TracedUpTo(spans[s]) = meters[spans[s].meter].used)
    BY <1>1 DEF ExplainInv, GasExplained
  <1>3. r = IF s \in frames[k].layers THEN ext ELSE spans[s]
    BY <1>1 DEF Recorded
  <1>4. /\ Charged(frames[k], amount)[m].used = meters[m].used + amount
        /\ \A n \in 1..Len(meters) : n # m => Charged(frames[k], amount)[n] = meters[n]
    <2>1. SubTypes
      BY DEF ExplainInv, SubInv
    <2>2. Charged(frames[k], amount)[m] =
              [limit |-> meters[m].limit, used |-> meters[m].used + amount]
      BY <2>1, ChargedMeters
    <2> QED
      BY <2>1, <2>2, ChargedMeters
  <1>5. CASE s \in frames[k].layers
    <2>1. PICK j \in 1..k : frames[j].span = s /\ frames[j].meter = m
      BY <1>5 DEF ExplainInv, LayersOfMeter
    <2>2. j \in 1..Depth /\ frames[j].span # 0
      BY <1>1, <2>1
    <2>3. spans[s].meter = m /\ spans[s].state = "open"
      BY <2>1, <2>2 DEF ExplainInv, SpansOfFrames
    <2>4. TracedUpTo(spans[s]) = meters[m].used
      BY <1>2, <2>3
    <2>5. r = ext
      BY <1>3, <1>5
    <2>6. Chained(r) /\ TracedUpTo(r) = meters[m].used + amount
      BY <1>1, <1>2, <2>4, <2>5, TraceExtended, SMTT(40)
    <2>7. ext \in Spans /\ ext.meter = spans[s].meter /\ ext.state = spans[s].state
      <3>1. Append(spans[s].trace, ConsumeGasTrace(amount, meters[m].used)) \in Seq(GasTraces)
        BY <1>1 DEF Spans, ConsumeGasTrace, NewGasTrace, GasTraces
      <3> QED
        BY <1>1, <3>1 DEF Spans
    <2> QED
      BY <1>4, <2>3, <2>5, <2>6, <2>7
  <1>6. CASE s \notin frames[k].layers
    <2>1. r = spans[s]
      BY <1>3, <1>6
    <2>2. ASSUME NEW i \in 1..k, frames[i].span = s
          PROVE  TracedUpTo(r) = Charged(frames[k], amount)[r.meter].used
      <3>1. i \in 1..Depth /\ frames[i].span # 0
        BY <1>1, <2>2
      <3>2. spans[s].meter = frames[i].meter /\ spans[s].state = "open"
        BY <2>2, <3>1 DEF ExplainInv, SpansOfFrames
      <3>3. frames[i].meter # m
        BY <1>6, <2>2 DEF ExplainInv, LayersOfMeter
      <3> QED
        BY <1>1, <1>2, <1>4, <2>1, <3>1, <3>2, <3>3
    <2> QED
      BY <1>1, <1>2, <2>1, <2>2
  <1> QED
    BY <1>5, <1>6

\* Frames above k are left, if there are any, and their spans closed; the others
\* explain the meters as they are now.
LEMMA ExplainedAfter ==
    ASSUME ExplainInv, SubInv', NEW k \in 1..Depth,
           Depth' = k, \A i \in 1..k : frames'[i] = frames[i],
           Len(spans') = Len(spans), traced' = traced,
           \A s \in 1..Len(spans) :
               /\ Chained(spans'[s]) /\ spans'[s].meter = spans[s].meter
               /\ spans'[s].state = "open" =>
                     /\ spans[s].state = "open"
                     /\ \A i \in 1..Depth : i > k => frames[i].span # s
               /\ \A i \in 1..k : frames[i].span = s =>
                     /\ spans'[s].state = spans[s].state
                     /\ TracedUpTo(spans'[s]) = meters'[spans'[s].meter].used
    PROVE  ExplainInv'
  <1>1. Depth \in Nat /\ \A i \in 1..k : i \in 1..Depth
    BY DEF ExplainInv, SubInv, SubTypes, Depth
  <1>2. \A s \in 1..Len(spans) :
            spans'[s].state = "open" => \E i \in 1..k : frames[i].span = s
    <2> SUFFICES ASSUME NEW s \in 1..Len(spans), spans'[s].state = "open"
                 PROVE  \E i \in 1..k : frames[i].span = s
      OBVIOUS
    <2>1. PICK i \in 1..Depth : frames[i].span = s
      BY DEF ExplainInv, SpansOfFrames
    <2>2. ~(i > k)
      BY <2>1
    <2> QED
      BY <1>1, <2>1, <2>2
  <1>3. SpansOfFrames'
    <2>1. ASSUME NEW i \in 1..k, frames'[i].span # 0
          PROVE  /\ frames'[i].span \in 1..Len(spans')
                 /\ spans'[frames'[i].span].meter = frames'[i].meter
                 /\ spans'[frames'[i].span].state = "open"
      BY <1>1, <2>1 DEF ExplainInv, SpansOfFrames
    <2>2. \A i, j \in 1..k : i # j /\ frames'[i].span # 0 => frames'[i].span # frames'[j].span
      BY <1>1 DEF ExplainInv, SpansOfFrames
    <2>3. \A s \in 1..Len(spans') :
              spans'[s].state = "open" => \E i \in 1..k : frames'[i].span = s
      BY <1>2
    <2> QED
      BY <2>1, <2>2, <2>3 DEF SpansOfFrames
  <1>4. LayersOfMeter'
    <2> SUFFICES ASSUME NEW i \in 1..k
                 PROVE  frames[i].layers =
                            {s \in 1..Len(spans) :
                                \E j \in 1..i : /\ frames'[j].span = s
                                                /\ frames'[j].meter = frames[i].meter}
      BY DEF LayersOfMeter
    <2>1. \A j \in 1..i : j \in 1..k /\ frames'[j] = frames[j]
      BY <1>1
    <2>2. frames[i].layers =
            {s \in 1..Len(spans) :
                \E j \in 1..i : frames[j].span = s /\ frames[j].meter = frames[i].meter}
      BY <1>1 DEF ExplainInv, LayersOfMeter
    <2> QED
      BY <2>1, <2>2
  <1>5. GasExplained'
    <2>1. DOMAIN spans' = 1..Len(spans)
      BY DEF SubInv, SubTypes
    <2>2. \A s \in 1..Len(spans) :
            /\ Chained(spans'[s])
            /\ spans'[s].state = "open" => TracedUpTo(spans'[s]) = meters'[spans'[s].meter].used
      BY <1>2
    <2> QED
      BY <2>1, <2>2 DEF GasExplained, Chained, TracedUpTo
  <1>6. NoneUntraced'
    BY DEF ExplainInv, NoneUntraced
  <1> QED
    BY <1>3, <1>4, <1>5, <1>6 DEF ExplainInv

\* Leaving a call charges its caller, if it does, and closes the span of the call.
LEMMA LeaveExplains ==
    ASSUME ExplainInv, SubInv', NEW charge \in Nat, NEW state \in {"finished", "lost"},
           Leave(state, charge)
    PROVE  ExplainInv'
  <1> DEFINE k == Depth - 1
             recorded == IF Pays THEN Recorded(Caller, charge) ELSE spans
  <1>1. /\ Depth > 1 /\ Depth' = k /\ Depth \in Nat /\ k \in 1..Depth
        /\ \A i \in 1..k : frames'[i] = frames[i]
        /\ meters' = IF Pays THEN Charged(frames[k], charge) ELSE meters
    <2>1. SubTypes /\ Depth \in Nat
      BY DEF ExplainInv, SubInv, SubTypes, Depth
    <2>2. /\ Depth > 1 /\ Depth' = k
          /\ \A i \in 1..k : frames'[i] = frames[i]
          /\ meters' = IF Pays THEN Charged(frames[k], charge) ELSE meters
      BY <2>1, LeaveTypes
    <2> QED
      BY <2>1, <2>2
  <1>2. spans \in Seq(Spans) /\ DOMAIN spans = 1..Len(spans)
    BY DEF ExplainInv, SubInv, SubTypes
  <1>3. ASSUME NEW s \in 1..Len(spans)
        PROVE  /\ recorded[s] \in Spans /\ recorded[s].meter = spans[s].meter
               /\ recorded[s].state = spans[s].state /\ Chained(recorded[s])
               /\ \A i \in 1..k : frames[i].span = s =>
                     TracedUpTo(recorded[s]) = meters'[recorded[s].meter].used
    <2>1. CASE Pays
      BY <1>1, <2>1, RecordedExplains DEF Caller
    <2>2. CASE ~Pays
      <3>1. recorded[s] = spans[s] /\ spans[s] \in Spans /\ meters' = meters
        BY <1>1, <1>2, <2>2
      <3>2. \A i \in 1..k : frames[i].span = s => spans[s].state = "open"
        BY <1>1 DEF ExplainInv, SpansOfFrames
      <3> QED
        BY <1>2, <3>1, <3>2 DEF ExplainInv, GasExplained
    <2> QED
      BY <2>1, <2>2
  <1>4. \A s \in 1..Len(spans) :
            spans'[s] = IF s = Top.span THEN [recorded[s] EXCEPT !.state = state] ELSE recorded[s]
    BY <1>2 DEF Leave
  <1>5. Len(spans') = Len(spans) /\ traced' = traced
    BY <1>2 DEF Leave
  <1> HIDE DEF recorded
  <1>6. ASSUME NEW s \in 1..Len(spans)
        PROVE  /\ Chained(spans'[s]) /\ spans'[s].meter = spans[s].meter
               /\ TracedUpTo(spans'[s]) = TracedUpTo(recorded[s])
               /\ spans'[s].state = IF s = Top.span THEN state ELSE spans[s].state
    <2>1. /\ spans'[s].trace = recorded[s].trace /\ spans'[s].start = recorded[s].start
          /\ spans'[s].meter = recorded[s].meter
          /\ spans'[s].state = IF s = Top.span THEN state ELSE recorded[s].state
      BY <1>3, <1>4 DEF Spans
    <2>2. /\ Chained(spans'[s]) <=> Chained(recorded[s])
          /\ TracedUpTo(spans'[s]) = TracedUpTo(recorded[s])
      BY <2>1, SameTrace
    <2> QED
      BY <1>3, <2>1, <2>2
  <1>7. ASSUME NEW s \in 1..Len(spans), spans'[s].state = "open"
        PROVE  spans[s].state = "open" /\ \A i \in 1..Depth : i > k => frames[i].span # s
    <2>1. s # Top.span /\ spans[s].state = "open"
      BY <1>6, <1>7
    <2> QED
      BY <1>1, <2>1 DEF Top
  <1>8. ASSUME NEW s \in 1..Len(spans), NEW i \in 1..k, frames[i].span = s
        PROVE  /\ spans'[s].state = spans[s].state
               /\ TracedUpTo(spans'[s]) = meters'[spans'[s].meter].used
    <2>1. i \in 1..Depth /\ i # Depth /\ Depth \in 1..Depth /\ frames[i].span # 0
      BY <1>1, <1>8
    <2>2. s # Top.span
      BY <1>8, <2>1 DEF ExplainInv, SpansOfFrames, Top
    <2>3. TracedUpTo(recorded[s]) = meters'[recorded[s].meter].used
      BY <1>3, <1>8
    <2> QED
      BY <1>3, <1>6, <2>2, <2>3
  <1> HIDE DEF k
  <1>9. \A s \in 1..Len(spans) :
            /\ Chained(spans'[s]) /\ spans'[s].meter = spans[s].meter
            /\ spans'[s].state = "open" =>
                  /\ spans[s].state = "open"
                  /\ \A i \in 1..Depth : i > k => frames[i].span # s
            /\ \A i \in 1..k : frames[i].span = s =>
                  /\ spans'[s].state = spans[s].state
                  /\ TracedUpTo(spans'[s]) = meters'[spans'[s].meter].used
    BY <1>6, <1>7, <1>8
  <1> QED
    BY <1>1, <1>5, <1>9, ExplainedAfter

\* A message starts with an empty trace, at what its meter has consumed so far.
LEMMA DispatchMsgExplains ==
    ASSUME ExplainInv, SubInv', NEW limit \in Limits \cup {NoLimit}, NEW known \in BOOLEAN,
           NEW replies \in BOOLEAN, DispatchMsg(limit, known, replies)
    PROVE  ExplainInv'
  <1> PICK k \in 1..Depth : k = Depth /\ Depth \in Nat
    BY DEF ExplainInv, SubInv, SubTypes, Depth
  <1> DEFINE limited == limit # NoLimit /\ limit < Remaining(Top)
             meter == IF limited THEN Len(meters) + 1 ELSE Top.meter
             around == IF limited THEN {} ELSE Top.layers
             span == Len(spans) + 1
             fresh == [limit |-> limit, used |-> 0]
             started == [meter |-> meter, start |-> IF limited THEN 0 ELSE meters[meter].used,
                         trace |-> <<>>, state |-> "open"]
             frame == [meter |-> meter, limited |-> limited, replies |-> replies,
                       layers |-> IF traced THEN Layers(around, span) ELSE {},
                       span |-> IF traced THEN span ELSE 0]
  <1>1. /\ meters' = IF limited THEN Append(meters, fresh) ELSE meters
        /\ spans' = IF traced THEN Append(spans, started) ELSE spans
        /\ frames' = Append(frames, frame)
    BY DEF DispatchMsg
  <1>2. /\ meters \in Seq(Meters) /\ spans \in Seq(Spans) /\ frames \in Seq(Frames)
        /\ Len(meters) \in Nat /\ Len(spans) \in Nat /\ DOMAIN spans = 1..Len(spans)
        /\ frames[k] = Top /\ Top.meter \in 1..Len(meters)
        /\ \A i \in 1..k : frames[i].meter \in 1..Len(meters)
        /\ \A s \in 1..Len(spans) : spans[s] \in Spans
    BY DEF ExplainInv, SubInv, SubTypes, Top
  <1>3. /\ frame.meter = meter /\ frame.span = (IF traced THEN span ELSE 0)
        /\ frame.layers = (IF traced THEN Layers(around, span) ELSE {})
        /\ started.meter = meter /\ started.trace = <<>> /\ started.state = "open"
        /\ started.start = IF limited THEN 0 ELSE meters[meter].used
    OBVIOUS
  <1>4. limited \in BOOLEAN /\ fresh.used = 0
    OBVIOUS
  <1>5. /\ limited => meter = Len(meters) + 1 /\ around = {}
        /\ ~limited => meter = frames[k].meter /\ around = frames[k].layers
    BY <1>2
  <1> HIDE DEF limited, frame, started, fresh, meter, around
  <1>6. /\ Depth' = k + 1 /\ frames'[k + 1] = frame
        /\ \A i \in 1..k : frames'[i] = frames[i]
    BY <1>1, <1>2 DEF Depth
  <1>7. /\ \A n \in 1..Len(meters) : meters'[n] = meters[n]
        /\ limited => meters'[Len(meters) + 1] = fresh
    BY <1>1, <1>2
  <1>8. /\ \A s \in 1..Len(spans) : spans'[s] = spans[s]
        /\ traced => Len(spans') = Len(spans) + 1 /\ spans'[span] = started
        /\ ~traced => spans' = spans
    <2>1. CASE traced
      <3>1. spans' = Append(spans, started)
        BY <1>1, <2>1
      <3> QED
        BY <1>2, <2>1, <3>1
    <2>2. CASE ~traced
      BY <1>1, <2>2
    <2> QED
      BY <2>1, <2>2
  <1>9. Len(spans') >= Len(spans) /\ Len(spans') \in Nat /\ DOMAIN spans' = 1..Len(spans')
    BY <1>2, <1>8 DEF SubInv, SubTypes
  <1>10. traced \in BOOLEAN /\ \A i \in 1..(k + 1) : i \in 1..k \/ i = k + 1
    BY DEF ExplainInv, SubInv, SubTypes
  <1>11. \A s \in 1..Len(spans') : s \in 1..Len(spans) \/ (traced /\ s = span)
    BY <1>2, <1>8, <1>10
  <1>12. \A i \in 1..k : frames[i].span \in Nat /\ (frames[i].span # 0 => frames[i].span \in 1..Len(spans))
    BY <1>2 DEF ExplainInv, SpansOfFrames, Frames
  <1>13. SpansOfFrames'
    <2>1. \A i \in 1..(k + 1) : frames'[i].span # 0 =>
              /\ frames'[i].span \in 1..Len(spans')
              /\ spans'[frames'[i].span].meter = frames'[i].meter
              /\ spans'[frames'[i].span].state = "open"
      <3> SUFFICES ASSUME NEW i \in 1..(k + 1), frames'[i].span # 0
                   PROVE  /\ frames'[i].span \in 1..Len(spans')
                          /\ spans'[frames'[i].span].meter = frames'[i].meter
                          /\ spans'[frames'[i].span].state = "open"
        OBVIOUS
      <3>1. CASE i \in 1..k
        <4>1. frames'[i] = frames[i] /\ frames[i].span \in 1..Len(spans)
          BY <1>6, <1>12, <3>1
        <4>2. frames[i].span # 0 /\ spans'[frames[i].span] = spans[frames[i].span]
          BY <1>2, <1>8, <4>1
        <4>3. /\ spans[frames[i].span].meter = frames[i].meter
              /\ spans[frames[i].span].state = "open"
          BY <3>1, <4>2 DEF ExplainInv, SpansOfFrames
        <4> QED
          BY <1>2, <1>9, <4>1, <4>2, <4>3
      <3>2. CASE i = k + 1
        <4>1. traced /\ frames'[i].span = span
          BY <1>3, <1>6, <3>2
        <4> QED
          BY <1>2, <1>3, <1>6, <1>8, <3>2, <4>1
      <3> QED
        BY <1>10, <3>1, <3>2
    <2>2. \A i, j \in 1..(k + 1) : i # j /\ frames'[i].span # 0 => frames'[i].span # frames'[j].span
      <3>1. \A i, j \in 1..k : i # j /\ frames'[i].span # 0 => frames'[i].span # frames'[j].span
        BY <1>6 DEF ExplainInv, SpansOfFrames
      <3>2. \A i \in 1..k : frames'[i].span # span
        BY <1>2, <1>6, <1>12
      <3>3. frames'[k + 1].span = span \/ frames'[k + 1].span = 0
        BY <1>3, <1>6
      <3> QED
        BY <1>10, <3>1, <3>2, <3>3
    <2>3. ASSUME NEW s \in 1..Len(spans'), spans'[s].state = "open"
          PROVE  \E i \in 1..(k + 1) : frames'[i].span = s
      <3>1. CASE s \in 1..Len(spans)
        <4>1. PICK i \in 1..k : frames[i].span = s
          BY <1>8, <2>3, <3>1 DEF ExplainInv, SpansOfFrames
        <4> QED
          BY <1>6, <4>1
      <3>2. CASE traced /\ s = span
        BY <1>3, <1>6, <3>2
      <3> QED
        BY <1>11, <3>1, <3>2
    <2> QED
      BY <1>6, <2>1, <2>2, <2>3 DEF SpansOfFrames
  <1>14. LayersOfMeter'
    <2>1. ASSUME NEW i \in 1..k
          PROVE  frames[i].layers =
                    {s \in 1..Len(spans') :
                        \E j \in 1..i : frames'[j].span = s /\ frames'[j].meter = frames[i].meter}
      <3>1. \A j \in 1..i : /\ j \in 1..k /\ frames'[j] = frames[j]
                            /\ frames[j].span \in 1..Len(spans') => frames[j].span \in 1..Len(spans)
        BY <1>6, <1>12
      <3>2. frames[i].layers =
              {s \in 1..Len(spans) :
                  \E j \in 1..i : frames[j].span = s /\ frames[j].meter = frames[i].meter}
        BY DEF ExplainInv, LayersOfMeter
      <3>3. \A s \in 1..Len(spans) : s \in 1..Len(spans')
        BY <1>2, <1>9
      <3> QED
        BY <3>1, <3>2, <3>3
    <2>2. frame.layers =
              {s \in 1..Len(spans') :
                  \E j \in 1..(k + 1) : frames'[j].span = s /\ frames'[j].meter = meter}
      <3>1. CASE ~traced
        <4>1. frame.layers = {} /\ Len(spans') = 0
          BY <1>3, <1>8, <3>1 DEF ExplainInv, NoneUntraced
        <4> QED
          BY <4>1
      <3>2. CASE traced
        <4>1. frame.layers = around \cup {span} /\ frame.span = span
          BY <1>3, <3>2 DEF Layers
        <4>2. around = {s \in 1..Len(spans) :
                            \E j \in 1..k : frames[j].span = s /\ frames[j].meter = meter}
          <5>1. CASE limited
            BY <1>2, <1>5, <5>1
          <5>2. CASE ~limited
            BY <1>5, <5>2 DEF ExplainInv, LayersOfMeter
          <5> QED
            BY <1>4, <5>1, <5>2
        <4>3. ASSUME NEW s \in 1..Len(spans'), NEW j \in 1..(k + 1), frames'[j].span = s,
                     frames'[j].meter = meter
              PROVE  s \in around \cup {span}
          <5>1. CASE j = k + 1
            BY <1>6, <4>1, <4>3, <5>1
          <5>2. CASE j \in 1..k
            <6>1. frames[j].span = s /\ frames[j].meter = meter /\ s # 0
              BY <1>6, <4>3, <5>2
            <6>2. s \in 1..Len(spans)
              BY <1>12, <5>2, <6>1
            <6> QED
              BY <4>2, <5>2, <6>1, <6>2
          <5> QED
            BY <1>10, <5>1, <5>2
        <4>4. ASSUME NEW s \in around
              PROVE  /\ s \in 1..Len(spans')
                     /\ \E j \in 1..(k + 1) : frames'[j].span = s /\ frames'[j].meter = meter
          <5>1. s \in 1..Len(spans)
            BY <4>2
          <5>2. PICK j \in 1..k : frames[j].span = s /\ frames[j].meter = meter
            BY <4>2
          <5>3. frames'[j] = frames[j] /\ j \in 1..(k + 1)
            BY <1>6
          <5> QED
            BY <1>2, <1>9, <5>1, <5>2, <5>3
        <4>5. /\ span \in 1..Len(spans')
              /\ \E j \in 1..(k + 1) : frames'[j].span = span /\ frames'[j].meter = meter
          <5>1. frames'[k + 1].span = span /\ frames'[k + 1].meter = meter
            BY <1>3, <1>6, <4>1
          <5>2. span \in 1..Len(spans') /\ k + 1 \in 1..(k + 1)
            BY <1>2, <1>8, <3>2
          <5> QED
            BY <5>1, <5>2
        <4> HIDE DEF span
        <4> QED
          BY <4>1, <4>3, <4>4, <4>5
      <3> QED
        BY <1>10, <3>1, <3>2
    <2>3. ASSUME NEW i \in 1..(k + 1)
          PROVE  frames'[i].layers =
                    {s \in 1..Len(spans') :
                        \E j \in 1..i : frames'[j].span = s /\ frames'[j].meter = frames'[i].meter}
      <3>1. CASE i \in 1..k
        BY <1>6, <2>1, <3>1
      <3>2. CASE i = k + 1
        BY <1>3, <1>6, <2>2, <3>2
      <3> QED
        BY <1>10, <3>1, <3>2
    <2> QED
      BY <1>6, <2>3 DEF LayersOfMeter
  <1>15. NoneUntraced'
    BY <1>8 DEF ExplainInv, NoneUntraced, DispatchMsg
  <1>16. GasExplained'
    <2> SUFFICES ASSUME NEW s \in 1..Len(spans')
                 PROVE  /\ Chained(spans'[s])
                        /\ spans'[s].state = "open" =>
                              TracedUpTo(spans'[s]) = meters'[spans'[s].meter].used
      BY <1>9 DEF GasExplained, Chained, TracedUpTo
    <2>1. CASE s \in 1..Len(spans)
      <3>1. Chained(spans[s]) /\ (spans[s].state = "open" => TracedUpTo(spans[s]) = meters[spans[s].meter].used)
        BY <1>2, <2>1 DEF ExplainInv, GasExplained
      <3>2. spans[s].state = "open" => spans[s].meter \in 1..Len(meters)
        <4> SUFFICES ASSUME spans[s].state = "open" PROVE spans[s].meter \in 1..Len(meters)
          OBVIOUS
        <4>1. PICK i \in 1..k : frames[i].span = s
          BY <2>1 DEF ExplainInv, SpansOfFrames
        <4>2. spans[s].meter = frames[i].meter
          BY <2>1, <4>1 DEF ExplainInv, SpansOfFrames
        <4> QED
          BY <1>2, <4>2
      <3>3. spans'[s] = spans[s]
        BY <1>8, <2>1
      <3> QED
        BY <1>7, <3>1, <3>2, <3>3
    <2>2. CASE traced /\ s = span
      <3>1. spans'[s] = started
        BY <1>8, <2>2
      <3>2. Chained(started) /\ TracedUpTo(started) = started.start
        BY <1>3 DEF Chained, TracedUpTo
      <3>3. meters'[meter].used = started.start
        BY <1>2, <1>3, <1>4, <1>5, <1>7
      <3> QED
        BY <1>3, <3>1, <3>2, <3>3
    <2> QED
      BY <1>11, <2>1, <2>2
  <1> QED
    BY <1>13, <1>14, <1>15, <1>16 DEF ExplainInv

\* Nothing is explained and nothing is to explain at the start.
LEMMA InitExplainInv == Init => ExplainInv
  <1> SUFFICES ASSUME Init PROVE ExplainInv
    OBVIOUS
  <1>1. SubInv
    BY InitSubInv
  <1>2. Len(spans) = 0 /\ Depth = 1 /\ DOMAIN spans = {}
    BY DEF Init, Depth
  <1>3. frames[1].span = 0 /\ frames[1].layers = {}
    BY DEF Init
  <1>4. SpansOfFrames /\ LayersOfMeter
    BY <1>2, <1>3 DEF SpansOfFrames, LayersOfMeter
  <1>5. NoneUntraced /\ GasExplained
    BY <1>2 DEF NoneUntraced, GasExplained
  <1> QED
    BY <1>1, <1>4, <1>5 DEF ExplainInv

LEMMA NextExplainInv == ExplainInv /\ [Next]_vars => ExplainInv'
  <1> SUFFICES ASSUME ExplainInv, [Next]_vars PROVE ExplainInv'
    OBVIOUS
  <1>0. SubInv /\ SubInv'
    BY NextSubInv DEF ExplainInv
  <1>1. ASSUME NEW amount \in Amounts, ConsumeGas(amount)
        PROVE  ExplainInv'
    <2>1. amount \in Nat
      BY SubMessagesAssumption
    <2> PICK k \in 1..Depth : k = Depth
      BY <1>0 DEF SubInv, SubTypes, Depth
    <2>2. /\ Depth' = k /\ \A i \in 1..k : frames'[i] = frames[i]
          /\ traced' = traced
          /\ spans' = Recorded(frames[k], amount) /\ meters' = Charged(frames[k], amount)
      BY <1>1 DEF ConsumeGas, Depth, Top
    <2>3. Len(spans') = Len(spans)
      BY <1>0, <2>2 DEF SubInv, SubTypes, Recorded
    <2>4. ASSUME NEW s \in 1..Len(spans)
          PROVE  /\ Chained(spans'[s]) /\ spans'[s].meter = spans[s].meter
                 /\ spans'[s].state = spans[s].state
                 /\ \A i \in 1..k : frames[i].span = s =>
                       TracedUpTo(spans'[s]) = meters'[spans'[s].meter].used
      BY <2>1, <2>2, RecordedExplains
    <2>5. \A i \in 1..Depth : ~(i > k)
      BY <1>0 DEF SubInv, SubTypes, Depth
    <2>6. \A s \in 1..Len(spans) :
              /\ Chained(spans'[s]) /\ spans'[s].meter = spans[s].meter
              /\ spans'[s].state = "open" =>
                    /\ spans[s].state = "open"
                    /\ \A i \in 1..Depth : i > k => frames[i].span # s
              /\ \A i \in 1..k : frames[i].span = s =>
                    /\ spans'[s].state = spans[s].state
                    /\ TracedUpTo(spans'[s]) = meters'[spans'[s].meter].used
      BY <2>4, <2>5
    <2> QED
      BY <1>0, <2>2, <2>3, <2>6, ExplainedAfter
  <1>2. ASSUME NEW limit \in Limits \cup {NoLimit}, NEW known \in BOOLEAN,
               NEW replies \in BOOLEAN, DispatchMsg(limit, known, replies)
        PROVE  ExplainInv'
    BY <1>0, <1>2, DispatchMsgExplains
  <1>3. ASSUME Return \/ Recover \/ Unwind
        PROVE  ExplainInv'
    <2>1. PICK charge \in Nat, state \in {"finished", "lost"} : Leave(state, charge)
      BY <1>0, <1>3, TopMeter DEF Return, Recover, Unwind
    <2> QED
      BY <1>0, <2>1, LeaveExplains
  <1>4. ASSUME UNCHANGED <<traced, meters, frames, spans>>
        PROVE  ExplainInv'
    BY <1>0, <1>4 DEF ExplainInv, SpansOfFrames, LayersOfMeter, NoneUntraced, GasExplained,
                      Chained, TracedUpTo, Depth
  <1> QED
    BY <1>1, <1>2, <1>3, <1>4 DEF Next, Fail, End, Terminated, vars

-----------------------------------------------------------------------------
(* Theorems *)

\* The invariant of the specification.
LEMMA SubInvHolds == Spec => []SubInv
  <1> QED
    BY InitSubInv, NextSubInv, PTL DEF Spec

\* For every program and every gas limit, of the transaction and of messages: a
\* transaction panics only when its own gas is gone.
THEOREM OnlyGasAborts == Spec => []AbortsOutOfGas
  <1>1. SubInv => AbortsOutOfGas
    BY DEF SubInv
  <1> QED
    BY <1>1, SubInvHolds, PTL

\* For every program and every gas limit: a limited message costs its caller no
\* more than its limit, and never makes him run out of gas.
THEOREM LimitsProtect == Spec => LimitProtects
  <1>1. SubInv /\ [Next]_vars => [LimitKept]_vars
    BY NextSubInv
  <1>2. Spec => [][LimitKept]_vars
    BY <1>1, SubInvHolds, PTL DEF Spec
  <1> QED
    BY <1>2 DEF LimitProtects, LimitKept

\* For every program and every gas limit: the entries of a span are a chain from what
\* its meter had consumed at its start, and account for all that was consumed since.
THEOREM GasIsExplained == Spec => []GasExplained
  <1>1. ExplainInv => GasExplained
    BY DEF ExplainInv
  <1> QED
    BY <1>1, InitExplainInv, NextExplainInv, PTL DEF Spec
=============================================================================
