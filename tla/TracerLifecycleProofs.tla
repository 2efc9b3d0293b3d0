------------------------- MODULE TracerLifecycleProofs -------------------------
(***************************************************************************)
(* Proofs about the start command and the reporter of its tracer, for any  *)
(* sizes of the queue and of packets and any number of spans: no span is   *)
(* reported twice or forgotten, a command that succeeded has closed its    *)
(* tracer, one that failed loses what a packet and the queue hold, and     *)
(* spans are too big only for the reasons that OnlyBatchesTooBig names.    *)
(***************************************************************************)
EXTENDS TracerLifecycle, FiniteSetTheorems, SequenceTheorems, TLAPS

-----------------------------------------------------------------------------
(* Ascending sequences *)

Ids(s) == {s[i] : i \in 1..Len(s)}

Ascending(s) == \A i, j \in 1..Len(s) : i < j => s[i] < s[j]

Before(s, t) == \A i \in 1..Len(s), j \in 1..Len(t) : s[i] < t[j]

LEMMA Concatenated ==
    ASSUME NEW s \in Seq(Nat), NEW t \in Seq(Nat)
    PROVE  /\ s \o t \in Seq(Nat)
           /\ Ids(s \o t) = Ids(s) \cup Ids(t)
           /\ Ascending(s) /\ Ascending(t) /\ Before(s, t) => Ascending(s \o t)
           /\ \A u \in Seq(Nat) : Before(s, u) /\ Before(t, u) => Before(s \o t, u)
<1> DEFINE n == Len(s)
           m == Len(t)
           c == s \o t
<1>1. /\ c \in Seq(Nat) /\ n \in Nat /\ m \in Nat /\ Len(c) = n + m
      /\ \A i \in 1..n : c[i] = s[i] /\ s[i] \in Nat
      /\ \A i \in (n + 1)..(n + m) : c[i] = t[i - n] /\ i - n \in 1..m
      /\ \A i \in 1..m : t[i] \in Nat
  OBVIOUS
<1>2. \A i \in 1..(n + m) : i \in 1..n \/ i \in (n + 1)..(n + m)
  BY <1>1
<1>3. \A i \in 1..m : i + n \in (n + 1)..(n + m) /\ (i + n) - n = i
  BY <1>1
<1>4. \A i \in 1..n : i \in 1..(n + m)
  BY <1>1
<1>5. \A i \in (n + 1)..(n + m) : i \in 1..(n + m)
  BY <1>1
<1> HIDE DEF c, n, m
<1>6. Ids(c) = Ids(s) \cup Ids(t)
  <2>1. \A x \in Ids(c) : x \in Ids(s) \cup Ids(t)
    BY <1>1, <1>2 DEF Ids, n, m
  <2>2. \A x \in Ids(s) : x \in Ids(c)
    BY <1>1, <1>4 DEF Ids, n, m
  <2>3. ASSUME NEW i \in 1..m
        PROVE  t[i] \in Ids(c)
    <3>1. i + n \in 1..(n + m) /\ c[i + n] = t[i]
      BY <1>1, <1>3, <1>5
    <3>2. QED  BY <1>1, <3>1 DEF Ids
  <2>4. QED  BY <2>1, <2>2, <2>3 DEF Ids, m
<1>7. ASSUME Ascending(s), Ascending(t), Before(s, t)
      PROVE  Ascending(c)
  <2> SUFFICES ASSUME NEW i \in 1..(n + m), NEW j \in 1..(n + m), i < j
               PROVE  c[i] < c[j]
    BY <1>1 DEF Ascending
  <2>1. CASE j \in 1..n
    <3>1. i \in 1..n
      BY <1>1, <2>1
    <3>2. QED  BY <1>1, <1>7, <2>1, <3>1 DEF Ascending, n
  <2>2. CASE j \in (n + 1)..(n + m) /\ i \in 1..n
    BY <1>1, <1>7, <2>2 DEF Before, n, m
  <2>3. CASE j \in (n + 1)..(n + m) /\ i \in (n + 1)..(n + m)
    <3>1. i - n < j - n
      BY <1>1, <2>3
    <3>2. QED  BY <1>1, <1>7, <2>3, <3>1 DEF Ascending, m
  <2>4. QED  BY <1>2, <2>1, <2>2, <2>3
<1>8. \A u \in Seq(Nat) : Before(s, u) /\ Before(t, u) => Before(c, u)
  BY <1>1, <1>2 DEF Before, n, m
<1>9. QED  BY <1>1, <1>6, <1>7, <1>8 DEF c

LEMMA Shortened ==
    ASSUME NEW s \in Seq(Nat), s # <<>>
    PROVE  /\ Tail(s) \in Seq(Nat) /\ Head(s) \in Nat
           /\ Ids(s) = {Head(s)} \cup Ids(Tail(s))
           /\ Ascending(s) => /\ Ascending(Tail(s)) /\ Head(s) \notin Ids(Tail(s))
                              /\ \A j \in 1..Len(Tail(s)) : Head(s) < Tail(s)[j]
           /\ \A u \in Seq(Nat) :
                 Before(u, s) => /\ Before(u, Tail(s))
                                 /\ \A i \in 1..Len(u) : u[i] < Head(s)
<1> DEFINE n == Len(s)
           t == Tail(s)
<1>1. /\ t \in Seq(Nat) /\ n \in Nat /\ n >= 1 /\ Len(t) = n - 1 /\ Head(s) = s[1]
      /\ \A i \in 1..(n - 1) : t[i] = s[i + 1]
      /\ \A i \in 1..n : s[i] \in Nat
  OBVIOUS
<1>2. /\ 1 \in 1..n
      /\ \A i \in 1..n : i = 1 \/ (i - 1 \in 1..(n - 1) /\ (i - 1) + 1 = i)
      /\ \A i \in 1..(n - 1) : i + 1 \in 1..n /\ 1 < i + 1
      /\ \A i, j \in 1..(n - 1) : i < j => i + 1 < j + 1
  BY <1>1
<1> HIDE DEF n, t
<1>3. Ids(s) = {Head(s)} \cup Ids(t)
  <2>1. ASSUME NEW i \in 1..n, i # 1
        PROVE  s[i] \in Ids(t)
    <3>1. i - 1 \in 1..(n - 1) /\ (i - 1) + 1 = i
      BY <1>2, <2>1
    <3>2. t[i - 1] = s[i]
      BY <1>1, <3>1
    <3>3. QED  BY <1>1, <3>1, <3>2 DEF Ids
  <2>2. \A x \in Ids(t) : x \in Ids(s)
    BY <1>1, <1>2 DEF Ids, n
  <2>3. Head(s) \in Ids(s)
    BY <1>1, <1>2 DEF Ids, n
  <2>4. \A x \in Ids(s) : x = Head(s) \/ x \in Ids(t)
    BY <1>1, <2>1 DEF Ids, n
  <2>5. QED  BY <2>2, <2>3, <2>4
<1>4. ASSUME Ascending(s)
      PROVE  /\ Ascending(t) /\ Head(s) \notin Ids(t)
             /\ \A j \in 1..Len(t) : Head(s) < t[j]
  <2>1. \A j \in 1..(n - 1) : Head(s) < t[j] /\ t[j] \in Nat
    BY <1>1, <1>2, <1>4 DEF Ascending, n
  <2>2. Ascending(t)
    <3>1. ASSUME NEW i \in 1..(n - 1), NEW j \in 1..(n - 1), i < j
          PROVE  t[i] < t[j]
      <4>1. i + 1 \in 1..n /\ j + 1 \in 1..n /\ i + 1 < j + 1
        BY <1>2, <3>1
      <4>2. s[i + 1] < s[j + 1]
        BY <1>4, <4>1 DEF Ascending, n
      <4>3. QED  BY <1>1, <4>2
    <3>2. QED  BY <1>1, <3>1 DEF Ascending
  <2>3. \A j \in 1..(n - 1) : Head(s) # t[j]
    BY <1>1, <1>2, <2>1
  <2>4. QED  BY <1>1, <2>1, <2>2, <2>3 DEF Ids
<1>5. \A u \in Seq(Nat) :
         Before(u, s) => Before(u, t) /\ \A i \in 1..Len(u) : u[i] < Head(s)
  BY <1>1, <1>2 DEF Before, n
<1>6. QED  BY <1>1, <1>2, <1>3, <1>4, <1>5 DEF t

LEMMA Appended ==
    ASSUME NEW s \in Seq(Nat), NEW x \in Nat
    PROVE  /\ Append(s, x) \in Seq(Nat)
           /\ Ids(Append(s, x)) = Ids(s) \cup {x}
           /\ (\A i \in 1..Len(s) : s[i] < x) /\ Ascending(s) => Ascending(Append(s, x))
           /\ \A u \in Seq(Nat) : /\ Before(u, s) /\ (\A i \in 1..Len(u) : u[i] < x)
                                     => Before(u, Append(s, x))
                                  /\ Before(s, u) /\ (\A i \in 1..Len(u) : x < u[i])
                                     => Before(Append(s, x), u)
<1>1. /\ Append(s, x) = s \o <<x>> /\ <<x>> \in Seq(Nat)
      /\ Len(<<x>>) = 1 /\ <<x>>[1] = x
  OBVIOUS
<1> DEFINE t == <<x>>
           n == Len(s)
           a == Append(s, x)
<1>2. /\ a \in Seq(Nat) /\ n \in Nat /\ Len(a) = n + 1 /\ a[n + 1] = x
      /\ \A i \in 1..n : a[i] = s[i] /\ s[i] \in Nat
  OBVIOUS
<1>3. /\ \A i \in 1..(n + 1) : i \in 1..n \/ i = n + 1
      /\ \A i \in 1..n : i \in 1..(n + 1) /\ i < n + 1 /\ ~(n + 1 < i)
      /\ n + 1 \in 1..(n + 1)
      /\ \A i, j \in 1..(n + 1) : i < j => i \in 1..n
  BY <1>2
<1> HIDE DEF a, n
<1>4. Ids(a) = Ids(s) \cup {x}
  BY <1>2, <1>3 DEF Ids, n
<1>5. ASSUME \A i \in 1..Len(s) : s[i] < x, Ascending(s)
      PROVE  Ascending(a)
  <2>1. \A i, j \in 1..(n + 1) : i < j => a[i] < a[j]
    BY <1>2, <1>3, <1>5 DEF Ascending, n
  <2>2. QED  BY <1>2, <2>1 DEF Ascending
<1>6. \A u \in Seq(Nat) :
         /\ Before(u, s) /\ (\A i \in 1..Len(u) : u[i] < x) => Before(u, a)
         /\ Before(s, u) /\ (\A i \in 1..Len(u) : x < u[i]) => Before(a, u)
  BY <1>2, <1>3 DEF Before, n
<1>7. QED  BY <1>2, <1>4, <1>5, <1>6 DEF a
-----------------------------------------------------------------------------
(* The sizes of spans *)

\* Calls with values and errors of any length, and any number of parts.
AnyContents == [op: Ops, parts: Nat, value: Nat, error: Nat]

\* utils.go:14: a cut value is longer than its maximum by the mark.
LEMMA CutBounded ==
    ASSUME NEW length \in Nat, NEW max \in Nat
    PROVE  /\ cutLength(length, max) \in Nat
           /\ cutLength(length, max) <= max + CutMark
  BY DEF cutLength, CutMark

\* tracing.go:73, of a value that may have been cut to a lower limit before.
LEMMA FieldBounded ==
    ASSUME NEW length \in Nat
    PROVE  /\ safeLogField(length) \in Nat /\ safeLogField(length) <= 10011
           /\ safeLogField(cutLength(length, 5000)) \in Nat
           /\ safeLogField(cutLength(length, 5000)) <= 5011
           /\ cutLength(length, 5000) \in Nat /\ cutLength(length, 5000) <= 5011
  <1>1. cutLength(length, 5000) \in Nat /\ cutLength(length, 5000) <= 5011
    BY CutBounded DEF CutMark
  <1>2. \A n \in Nat : safeLogField(n) \in Nat /\ safeLogField(n) <= 10011
    BY CutBounded DEF safeLogField, DefaultMaxLength, CutMark
  <1>3. safeLogField(cutLength(length, 5000)) = cutLength(length, 5000)
    BY <1>1 DEF safeLogField, cutLength, DefaultMaxLength
  <1> QED
    BY <1>1, <1>2, <1>3

\* tracing.go:52: what every traced call logs of its work context.
LEMMA WorkBounded ==
    ASSUME NEW c \in AnyContents
    PROVE  /\ WorkFields(c) \in Nat /\ WorkFields(c) <= 30044
           /\ c.op \in Ignoring => WorkFields(c) = 0
  <1>1. c.value \in Nat
    BY DEF AnyContents
  <1> QED
    BY <1>1, FieldBounded DEF WorkFields, MaxStoreTraced, MaxSDKLogTraced

\* utils.go:6: the limits keep the span of a call within a packet of the agent,
\* unless its error is long or the call has parts, which are logged one by one;
\* six messages of a transaction and two sub-messages of a response still fit.
THEOREM SpansFit ==
    ASSUME NEW c \in AnyContents,
           c.error <= 2000,
           c.op = "ante_handler" => c.parts <= 6,
           c.op = "wasmvm_execute" => c.parts <= 2
    PROVE  Bytes(c) <= PacketBytes
  <1> DEFINE field == safeLogField(c.value)
             short == safeLogField(cutLength(c.value, 5000))
  <1>1. /\ c.op \in Ops /\ c.parts \in Nat /\ c.value \in Nat /\ c.error \in Nat
    BY DEF AnyContents
  <1>2. /\ field \in Nat /\ field <= 10011
        /\ short \in Nat /\ short <= 5011
    BY <1>1, FieldBounded
  <1>3. /\ WorkFields(c) \in Nat /\ WorkFields(c) <= 30044
        /\ c.op \in Ignoring => WorkFields(c) = 0
    BY WorkBounded
  <1> DEFINE before == FieldsBefore(c)
             after  == FieldsAfter(c)
  <1>4. /\ before \in Nat /\ after \in Nat
        /\ WorkFields(c) + before + after <= 62500
        /\ WorkFields(c) + before <= 60110
    <2> HIDE DEF field, short
    <2>1. CASE c.op = "ante_handler"
      <3>1. before = c.parts * short /\ after = 0
        BY <2>1 DEF FieldsBefore, FieldsAfter, RawSDKMessages, MaxSDKMsgTraced, short
      <3>2. c.parts \in 0..6
        BY <1>1, <2>1
      <3>3. c.parts * short \in Nat /\ c.parts * short <= 30066
        <4>1. \A n \in 0..6 : n * short \in Nat /\ n * short <= 30066
          BY <1>2
        <4> QED BY <4>1, <3>2
      <3> QED
        BY <3>1, <3>3, <1>3
    <2>2. CASE c.op = "wasmvm_execute"
      <3>1. before = field /\ after = (3 + c.parts) * field /\ WorkFields(c) = 0
        BY <2>2, <1>3 DEF FieldsBefore, FieldsAfter, ContractInputMsgRecorder,
                          ContractVmResponseRecorder, Ignoring, field
      <3>2. \A n \in 0..2 : (3 + n) * field \in Nat /\ (3 + n) * field <= 50055
        BY <1>2
      <3> QED
        BY <3>1, <3>2, <1>1, <1>2, <2>2
    <2>3. CASE c.op \in {"wasmvm_ibc", "wasmvm_query"}
      <3>1. before = field /\ after = field
        BY <2>3 DEF FieldsBefore, FieldsAfter, ContractInputMsgRecorder,
                    ContractGenericResponseRecorder, field
      <3> QED
        BY <3>1, <1>2, <1>3
    <2>4. CASE c.op = "ibc_packet_recv"
      <3>1. before = field + short /\ after = field
        BY <2>4 DEF FieldsBefore, FieldsAfter, PacketFields, MaxIBCPacketDescr, field, short
      <3> QED
        BY <3>1, <1>2, <1>3
    <2>5. CASE c.op \in {"service", "new_msg_router", "messenger", "wasm_query",
                         "ibc_packet_ack", "ibc_chan_open_try", "module_end_block", "other"}
      <3>1. before \in {0, field, 2 * field} /\ after \in {0, field}
        BY <2>5 DEF FieldsBefore, FieldsAfter, tryLogWasmMsg, logResultData,
                    addTagsFromWasmQuery, addTagsFromWasmContractMsg, field
      <3> QED
        BY <3>1, <1>2, <1>3
    <2> QED
      BY <1>1, <2>1, <2>2, <2>3, <2>4, <2>5 DEF Ops
  <1>5. Bytes(c) = 2500 + WorkFields(c) + before + (IF c.error > 0 THEN c.error ELSE after)
    BY DEF Bytes, Envelope
  <1> HIDE DEF before, after
  <1> QED
    BY <1>1, <1>3, <1>4, <1>5 DEF PacketBytes

LEMMA BytesNatural ==
    ASSUME NEW c \in AnyContents
    PROVE  Bytes(c) \in Nat /\ Bytes(c) >= 2500
<1> DEFINE field == safeLogField(c.value)
           short == safeLogField(cutLength(c.value, 5000))
<1>1. /\ c.op \in Ops /\ c.parts \in Nat /\ c.value \in Nat /\ c.error \in Nat
  BY DEF AnyContents
<1>2. field \in Nat /\ short \in Nat /\ WorkFields(c) \in Nat
  BY <1>1, FieldBounded, WorkBounded
<1>3. \A m, n \in Nat : m * n \in Nat
  OBVIOUS
<1>4. c.parts * short \in Nat /\ (3 + c.parts) * field \in Nat
  BY <1>1, <1>2, <1>3
<1> HIDE DEF field, short
<1>5. FieldsBefore(c) \in Nat
  <2>1. FieldsBefore(c) \in {c.parts * short, field, 2 * field, field + short, 0}
    BY DEF FieldsBefore, RawSDKMessages, MaxSDKMsgTraced, tryLogWasmMsg,
           addTagsFromWasmQuery, addTagsFromWasmContractMsg, ContractInputMsgRecorder,
           PacketFields, MaxIBCPacketDescr, field, short
  <2>2. QED  BY <1>2, <1>4, <2>1
<1>6. FieldsAfter(c) \in Nat
  <2>1. FieldsAfter(c) \in {(3 + c.parts) * field, field, 0}
    BY DEF FieldsAfter, ContractVmResponseRecorder, ContractGenericResponseRecorder,
           logResultData, field
  <2>2. QED  BY <1>2, <1>4, <2>1
<1>7. QED  BY <1>1, <1>2, <1>5, <1>6 DEF Bytes, Envelope

\* The share of a packet that a span takes.
LEMMA UnitsBounded ==
    ASSUME NEW c \in AnyContents
    PROVE  Units(c) \in Nat /\ (Bytes(c) <= PacketBytes => Units(c) # TooBig)
<1> DEFINE z == Bytes(c) * PacketSpans
           u == (z - 1) \div PacketBytes + 1
<1>1. Bytes(c) \in Nat /\ Bytes(c) >= 1 /\ PacketSpans \in Nat /\ PacketSpans >= 1
  BY BytesNatural, SizesAssumption
<1>2. z \in Nat /\ z >= 1
  BY <1>1
<1>3. Bytes(c) <= PacketBytes => z <= PacketBytes * PacketSpans
  BY <1>1 DEF PacketBytes
<1> HIDE DEF z
<1>4. u \in Nat /\ (Bytes(c) <= PacketBytes => u <= PacketSpans)
  BY <1>1, <1>2, <1>3 DEF PacketBytes
<1> HIDE DEF u
<1>5. TooBig \in Nat /\ PacketSpans < TooBig
  BY <1>1 DEF TooBig
<1>6. Units(c) \in {u, TooBig} /\ Units(c) <= u
  <2>1. Units(c) = CHOOSE x \in {u, TooBig} : \A y \in {u, TooBig} : x =< y
    BY DEF Units, Min, u, z
  <2>2. \E x \in {u, TooBig} : \A y \in {u, TooBig} : x =< y
    <3>1. u <= TooBig \/ TooBig <= u
      BY <1>4, <1>5
    <3>2. QED  BY <1>4, <1>5, <3>1
  <2>3. QED  BY <2>1, <2>2
<1>7. QED  BY <1>1, <1>4, <1>5, <1>6

LEMMA CallContents ==
    ASSUME NEW c \in CallsOf(Contents)
    PROVE  c \in AnyContents /\ c.error \in {0, Short, Long} /\ c.parts \in Nat
  BY DEF CallsOf, Contents, AnyContents, Short, Long
-----------------------------------------------------------------------------
(* Where the spans are *)

\* What SpansAccounted says of the spans 1..n: the agent has s, the next packet
\* p, the queue w, and nobody will get l.
Accounted(s, p, w, l, n) ==
    /\ s \in Seq(Nat) /\ p \in Seq(Nat) /\ w \in Seq(Nat) /\ n \in Nat
    /\ Ids(s) \cup Ids(p) \cup Ids(w) \cup l = 1..n
    /\ l \cap (Ids(s) \cup Ids(p) \cup Ids(w)) = {}
    /\ Ascending(s) /\ Ascending(p) /\ Ascending(w)
    /\ Before(s, p) /\ Before(s, w) /\ Before(p, w)

LEMMA NoIds == /\ <<>> \in Seq(Nat) /\ Ids(<<>>) = {} /\ Ascending(<<>>)
               /\ \A t : Before(<<>>, t) /\ Before(t, <<>>)
  BY DEF Ids, Ascending, Before

\* Ascending sequences one before the other have nothing in common.
LEMMA BeforeDisjoint ==
    ASSUME NEW s \in Seq(Nat), NEW t \in Seq(Nat), Before(s, t)
    PROVE  Ids(s) \cap Ids(t) = {}
<1>1. \A i \in 1..Len(s), j \in 1..Len(t) : s[i] # t[j]
  <2>1. \A i \in 1..Len(s) : s[i] \in Nat
    OBVIOUS
  <2>2. \A j \in 1..Len(t) : t[j] \in Nat
    OBVIOUS
  <2>3. QED  BY <2>1, <2>2 DEF Before
<1>2. QED  BY <1>1 DEF Ids

LEMMA SpanQueued ==
    ASSUME NEW s, NEW p, NEW w, NEW l, NEW n, Accounted(s, p, w, l, n)
    PROVE  /\ Accounted(s, p, Append(w, n + 1), l, n + 1)
           /\ Accounted(s, p, w, l \cup {n + 1}, n + 1)
<1>1. /\ n \in Nat /\ n + 1 \in Nat /\ 1..(n + 1) = 1..n \cup {n + 1}
      /\ \A x \in 1..n : x < n + 1 /\ x # n + 1
  BY DEF Accounted
<1>2. s \in Seq(Nat) /\ p \in Seq(Nat) /\ w \in Seq(Nat)
  BY DEF Accounted
<1>3. ASSUME NEW t \in Seq(Nat), Ids(t) \subseteq 1..n
      PROVE  \A i \in 1..Len(t) : t[i] < n + 1
  BY <1>1, <1>3 DEF Ids
<1>4. Ids(s) \subseteq 1..n /\ Ids(p) \subseteq 1..n /\ Ids(w) \subseteq 1..n /\ l \subseteq 1..n
  BY DEF Accounted
<1>5. /\ Append(w, n + 1) \in Seq(Nat) /\ Ids(Append(w, n + 1)) = Ids(w) \cup {n + 1}
      /\ Ascending(Append(w, n + 1))
      /\ Before(s, Append(w, n + 1)) /\ Before(p, Append(w, n + 1))
  BY <1>1, <1>2, <1>3, <1>4, Appended DEF Accounted
<1>6. Accounted(s, p, Append(w, n + 1), l, n + 1)
  BY <1>1, <1>4, <1>5 DEF Accounted
<1>7. Accounted(s, p, w, l \cup {n + 1}, n + 1)
  BY <1>1, <1>4 DEF Accounted
<1>8. QED  BY <1>6, <1>7

\* A packet is sent, and arrives or not.
LEMMA PacketGone ==
    ASSUME NEW s, NEW p, NEW w, NEW l, NEW n, Accounted(s, p, w, l, n)
    PROVE  Accounted(s \o p, <<>>, w, l, n) /\ Accounted(s, <<>>, w, l \cup Ids(p), n)
<1>1. s \in Seq(Nat) /\ p \in Seq(Nat) /\ w \in Seq(Nat)
  BY DEF Accounted
<1>2. /\ s \o p \in Seq(Nat) /\ Ids(s \o p) = Ids(s) \cup Ids(p)
      /\ Ascending(s \o p) /\ Before(s \o p, w)
  BY <1>1, Concatenated DEF Accounted
<1>3. Ids(s) \cap Ids(p) = {} /\ Ids(p) \cap Ids(w) = {}
  BY <1>1, BeforeDisjoint DEF Accounted
<1>4. QED  BY <1>2, <1>3, NoIds DEF Accounted

\* The next span leaves the queue, for the packet or because it is too big.
LEMMA SpanTaken ==
    ASSUME NEW s, NEW p, NEW w, NEW l, NEW n, Accounted(s, p, w, l, n), w # <<>>
    PROVE  /\ Accounted(s, Append(p, Head(w)), Tail(w), l, n)
           /\ Accounted(s, p, Tail(w), l \cup {Head(w)}, n)
<1>1. s \in Seq(Nat) /\ p \in Seq(Nat) /\ w \in Seq(Nat)
  BY DEF Accounted
<1> DEFINE h == Head(w)
           t == Tail(w)
<1>2. /\ t \in Seq(Nat) /\ h \in Nat /\ Ids(w) = {h} \cup Ids(t)
      /\ Ascending(t) /\ h \notin Ids(t) /\ \A j \in 1..Len(t) : h < t[j]
      /\ Before(s, t) /\ Before(p, t)
      /\ \A i \in 1..Len(s) : s[i] < h
      /\ \A i \in 1..Len(p) : p[i] < h
  BY <1>1, Shortened DEF Accounted
<1> HIDE DEF h, t
<1>3. /\ Append(p, h) \in Seq(Nat) /\ Ids(Append(p, h)) = Ids(p) \cup {h}
      /\ Ascending(Append(p, h)) /\ Before(s, Append(p, h)) /\ Before(Append(p, h), t)
  BY <1>1, <1>2, Appended DEF Accounted
<1>4. Accounted(s, Append(p, h), t, l, n)
  BY <1>2, <1>3 DEF Accounted
<1>5. h \notin Ids(s) /\ h \notin Ids(p)
  <2>1. Ids(s) \cap Ids(w) = {} /\ Ids(p) \cap Ids(w) = {}
    BY <1>1, BeforeDisjoint DEF Accounted
  <2>2. QED  BY <1>2, <2>1
<1>6. Accounted(s, p, t, l \cup {h}, n)
  BY <1>2, <1>5 DEF Accounted
<1>7. QED  BY <1>4, <1>6 DEF h, t
-----------------------------------------------------------------------------
(* The command and its reporter *)

LifeTypes == queue \in Seq(Nat) /\ units \in Seq(Nat)

\* The tracer is opened with the command if there is the flag, and is still open
\* at the end only if the command failed.
Opens ==
    /\ phase = "parsed" => tracer = "none"
    /\ phase = "running" /\ flagSet => tracer = "open"
    /\ phase = "closing" => tracer # "none"
    /\ phase = "done" /\ tracer = "open" => failed
    /\ failed => phase = "done"
    /\ tracer = "closed" => phase \in {"closing", "done"}
    /\ tracer # "open" => queue = <<>> /\ packet = <<>>

\* The close item is the last that gets into the queue, and only PostRun puts it
\* there.
ClosesLast ==
    /\ \A i \in 1..Len(queue) :
          queue[i] = CloseItem => i = Len(queue) /\ phase = "closing"
    /\ phase = "closing" /\ tracer = "open" =>
          queue # <<>> /\ queue[Len(queue)] = CloseItem

LifeInv ==
    /\ LifeTypes /\ Opens /\ ClosesLast
    /\ Accounted(sent, packet, Queued(queue), lost, finished)

LEMMA QueuedFacts ==
    ASSUME NEW q \in Seq(Nat)
    PROVE  /\ (\A i \in 1..Len(q) : q[i] # CloseItem) => Queued(q) = q
           /\ Queued(Append(q, CloseItem)) = q
           /\ \A x \in Nat : x # CloseItem => Queued(Append(q, x)) = Append(q, x)
<1>1. Len(q) \in Nat /\ (q # <<>> => Len(q) >= 1)
  OBVIOUS
<1>2. (\A i \in 1..Len(q) : q[i] # CloseItem) => Queued(q) = q
  <2>1. q # <<>> => Len(q) \in 1..Len(q)
    BY <1>1
  <2>2. QED  BY <2>1 DEF Queued, Last
<1>3. \A x \in Nat :
        /\ Append(q, x) # <<>> /\ Last(Append(q, x)) = x /\ Front(Append(q, x)) = q
  BY DEF Last, Front
<1>4. QED  BY <1>2, <1>3 DEF Queued, CloseItem

LEMMA QueuedTail ==
    ASSUME NEW q \in Seq(Nat), q # <<>>, Head(q) # CloseItem
    PROVE  /\ Queued(q) # <<>> /\ Head(Queued(q)) = Head(q)
           /\ Queued(Tail(q)) = Tail(Queued(q))
<1> DEFINE n == Len(q)
<1>1. /\ n \in Nat /\ n >= 1 /\ Head(q) = q[1]
      /\ Tail(q) \in Seq(Nat) /\ Len(Tail(q)) = n - 1
      /\ \A i \in 1..(n - 1) : Tail(q)[i] = q[i + 1]
  OBVIOUS
<1>2. CASE q[n] # CloseItem
  <2>1. Queued(q) = q
    BY <1>2 DEF Queued, Last
  <2>2. Tail(q) # <<>> => Last(Tail(q)) = q[n]
    BY <1>1 DEF Last
  <2>3. Queued(Tail(q)) = Tail(q)
    BY <1>2, <2>2 DEF Queued
  <2>4. QED  BY <2>1, <2>3
<1>3. CASE q[n] = CloseItem
  <2>1. n >= 2 /\ n - 1 >= 1
    BY <1>1, <1>3
  <2>2. Queued(q) = SubSeq(q, 1, n - 1)
    BY <1>3 DEF Queued, Last, Front
  <2>3. Tail(q) # <<>> /\ Last(Tail(q)) = q[n]
    <3>1. n - 1 \in 1..(n - 1) /\ (n - 1) + 1 = n
      BY <1>1, <2>1
    <3>2. Tail(q) # <<>>
      <4>1. Len(Tail(q)) # 0
        BY <1>1, <2>1
      <4>2. QED  BY <1>1, <4>1, EmptySeq
    <3>3. QED  BY <1>1, <3>1, <3>2 DEF Last
  <2>4. Queued(Tail(q)) = SubSeq(Tail(q), 1, n - 2)
    BY <1>1, <1>3, <2>3 DEF Queued, Front
  <2> DEFINE a == SubSeq(q, 1, n - 1)
             b == SubSeq(Tail(q), 1, n - 2)
  <2>5. /\ a \in Seq(Nat) /\ Len(a) = n - 1 /\ \A i \in 1..(n - 1) : a[i] = q[i]
        /\ b \in Seq(Nat) /\ Len(b) = n - 2 /\ \A i \in 1..(n - 2) : b[i] = Tail(q)[i]
    BY <1>1, <2>1
  <2> HIDE DEF a, b
  <2>6. a # <<>> /\ Head(a) = q[1] /\ Tail(a) \in Seq(Nat) /\ Len(Tail(a)) = n - 2
    <3>1. Len(a) # 0
      BY <1>1, <2>1, <2>5, SMTT(40)
    <3>2. a # <<>>
      BY <2>5, <3>1, EmptySeq
    <3>3. Tail(a) \in Seq(Nat) /\ Len(Tail(a)) = Len(a) - 1 /\ Head(a) = a[1]
      BY <2>5, <3>2
    <3>4. 1 \in 1..(n - 1) /\ (n - 1) - 1 = n - 2
      BY <1>1, <2>1
    <3>5. QED  BY <2>5, <3>2, <3>3, <3>4
  <2>7. \A i \in 1..(n - 2) : Tail(a)[i] = a[i + 1] /\ i + 1 \in 1..(n - 1) /\ i \in 1..(n - 1)
    BY <1>1, <2>1, <2>5, SMTT(40)
  <2>8. \A i \in 1..(n - 2) : Tail(a)[i] = b[i]
    BY <1>1, <2>5, <2>7
  <2>9. Tail(a) = b
    BY <2>5, <2>6, <2>8, SeqEqual, ZenonT(60)
  <2>10. QED  BY <1>1, <2>2, <2>4, <2>6, <2>9 DEF a, b
<1>4. QED  BY <1>2, <1>3

LEMMA InitLifeInv == Init => LifeInv
<1> SUFFICES ASSUME Init PROVE LifeInv
  OBVIOUS
<1>1. LifeTypes /\ Opens /\ ClosesLast
  <2>1. LifeTypes
    BY DEF Init, LifeTypes
  <2>2. Opens
    BY DEF Init, Opens
  <2>3. ClosesLast
    BY DEF Init, ClosesLast
  <2>4. QED  BY <2>1, <2>2, <2>3
<1>2. Queued(queue) = <<>> /\ finished = 0 /\ 1..0 = {}
  BY DEF Init, Queued, finished
<1>3. Accounted(sent, packet, Queued(queue), lost, finished)
  BY <1>2, NoIds DEF Init, Accounted
<1>4. QED  BY <1>1, <1>3 DEF LifeInv

\* The packet is sent, and the next one starts empty.
LEMMA FlushAccounts ==
    ASSUME LifeInv, NEW arrives \in BOOLEAN, Flushed(arrives)
    PROVE  Accounted(sent', <<>>, Queued(queue), lost', finished)
<1>1. packet \in Seq(Nat)
  BY DEF LifeInv, Accounted
<1>2. Range(packet) = Ids(packet)
  BY <1>1 DEF Range, Ids
<1>3. \/ sent' = sent \o packet /\ lost' = lost
      \/ sent' = sent /\ lost' = lost \cup Ids(packet)
  BY <1>2 DEF Flushed
<1>4. Accounted(sent, packet, Queued(queue), lost, finished)
  BY DEF LifeInv
<1>5. CASE sent' = sent \o packet /\ lost' = lost
  BY <1>4, <1>5, PacketGone
<1>6. CASE sent' = sent /\ lost' = lost \cup Ids(packet)
  BY <1>4, <1>6, PacketGone
<1>7. QED  BY <1>3, <1>5, <1>6

LEMMA NextLifeInv == LifeInv /\ [Next]_vars => LifeInv'
<1> SUFFICES ASSUME LifeInv, [Next]_vars PROVE LifeInv'
  OBVIOUS
<1>0. /\ LifeTypes /\ Opens /\ ClosesLast
      /\ Accounted(sent, packet, Queued(queue), lost, finished)
      /\ queue \in Seq(Nat) /\ Len(queue) \in Nat /\ units \in Seq(Nat)
      /\ packet \in Seq(Nat) /\ finished \in Nat
  BY DEF LifeInv, LifeTypes, Accounted, finished
<1>1. CASE UNCHANGED vars
  BY <1>1 DEF vars, reporter, LifeInv, LifeTypes, Opens, ClosesLast, finished
<1>2. CASE RunE
  <2>1. LifeTypes' /\ Opens' /\ ClosesLast'
    <3>1. LifeTypes'
      BY <1>0, <1>2 DEF RunE, TracerOpened, reporter, LifeTypes
    <3>2. Opens'
      BY <1>0, <1>2 DEF RunE, TracerOpened, reporter, Opens
    <3>3. ClosesLast'
      BY <1>0, <1>2 DEF RunE, TracerOpened, reporter, ClosesLast
    <3>4. QED  BY <3>1, <3>2, <3>3
  <2>2. QED  BY <1>0, <1>2, <2>1 DEF RunE, reporter, LifeInv, finished
<1>3. ASSUME NEW err \in BOOLEAN, RunEReturns(err)
      PROVE  LifeInv'
  <2>1. LifeTypes' /\ Opens' /\ ClosesLast'
    <3>1. LifeTypes'
      BY <1>0, <1>3 DEF RunEReturns, reporter, LifeTypes
    <3>2. Opens'
      BY <1>0, <1>3 DEF RunEReturns, reporter, Opens
    <3>3. ClosesLast'
      BY <1>0, <1>3 DEF RunEReturns, reporter, ClosesLast
    <3>4. QED  BY <3>1, <3>2, <3>3
  <2>2. QED  BY <1>0, <1>3, <2>1 DEF RunEReturns, reporter, LifeInv, finished
<1>4. CASE PostRun
  <2>1. CASE tracer = "open"
    <3>1. queue' = Append(queue, CloseItem) /\ phase' = "closing" /\ phase = "post"
          /\ UNCHANGED <<flagSet, failed, tracer, packet, sent, lost, units>>
      BY <1>4, <2>1 DEF PostRun, CloseWaits
    <3>2. \A i \in 1..Len(queue) : queue[i] # CloseItem
      BY <1>0, <3>1 DEF ClosesLast
    <3>3. Queued(queue') = Queued(queue)
      BY <1>0, <3>1, <3>2, QueuedFacts
    <3>4. /\ Len(queue') = Len(queue) + 1 /\ queue' \in Seq(Nat)
          /\ queue'[Len(queue) + 1] = CloseItem
          /\ \A i \in 1..Len(queue) : queue'[i] = queue[i]
      BY <1>0, <3>1 DEF CloseItem
    <3>5. LifeTypes' /\ Opens' /\ ClosesLast'
      <4>1. LifeTypes'
        BY <1>0, <2>1, <3>1, <3>2, <3>4 DEF LifeTypes
      <4>2. Opens'
        BY <1>0, <2>1, <3>1, <3>2, <3>4 DEF Opens
      <4>3. ClosesLast'
        <5>1. \A i \in 1..(Len(queue) + 1) : i \in 1..Len(queue) \/ i = Len(queue) + 1
          BY <1>0
        <5>2. queue' # <<>>
          <6>1. Len(queue') # 0
            BY <1>0, <3>4
          <6>2. QED  BY <3>4, <6>1, EmptySeq
        <5>3. QED  BY <3>1, <3>2, <3>4, <5>1, <5>2 DEF ClosesLast
      <4>4. QED  BY <4>1, <4>2, <4>3
    <3>6. QED  BY <1>0, <3>1, <3>3, <3>5 DEF LifeInv, finished
  <2>2. CASE tracer # "open"
    <3>1. LifeTypes' /\ Opens' /\ ClosesLast'
      <4>1. LifeTypes'
        BY <1>0, <1>4, <2>2 DEF PostRun, LifeTypes
      <4>2. Opens'
        BY <1>0, <1>4, <2>2 DEF PostRun, Opens
      <4>3. ClosesLast'
        BY <1>0, <1>4, <2>2 DEF PostRun, ClosesLast
      <4>4. QED  BY <4>1, <4>2, <4>3
    <3>2. QED  BY <1>0, <1>4, <2>2, <3>1 DEF PostRun, LifeInv, finished
  <2>3. QED  BY <2>1, <2>2
<1>5. CASE Closed
  <2>1. LifeTypes' /\ Opens' /\ ClosesLast'
    <3>1. LifeTypes'
      BY <1>0, <1>5 DEF Closed, reporter, LifeTypes
    <3>2. Opens'
      BY <1>0, <1>5 DEF Closed, reporter, Opens
    <3>3. ClosesLast'
      <4>1. queue' = <<>> /\ phase' = "done"
        BY <1>0, <1>5 DEF Closed, reporter, Opens
      <4>2. Len(queue') = 0 /\ \A i \in 1..0 : FALSE
        BY <4>1
      <4>3. QED  BY <4>1, <4>2 DEF ClosesLast
    <3>4. QED  BY <3>1, <3>2, <3>3
  <2>2. QED  BY <1>0, <1>5, <2>1 DEF Closed, reporter, LifeInv, finished
<1>6. ASSUME NEW c \in CallsOf(Contents), FinishSpan(c)
      PROVE  LifeInv'
  <2>1. /\ phase = "running" /\ flagSet /\ UNCHANGED <<flagSet, phase, failed, tracer, packet, sent>>
        /\ units' = Append(units, Units(c)) /\ Units(c) \in Nat
        /\ \/ queue' = Append(queue, finished + 1) /\ lost' = lost
           \/ queue' = queue /\ lost' = lost \cup {finished + 1}
    BY <1>6, CallContents, UnitsBounded DEF FinishSpan
  <2>2. units' \in Seq(Nat) /\ finished' = finished + 1
    BY <1>0, <2>1 DEF finished
  <2>3. \A i \in 1..Len(queue) : queue[i] # CloseItem
    BY <1>0, <2>1 DEF ClosesLast
  <2>4. finished + 1 \in Nat /\ finished + 1 # CloseItem
    BY <1>0 DEF CloseItem
  <2>5. CASE queue' = Append(queue, finished + 1) /\ lost' = lost
    <3>1. Queued(queue') = Append(Queued(queue), finished + 1)
      BY <1>0, <2>3, <2>4, <2>5, QueuedFacts
    <3>2. /\ Len(queue') = Len(queue) + 1 /\ queue' \in Seq(Nat)
          /\ queue'[Len(queue) + 1] = finished + 1
          /\ \A i \in 1..Len(queue) : queue'[i] = queue[i]
      BY <1>0, <2>4, <2>5
    <3>3. \A i \in 1..(Len(queue) + 1) : i \in 1..Len(queue) \/ i = Len(queue) + 1
      BY <1>0
    <3>4. \A i \in 1..Len(queue') : queue'[i] # CloseItem
      BY <2>3, <2>4, <3>2, <3>3
    <3>5. LifeTypes' /\ Opens' /\ ClosesLast'
      <4>1. LifeTypes'
        BY <1>0, <2>1, <2>2, <3>2, <3>4 DEF LifeTypes
      <4>2. Opens'
        BY <1>0, <2>1, <2>2, <3>2, <3>4 DEF Opens
      <4>3. ClosesLast'
        BY <1>0, <2>1, <2>2, <3>2, <3>4 DEF ClosesLast
      <4>4. QED  BY <4>1, <4>2, <4>3
    <3>6. Accounted(sent', packet', Queued(queue'), lost', finished')
      <4>1. Accounted(sent, packet, Append(Queued(queue), finished + 1), lost, finished + 1)
        BY <1>0, SpanQueued
      <4>2. QED  BY <2>1, <2>2, <2>5, <3>1, <4>1
    <3>7. QED  BY <3>5, <3>6 DEF LifeInv
  <2>6. CASE queue' = queue /\ lost' = lost \cup {finished + 1}
    <3>1. LifeTypes' /\ Opens' /\ ClosesLast'
      <4>1. LifeTypes'
        BY <1>0, <2>1, <2>2, <2>6 DEF LifeTypes
      <4>2. Opens'
        BY <1>0, <2>1, <2>2, <2>6 DEF Opens
      <4>3. ClosesLast'
        BY <1>0, <2>1, <2>2, <2>6 DEF ClosesLast
      <4>4. QED  BY <4>1, <4>2, <4>3
    <3>2. Accounted(sent', packet', Queued(queue'), lost', finished')
      BY <1>0, <2>1, <2>2, <2>6, SpanQueued
    <3>3. QED  BY <3>1, <3>2 DEF LifeInv
  <2>7. QED  BY <2>1, <2>5, <2>6
<1>7. CASE Take
  <2> DEFINE id == Head(queue)
             t == Tail(queue)
  <2>1. /\ queue # <<>> /\ id # CloseItem /\ queue' = t /\ phase # "done" /\ tracer # "closed"
        /\ UNCHANGED <<flagSet, phase, failed, tracer, units>>
        /\ \/ lost' = lost \cup {id} /\ UNCHANGED <<packet, sent>>
           \/ packet' = Append(packet, id) /\ UNCHANGED <<sent, lost>>
           \/ packet' = <<id>> /\ \E arrives \in BOOLEAN : Flushed(arrives)
    BY <1>7 DEF Take, Alive
  <2>2. Queued(queue) # <<>> /\ Head(Queued(queue)) = id /\ Queued(t) = Tail(Queued(queue))
    BY <1>0, <2>1, QueuedTail
  <2>3. /\ t \in Seq(Nat) /\ Len(t) = Len(queue) - 1 /\ Len(queue) >= 1
        /\ \A i \in 1..(Len(queue) - 1) : t[i] = queue[i + 1] /\ i + 1 \in 1..Len(queue)
        /\ queue[1] = id
    BY <1>0, <2>1
  <2> HIDE DEF id, t
  <2>4. Accounted(sent', packet', Queued(t), lost', finished)
    <3>1. CASE lost' = lost \cup {id} /\ UNCHANGED <<packet, sent>>
      BY <1>0, <2>2, <3>1, SpanTaken
    <3>2. CASE packet' = Append(packet, id) /\ UNCHANGED <<sent, lost>>
      BY <1>0, <2>2, <3>2, SpanTaken
    <3>3. ASSUME packet' = <<id>>, NEW arrives \in BOOLEAN, Flushed(arrives)
          PROVE  Accounted(sent', packet', Queued(t), lost', finished)
      <4>1. Accounted(sent', <<>>, Queued(queue), lost', finished)
        BY <3>3, FlushAccounts
      <4>2. Accounted(sent', Append(<<>>, id), Queued(t), lost', finished)
        BY <2>2, <4>1, SpanTaken
      <4>3. Append(<<>>, id) = <<id>>
        OBVIOUS
      <4>4. QED  BY <3>3, <4>2, <4>3
    <3>4. QED  BY <2>1, <3>1, <3>2, <3>3
  <2>5. tracer = "open"
    BY <1>0, <2>1 DEF Opens
  <2>6. \A i \in 1..Len(t) : t[i] = CloseItem => i = Len(t) /\ phase = "closing"
    BY <1>0, <2>3, SMTT(40) DEF ClosesLast
  <2>7. phase = "closing" => t # <<>> /\ t[Len(t)] = CloseItem
    <3>1. ASSUME phase = "closing"
          PROVE  Len(t) >= 1 /\ t[Len(t)] = CloseItem
      <4>1. queue[Len(queue)] = CloseItem
        BY <1>0, <2>5, <3>1 DEF ClosesLast
      <4>2. Len(queue) # 1
        BY <2>1, <2>3, <4>1
      <4>3. Len(t) >= 1 /\ Len(t) \in 1..(Len(queue) - 1) /\ Len(t) + 1 = Len(queue)
        BY <1>0, <2>3, <4>2
      <4>4. QED  BY <2>3, <4>1, <4>3
    <3>2. Len(<<>>) = 0
      OBVIOUS
    <3>3. QED  BY <3>1, <3>2
  <2>8. LifeTypes' /\ Opens' /\ ClosesLast'
    <3>1. LifeTypes'
      BY <1>0, <2>1, <2>3, <2>5, <2>6, <2>7 DEF LifeTypes
    <3>2. Opens'
      BY <1>0, <2>1, <2>3, <2>5, <2>6, <2>7 DEF Opens
    <3>3. ClosesLast'
      BY <1>0, <2>1, <2>3, <2>5, <2>6, <2>7 DEF ClosesLast
    <3>4. QED  BY <3>1, <3>2, <3>3
  <2>9. QED  BY <2>1, <2>4, <2>8 DEF LifeInv, finished
<1>8. CASE Flush
  <2>1. PICK arrives \in BOOLEAN : Flushed(arrives)
    BY <1>8 DEF Flush
  <2>2. packet' = <<>> /\ UNCHANGED <<flagSet, phase, failed, tracer, queue, units>>
    BY <1>8 DEF Flush
  <2>3. LifeTypes' /\ Opens' /\ ClosesLast'
    <3>1. LifeTypes'
      BY <1>0, <2>2 DEF LifeTypes
    <3>2. Opens'
      BY <1>0, <2>2 DEF Opens
    <3>3. ClosesLast'
      BY <1>0, <2>2 DEF ClosesLast
    <3>4. QED  BY <3>1, <3>2, <3>3
  <2>4. Accounted(sent', packet', Queued(queue'), lost', finished')
    BY <2>1, <2>2, FlushAccounts DEF finished
  <2>5. QED  BY <2>3, <2>4 DEF LifeInv
<1>9. CASE TakeClose
  <2>1. PICK arrives \in BOOLEAN : Flushed(arrives)
    BY <1>9 DEF TakeClose, CloseFlushes
  <2>2. /\ packet' = <<>> /\ queue # <<>> /\ Head(queue) = CloseItem /\ queue' = Tail(queue)
        /\ tracer' = "closed" /\ UNCHANGED <<flagSet, phase, failed, units>>
    BY <1>9 DEF TakeClose
  <2>3. Len(queue) >= 1 /\ queue[1] = CloseItem
    BY <1>0, <2>2
  <2>4. Len(queue) = 1 /\ phase = "closing"
    <3>1. 1 \in 1..Len(queue)
      BY <1>0, <2>3
    <3>2. QED  BY <1>0, <2>3, <3>1 DEF ClosesLast
  <2>5. queue' = <<>> /\ queue' \in Seq(Nat) /\ Queued(<<>>) = <<>>
    <3>1. Tail(queue) \in Seq(Nat) /\ Len(Tail(queue)) = 0
      BY <1>0, <2>2, <2>4
    <3>2. Tail(queue) = <<>>
      BY <3>1, EmptySeq
    <3>3. QED  BY <2>2, <3>1, <3>2 DEF Queued
  <2>6. Len(queue') = 0 /\ \A i \in 1..0 : FALSE
    BY <2>5
  <2>7. Queued(queue) = <<>>
    <3>1. Last(queue) = CloseItem /\ Front(queue) = SubSeq(queue, 1, 0)
      BY <2>3, <2>4 DEF Last, Front
    <3>2. SubSeq(queue, 1, 0) = <<>>
      BY <1>0
    <3>3. QED  BY <2>2, <3>1, <3>2 DEF Queued
  <2>8. LifeTypes' /\ Opens' /\ ClosesLast'
    <3>1. LifeTypes'
      BY <1>0, <2>2, <2>4, <2>5 DEF LifeTypes
    <3>2. Opens'
      BY <1>0, <2>2, <2>4, <2>5 DEF Opens
    <3>3. ClosesLast'
      BY <2>2, <2>5, <2>6 DEF ClosesLast
    <3>4. QED  BY <3>1, <3>2, <3>3
  <2>9. Accounted(sent', packet', Queued(queue'), lost', finished')
    BY <2>1, <2>2, <2>5, <2>7, FlushAccounts DEF finished
  <2>10. QED  BY <2>8, <2>9 DEF LifeInv
<1>10. CASE Exited
  BY <1>1, <1>10 DEF Exited
<1>11. QED
  BY <1>1, <1>2, <1>3, <1>4, <1>5, <1>6, <1>7, <1>8, <1>9, <1>10 DEF Next, Goroutine

\* Every finished span is in one place only: on its way, with the agent or lost;
\* and those that arrive do so in the order they finished in, whatever packets
\* are lost, and however often the queue was full.
THEOREM SpansAreAccounted == Spec => []SpansAccounted
<1>1. ASSUME LifeInv
      PROVE  SpansAccounted
  <2> DEFINE w == Queued(queue)
             way == sent \o packet \o w
  <2>1. /\ sent \in Seq(Nat) /\ packet \in Seq(Nat) /\ w \in Seq(Nat)
        /\ Ids(sent) \cup Ids(packet) \cup Ids(w) \cup lost = 1..finished
        /\ lost \cap (Ids(sent) \cup Ids(packet) \cup Ids(w)) = {}
        /\ Ascending(sent) /\ Ascending(packet) /\ Ascending(w)
        /\ Before(sent, packet) /\ Before(sent, w) /\ Before(packet, w)
    BY <1>1 DEF LifeInv, Accounted
  <2> HIDE DEF w
  <2>2. /\ sent \o packet \in Seq(Nat) /\ Ids(sent \o packet) = Ids(sent) \cup Ids(packet)
        /\ Ascending(sent \o packet) /\ Before(sent \o packet, w)
    BY <2>1, Concatenated
  <2>3. /\ way \in Seq(Nat) /\ Ascending(way)
        /\ Ids(way) = Ids(sent) \cup Ids(packet) \cup Ids(w)
    BY <2>1, <2>2, Concatenated
  <2> HIDE DEF way
  <2>4. DOMAIN way = 1..Len(way)
    BY <2>3
  <2>5. Range(way) = Ids(way)
    BY <2>4 DEF Range, Ids
  <2>6. QED  BY <2>1, <2>3, <2>4, <2>5 DEF SpansAccounted, Ascending, way, w
<1>2. QED  BY <1>1, InitLifeInv, NextLifeInv, PTL DEF Spec

\* What the reporter holds has limits: the queue, and a packet.
BuffersInv == Len(queue) <= QueueSize /\ Fits(packet)

\* Nothing fits in a packet.
LEMMA EmptyFits == Fits(<<>>)
<1> DEFINE f == [i \in DOMAIN <<>> |-> units[<<>>[i]]]
           Table(g) ==
               g = [U \in SUBSET {} |->
                       IF U = {} THEN 0
                       ELSE f[CHOOSE x \in U : TRUE] + g[U \ {CHOOSE x \in U : TRUE}]]
<1>1. DOMAIN f = {}
  OBVIOUS
<1> HIDE DEF f
<1>2. Table([U \in SUBSET {} |-> 0])
  OBVIOUS
<1>3. SumFunction(f) = (CHOOSE g : Table(g))[{}]
  BY <1>1 DEF SumFunction, SumFunctionOnSet, FoldFunctionOnSet, MapThenFoldSet
<1>4. \A g : Table(g) => g[{}] = 0
  OBVIOUS
<1>5. SumFunction(f) = 0
  <2> HIDE DEF Table
  <2>1. QED  BY <1>2, <1>3, <1>4
<1>6. QED  BY <1>5, SizesAssumption DEF Fits, f

\* What fits in a packet does so when there are more spans.
LEMMA FitsKept ==
    ASSUME LifeInv, Fits(packet), packet' = packet,
           \/ units' = units
           \/ \E n \in Nat : units' = Append(units, n)
    PROVE  Fits(packet)'
<1> DEFINE f == [i \in DOMAIN packet |-> units[packet[i]]]
<1>1. /\ packet \in Seq(Nat) /\ units \in Seq(Nat) /\ DOMAIN packet = 1..Len(packet)
      /\ Ids(packet) \subseteq 1..Len(units)
  BY DEF LifeInv, LifeTypes, Accounted, finished
<1>2. \A j \in 1..Len(units) : units'[j] = units[j]
  BY <1>1
<1>3. \A i \in DOMAIN packet : packet[i] \in 1..Len(units)
  BY <1>1 DEF Ids
<1>4. [i \in DOMAIN packet' |-> units'[packet'[i]]] = f
  BY <1>2, <1>3
<1>5. QED  BY <1>4 DEF Fits

LEMMA InitBuffers == Init => BuffersInv
  BY EmptyFits, SizesAssumption DEF Init, BuffersInv

LEMMA NextBuffers == LifeInv /\ BuffersInv /\ [Next]_vars => BuffersInv'
<1> SUFFICES ASSUME LifeInv, BuffersInv, [Next]_vars PROVE BuffersInv'
  OBVIOUS
<1>1. /\ queue \in Seq(Nat) /\ Len(queue) \in Nat /\ Len(queue) <= QueueSize
      /\ Fits(packet) /\ QueueSize \in Nat
  BY SizesAssumption DEF LifeInv, LifeTypes, BuffersInv
<1>2. ASSUME UNCHANGED <<queue, packet, units>>
      PROVE  BuffersInv'
  BY <1>1, <1>2, FitsKept DEF BuffersInv
<1>3. CASE UNCHANGED vars \/ RunE \/ Closed \/ Exited
  BY <1>2, <1>3 DEF vars, reporter, RunE, Closed, Exited
<1>4. ASSUME NEW err \in BOOLEAN, RunEReturns(err)
      PROVE  BuffersInv'
  BY <1>2, <1>4 DEF RunEReturns, reporter
<1>5. CASE PostRun
  <2>1. /\ UNCHANGED <<packet, units>>
        /\ \/ queue' = queue
           \/ queue' = Append(queue, CloseItem) /\ Len(queue) < QueueSize
    BY <1>5 DEF PostRun, CloseWaits, HasRoom
  <2>2. Len(queue') <= QueueSize
    BY <1>1, <2>1 DEF CloseItem
  <2>3. QED  BY <1>1, <2>1, <2>2, FitsKept DEF BuffersInv
<1>6. ASSUME NEW c \in CallsOf(Contents), FinishSpan(c)
      PROVE  BuffersInv'
  <2>1. /\ packet' = packet /\ units' = Append(units, Units(c)) /\ Units(c) \in Nat
        /\ \/ queue' = queue
           \/ queue' = Append(queue, finished + 1) /\ Len(queue) < QueueSize
    BY <1>6, CallContents, UnitsBounded DEF FinishSpan, HasRoom
  <2>2. Len(queue') <= QueueSize
    BY <1>1, <2>1
  <2>3. QED  BY <1>1, <2>1, <2>2, FitsKept DEF BuffersInv
<1>7. CASE Take
  <2>1. queue # <<>> /\ queue' = Tail(queue) /\ units' = units
    BY <1>7 DEF Take
  <2>2. Len(queue') <= QueueSize
    BY <1>1, <2>1
  <2>3. packet' = packet \/ Fits(packet')
    BY <1>7 DEF Take
  <2>4. Fits(packet)'
    <3>1. CASE packet' = packet
      BY <1>1, <2>1, <3>1, FitsKept
    <3>2. CASE Fits(packet')
      BY <2>1, <3>2 DEF Fits
    <3>3. QED  BY <2>3, <3>1, <3>2
  <2>5. QED  BY <2>2, <2>4 DEF BuffersInv
<1>8. CASE Flush \/ TakeClose
  <2>1. /\ packet' = <<>> /\ units' = units
        /\ queue' = queue \/ (queue # <<>> /\ queue' = Tail(queue))
    BY <1>8 DEF Flush, TakeClose
  <2>2. Len(queue') <= QueueSize
    BY <1>1, <2>1
  <2>3. Fits(packet)'
    BY <2>1, EmptyFits DEF Fits
  <2>4. QED  BY <2>2, <2>3 DEF BuffersInv
<1>9. QED
  BY <1>3, <1>4, <1>5, <1>6, <1>7, <1>8 DEF Next, Goroutine

\* The set of the elements of a sequence has at most as many.
LEMMA IdsCounted ==
    ASSUME NEW s \in Seq(Nat), NEW S \in SUBSET Ids(s)
    PROVE  Cardinality(S) \in Nat /\ Cardinality(S) <= Len(s)
<1>1. Len(s) \in Nat /\ IsFiniteSet(1..Len(s)) /\ Cardinality(1..Len(s)) = Len(s)
  <2> DEFINE n == Len(s)
  <2>1. n \in Nat /\ n \in Int /\ 1 \in Int
    OBVIOUS
  <2> HIDE DEF n
  <2>2. IsFiniteSet(1..n) /\ Cardinality(1..n) = IF 1 > n THEN 0 ELSE n - 1 + 1
    BY <2>1, FS_Interval
  <2>3. QED  BY <2>1, <2>2 DEF n
<1>2. IsFiniteSet(Ids(s)) /\ Cardinality(Ids(s)) <= Len(s)
  <2>1. [i \in 1..Len(s) |-> s[i]] \in Surjection(1..Len(s), Ids(s))
    BY DEF Surjection, Ids
  <2>2. QED  BY <1>1, <2>1, FS_Surjection
<1>3. QED  BY <1>1, <1>2, FS_Subset, FS_CardinalityType

\* A command that succeeded has closed its tracer, which left no span behind
\* (cli.go:24); one that failed loses what one packet and a queue hold (cli.go:23),
\* for every size of them and however many spans there were.
THEOREM LittleIsLost == Spec => []EndLosesLittle
<1>1. LifeInv /\ phase = "done" /\ ~failed => tracer # "open" /\ queue = <<>> /\ packet = <<>>
  BY DEF LifeInv, Opens
<1>2. ASSUME LifeInv, BuffersInv
      PROVE  /\ Fits(packet)
             /\ Cardinality((1..finished) \ (Range(sent \o packet) \cup lost)) <= QueueSize
  <2> DEFINE w == Queued(queue)
             left == (1..finished) \ (Range(sent \o packet) \cup lost)
  <2>1. /\ sent \in Seq(Nat) /\ packet \in Seq(Nat) /\ w \in Seq(Nat)
        /\ Ids(sent) \cup Ids(packet) \cup Ids(w) \cup lost = 1..finished
    BY <1>2 DEF LifeInv, Accounted
  <2>2. sent \o packet \in Seq(Nat) /\ Ids(sent \o packet) = Ids(sent) \cup Ids(packet)
    BY <2>1, Concatenated
  <2>3. Range(sent \o packet) = Ids(sent) \cup Ids(packet)
    <3> DEFINE c == sent \o packet
    <3> HIDE DEF c
    <3>1. c \in Seq(Nat) => Range(c) = Ids(c)
      BY DEF Range, Ids
    <3>2. QED  BY <2>2, <3>1 DEF c
  <2>4. Len(w) <= Len(queue) /\ Len(queue) \in Nat
    BY <1>2 DEF LifeInv, LifeTypes, Queued, Front
  <2> HIDE DEF w
  <2>5. left \in SUBSET Ids(w)
    BY <2>1, <2>3
  <2> HIDE DEF left
  <2>6. Cardinality(left) \in Nat /\ Cardinality(left) <= Len(w) /\ Len(w) \in Nat
    BY <2>1, <2>5, IdsCounted
  <2>7. Cardinality(left) <= QueueSize
    BY <1>2, <2>4, <2>6, SizesAssumption DEF BuffersInv
  <2>8. QED  BY <1>2, <2>7 DEF BuffersInv, left
<1>3. LifeInv /\ BuffersInv => EndLosesLittle
  BY <1>1, <1>2 DEF EndLosesLittle
<1>4. QED
  BY <1>3, InitLifeInv, NextLifeInv, InitBuffers, NextBuffers, PTL DEF Spec

\* utils.go:6: a span that is too big for a packet is that of a call with a long
\* error, more than six messages or more than two sub-messages.
THEOREM BatchesTooBig == Spec => OnlyBatchesTooBig
<1>1. ASSUME NEW c \in CallsOf(Contents), FinishSpan(c), Last(units') = TooBig,
             LifeInv
      PROVE  \/ c.error = Long
             \/ c.op = "ante_handler" /\ c.parts > 6
             \/ c.op = "wasmvm_execute" /\ c.parts > 2
  <2>1. /\ c \in AnyContents /\ c.error \in {0, Short, Long} /\ c.parts \in Nat
    BY CallContents
  <2>2. Units(c) = TooBig
    <3>1. units \in Seq(Nat) /\ Units(c) \in Nat
      BY <1>1, <2>1, UnitsBounded DEF LifeInv, LifeTypes
    <3>2. units' = Append(units, Units(c))
      BY <1>1 DEF FinishSpan
    <3>3. QED  BY <1>1, <3>1, <3>2 DEF Last
  <2>3. ~(Bytes(c) <= PacketBytes)
    BY <2>1, <2>2, UnitsBounded
  <2>4. c.error # Long => c.error <= 2000
    BY <2>1 DEF Short, Long
  <2>5. QED  BY <2>1, <2>3, <2>4, SpansFit
<1>2. LifeInv /\ [Next]_vars =>
         [\A c \in CallsOf(Contents) :
             FinishSpan(c) /\ Last(units') = TooBig =>
                 \/ c.error = Long
                 \/ c.op = "ante_handler" /\ c.parts > 6
                 \/ c.op = "wasmvm_execute" /\ c.parts > 2]_vars
  BY <1>1
<1>3. QED  BY <1>2, InitLifeInv, NextLifeInv, PTL DEF Spec, OnlyBatchesTooBig
=============================================================================
