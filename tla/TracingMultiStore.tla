--------------------------- MODULE TracingMultiStore ---------------------------
(***************************************************************************)
(* store.go: the multistore a traced call installs in its context.  A      *)
(* multistore is the stack of tracing layers around a plain one, base: the *)
(* number of cache branches that are open below it.  An operation enters   *)
(* at the outermost layer, the last one, and every layer hands it on.      *)
(***************************************************************************)
EXTENDS Naturals, Sequences

Layers == [span: Nat, writesOnly: BOOLEAN]
MultiStores == [base: Nat, layers: Seq(Layers)]

PlainMultiStore(base) == [base |-> base, layers |-> <<>>]

\* Mutant: the new layer replaces the ones below it.
NewTracingMultiStoreAlone(ms, span, writesOnly) ==
    [ms EXCEPT !.layers = <<[span |-> span, writesOnly |-> writesOnly]>>]

NewTracingMultiStore(ms, span, writesOnly) ==
    [ms EXCEPT !.layers = Append(@, [span |-> span, writesOnly |-> writesOnly])]

\* CacheMultiStore is promoted from the embedded multistore: the branch is
\* taken below the tracing layers and has none of them.
CacheMultiStore(ms) == PlainMultiStore(ms.base + 1)

SpansOf(ms) == {ms.layers[i].span : i \in DOMAIN ms.layers}

\* Mutant: the test of traceWritesOnly is inverted.
KVStoreRecordsInverted(ms, op) ==
    {ms.layers[i].span :
        i \in {j \in DOMAIN ms.layers : op = "read" \/ ms.layers[j].writesOnly}}

\* GetKVStore: the spans whose buffer records op ("read" or "write").  A
\* writes-only layer sends reads past its trace store to the parent.
KVStoreRecords(ms, op) ==
    {ms.layers[i].span :
        i \in {j \in DOMAIN ms.layers : op = "write" \/ ~ms.layers[j].writesOnly}}

\* GetStore: the outermost layer records reads too, whatever its setting.
StoreRecords(ms, op) ==
    LET n == Len(ms.layers) IN
    KVStoreRecords(ms, op) \cup (IF n = 0 THEN {} ELSE {ms.layers[n].span})

\* The spans whose infinite storage meter is charged: gaskv sits under every
\* layer GetKVStore builds, GetStore builds none for its own layer.
KVStoreCharges(ms) == SpansOf(ms)
StoreCharges(ms) ==
    LET n == Len(ms.layers) IN
    {ms.layers[i].span : i \in {j \in DOMAIN ms.layers : j < n}}
=============================================================================
