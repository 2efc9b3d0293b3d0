-------------------------------- MODULE SpanSize --------------------------------
(***************************************************************************)
(* How many bytes the decorators log in a span: utils.go cuts every value, *)
(* tracing.go logs some for every call, the decorators log their own, some *)
(* of them one for each message or sub-message.  The agent takes spans up  *)
(* to the size of a UDP packet.                                            *)
(*                                                                         *)
(* Of a value only its length counts, and values have no blanks around     *)
(* them that cutLength would take off as well.                             *)
(***************************************************************************)
EXTENDS Naturals

\* utils.go
MaxStoreTraced    == 5000
MaxSDKMsgTraced   == 5000
MaxSDKLogTraced   == 5000
MaxIBCPacketDescr == 5000
DefaultMaxLength  == 10000
CutMark           == 11     \* the length of "... >-8 cut"

\* jaeger-client: the size of a packet, and what names, numbers and tags, each
\* cut to 256 bytes, take of it at most.
PacketBytes == 65000
Envelope    == 2500

cutLength(length, max) == IF length > max THEN max + CutMark ELSE length

\* Mutant: fields are logged as they are.
safeLogFieldUncut(length) == length

safeLogField(length) == cutLength(length, DefaultMaxLength)

-----------------------------------------------------------------------------
(* What a call logs *)

\* The operations, in groups that log the same.
Ops == {"ante_handler", "service", "new_msg_router", "messenger", "wasm_query",
        "wasmvm_execute", "wasmvm_ibc", "wasmvm_query", "ibc_packet_recv",
        "ibc_packet_ack", "ibc_chan_open_try", "module_end_block", "other"}

\* One value for each message of a transaction or sub-message of a response.
Parted == {"ante_handler", "wasmvm_execute"}

\* Callbacks that go on in the context of the caller leave nothing to log in the
\* work context.
Ignoring == {"wasmvm_execute", "wasmvm_ibc", "wasmvm_query", "ibc_packet_recv"}

Short == 100
Long  == 20000     \* longer than every limit

\* A call: all its values are as long as value, its error as long as error (0: none).
Contents == [op: Ops, parts: {0, 2, 3, 6, 7}, value: {Short, Long}, error: {0, Short, Long}]
CallsOf(contents) == {c \in contents : c.op \in Parted \/ c.parts = 0}

WorkFields(c) ==
    IF c.op \in Ignoring THEN 0
    ELSE cutLength(c.value, MaxStoreTraced) + cutLength(c.value, MaxSDKLogTraced)
            + 2 * safeLogField(c.value)     \* events, gas

\* Fields of single decorators; tags are in the envelope.
RawSDKMessages(c) == c.parts * safeLogField(cutLength(c.value, MaxSDKMsgTraced))
tryLogWasmMsg(c) == safeLogField(c.value)
logResultData(c) == safeLogField(c.value)
addTagsFromWasmQuery(c) == 2 * safeLogField(c.value)         \* raw, decoded
addTagsFromWasmContractMsg(c) == 2 * safeLogField(c.value)   \* raw, decoded
ContractInputMsgRecorder(c) == safeLogField(c.value)
ContractVmResponseRecorder(c) == (3 + c.parts) * safeLogField(c.value)
ContractGenericResponseRecorder(c) == safeLogField(c.value)
PacketFields(c) ==
    safeLogField(c.value) + safeLogField(cutLength(c.value, MaxIBCPacketDescr))

\* Whatever comes of the call.
FieldsBefore(c) ==
    CASE c.op = "ante_handler" -> RawSDKMessages(c)
      [] c.op = "new_msg_router" -> tryLogWasmMsg(c)
      [] c.op = "wasm_query" -> addTagsFromWasmQuery(c)
      [] c.op = "messenger" -> addTagsFromWasmContractMsg(c)
      [] c.op \in {"wasmvm_execute", "wasmvm_ibc", "wasmvm_query"} -> ContractInputMsgRecorder(c)
      [] c.op = "ibc_packet_recv" -> PacketFields(c)
      [] c.op = "ibc_packet_ack" -> safeLogField(c.value)
      [] c.op = "ibc_chan_open_try" /\ c.error > 0 -> safeLogField(c.value)
      [] OTHER -> 0

\* Only of a call that succeeded.
FieldsAfter(c) ==
    CASE c.op = "wasmvm_execute" -> ContractVmResponseRecorder(c)
      [] c.op \in {"wasmvm_ibc", "wasmvm_query"} -> ContractGenericResponseRecorder(c)
      [] c.op = "new_msg_router" -> logResultData(c)
      [] c.op \in {"service", "wasm_query", "ibc_packet_recv", "module_end_block"} -> safeLogField(c.value)
      [] OTHER -> 0

\* The text of an error is not cut.
Bytes(c) ==
    Envelope + WorkFields(c) + FieldsBefore(c)
        + IF c.error > 0 THEN c.error ELSE FieldsAfter(c)
=============================================================================
