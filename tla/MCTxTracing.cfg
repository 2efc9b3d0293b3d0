SPECIFICATION Spec
CONSTANTS
    Event = {e1, e2}
    MaxEvents = 2
    MaxDepth = 5
    MaxSpans = 5
    MaxMsgs = 2
INVARIANTS TypeOK GuardsAgree OneTrace ContextFound ResponseFaithful
