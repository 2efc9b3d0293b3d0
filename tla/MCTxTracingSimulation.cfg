SPECIFICATION Spec
CONSTANTS
    Event = {e1}
    MaxEvents = 1
    MaxDepth = 3
    MaxSpans = 3
    MaxMsgs = 1
INVARIANT SimulationsUntraced
