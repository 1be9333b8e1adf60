\* Two messages of every kind, cut anywhere; a vector of two bytes that has to
\* grow and to be compacted, a stack buffer of three.
SPECIFICATION FairHttpSpec
CONSTANTS
    Bad = Bad
    Malformed = Bad
    None = None
    Messages <- MCMessages
    MaxMessages = 2
    InitSize = 2
    Extra = 3
INVARIANTS
    BufferHoldsRest
    RequestsAsSent
PROPERTIES
    OnMessageReturns
CHECK_DEADLOCK FALSE
