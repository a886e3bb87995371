\* As many handlers as packets: no event finds every handler busy for ever.
CONSTANTS
    Handlers = {h1, h2, h3}
    MaxPackets = 3
    MaxPushes = 2
    None = None
SPECIFICATION Spec
INVARIANT TypeOK
INVARIANT SentInOrder
INVARIANT OneReaderUntilAnswer
PROPERTY InputIsRead
CHECK_DEADLOCK FALSE
