\* One packet, for instance the CONNECT, and its answer.
CONSTANTS
    Handlers = {h1}
    MaxPackets = 1
    MaxPushes = 0
    None = None
SPECIFICATION Spec
PROPERTY AnswerIsSent
CHECK_DEADLOCK FALSE
