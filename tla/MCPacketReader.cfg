\* Two packets, one after the other, cut in the fixed header, in the first
\* length of a string, or inside the payload.
CONSTANTS
    Packets <- MCPackets
    MaxPackets = 2
    Cuts = {1, 2, 9}
SPECIFICATION Spec
INVARIANT TypeOK
INVARIANT InStep
INVARIANT AsSent
 
INVARIANT Forwarded
CHECK_DEADLOCK FALSE
