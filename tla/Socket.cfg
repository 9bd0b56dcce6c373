SPECIFICATION FairSpec
CONSTANTS
    Senders = {s1, s2}
    Sends = 2
    Frames = 4
    Oversize = {4}
    Capacity = 2
INVARIANTS TypeOK OutboundInOrder InboundInOrder
PROPERTIES SendersProgress FramesDelivered
\* every packet and frame has been sent, or the connection is closed
CHECK_DEADLOCK FALSE
