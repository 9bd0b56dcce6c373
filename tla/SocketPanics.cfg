SPECIFICATION Spec
CONSTANTS
    Senders = {s1}
    Sends = 1
    Frames = 1
    Oversize = {}
    Capacity = 1
INVARIANT ChannelOpen
\* every packet and frame has been sent, or the connection is closed
CHECK_DEADLOCK FALSE
