SPECIFICATION WireSpec
CONSTANTS
    Threads = {t1, t2}
    Byte = 16
    Width = 65536
    Offsets = {65533, 65534}
    MaxTaken = 4
    Kinds = {"login", "fetchQrCode", "queryResult", "oidb", "heartbeat"}
    Sessions <- MCSessions
    TlvSets <- MCTlvSets
    OtherUin <- MCOtherUin
INVARIANTS TypeOK NumbersConsecutive PacketReadable AnswerUnderstood
PROPERTY CallersReturn
\* threads stop asking for numbers at the bound
CHECK_DEADLOCK FALSE
