SPECIFICATION FairSpec
CONSTANTS
    t1 = t1
    t2 = t2
    t3 = t3
    Tasks = {t1, t2, t3}
    NoTask = NoTask
    Length <- Lengths
    Declared <- DeclaredSizes
    Chunk = 2
INVARIANTS TypeOK DeliveredWhole OneTicket
PROPERTY UploadEnds
\* every upload has ended
CHECK_DEADLOCK FALSE
