SPECIFICATION FairSpec
CONSTANTS
    t1 = t1
    t2 = t2
    t3 = t3
    Tasks = {t3}
    NoTask = NoTask
    Length <- Lengths
    Declared <- DeclaredSizes
    Chunk = 2
PROPERTY FallsBack
\* every upload has ended
CHECK_DEADLOCK FALSE
