CONSTANTS
    Attempts = {a1, a2}
    Accounts = {x}
    NoAccount = NoAccount
    NoAttempt = NoAttempt
    Unreadable = Unreadable
    Heartbeats = {h1}
    MaxSaves = 1
    MaxCrashes = 1
SPECIFICATION FairSpec
INVARIANTS TypeOK WholeLogin OutcomeMatchesAnswer LoginKnowsAccount
CHECK_DEADLOCK FALSE
PROPERTIES PacketOfLogin LoginReturns HeartbeatStops
