CONSTANTS
    Callers = {c1}
    Yielders = {Ladder}
    Home = Home
    Reaper = Reaper
    Ladder = Ladder
    Tokens <- MCTokens
    TTL = 1
    Channels = {d1, d2}
    Budget = TRUE
    NoProc = NoProc
    NoChan = NoChan
    NoToken = NoToken
    MaxNow = 2
SPECIFICATION FairSpec
INVARIANTS
    RemovedStaysOut
    ChannelsExact
    RuntimeHasChannel
PROPERTIES
    FixedStays
    RemoveCompletes
CHECK_DEADLOCK FALSE
