SPECIFICATION FairLocksSpec
CONSTANTS
    Clients = {c1, c2}
    Watcher = Watcher
    Workers = 2
    Paths <- TwoPaths
    Captures <- OneOrTwo
    Untracked = Untracked
    Calls <- MCCalls
    NoLimit = NoLimit
    MaxEvents = 1
INVARIANTS
    LocksTypeOK
    QueryTakesFirst
PROPERTIES
    CallsAreAnswered
    EventsAreHandled
