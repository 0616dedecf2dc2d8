SPECIFICATION Spec
CONSTANTS
    c1 = c1
    c2 = c2
    Calls = {c1, c2}
    Uses <- MCUses
    Ttl <- MCTtl
    OldHub = OldHub
    NewHub = NewHub
    NoIdentity = NoIdentity
    NoCall = NoCall
    Republish = 1
    Skew = 0
    MaxTime = 5
    MaxOpen = 1
    MaxFaults = 1
INVARIANTS
    TurnRunsOnce
PROPERTIES
    AnswersAreCurrent
    EveryCallReturns
