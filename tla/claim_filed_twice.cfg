SPECIFICATION Spec
CONSTANTS
    a1 = a1
    a2 = a2
    c1 = c1
    c2 = c2
    p1 = p1
    p2 = p2
    i1 = i1
    i2 = i2
    t1 = t1
    t2 = t2
    Account <- Accounts
    Chain <- Chains
    ChainId = c1
    Nothing = Nothing
    MaxInbox = 3
    MaxChanges = 2
    MaxClicks = 2
    Subject <- Subjects
    Blank = Blank
    MaxSends = 2
    MaxVisits = 2
    Item <- Items
    NoReason = NoReason
    MaxDecisions = 2
    MaxOthers = 2
    Tab <- Tabs
    ViewLimit = 1
    MaxAsks = 4
INVARIANTS ClaimFiledOnce
CHECK_DEADLOCK FALSE
