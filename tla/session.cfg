SPECIFICATION Spec
CONSTANTS
    asha = asha
    bina = bina
    q1 = q1
    q2 = q2
    Nobody = Nobody
    NoPair = NoPair
    NoOrg = NoOrg
    NoNext = NoNext
    User <- TwoUsers
    RoleOf <- Roles
    KindOf <- Kinds
    Query <- OneQuery
    Visited = {"citizen", "employer"}
    MaxPairs = 2
    MaxRefreshes = 2
    MaxLoads = 1
INVARIANTS
    TypeOK
    SessionCoherent
    OneRefresh
    SessionKeptAlive
    NoCallStranded
PROPERTIES
    RedirectsLand
    EveryVisitSettles
    DeadSessionNotRestored
CHECK_DEADLOCK FALSE
