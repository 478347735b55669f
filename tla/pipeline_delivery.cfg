SPECIFICATION FairSpec
CONSTANTS
    r1 = r1
    r2 = r2
    degree = degree
    web1 = web1
    web2 = web2
    cron1 = cron1
    cron2 = cron2
    sweep1 = sweep1
    NoRecord = NoRecord
    PlatformKey = PlatformKey
    IssuerKey = IssuerKey
    ZeroAddress = ZeroAddress
    ZeroHash = ZeroHash
    Credential <- OneCredential
    CredentialOf <- SameCredential
    Record <- OneRecord
    Web <- TwoRequests
    Retriers <- OneRetrier
    Sweepers <- Nobody
    MaxAttempts = 5
    NamesReverts = TRUE
    Faults = {"outage", "timeout", "crash"}
    MaxFaults = 2
INVARIANTS
    NothingForgotten
PROPERTIES
    AttemptsSettle
CHECK_DEADLOCK FALSE
