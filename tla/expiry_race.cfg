SPECIFICATION Spec
CONSTANTS
    r1 = r1
    r2 = r2
    degree = degree
    web1 = web1
    web2 = web2
    cron1 = cron1
    cron2 = cron2
    sweep1 = sweep1
    NoRecord = NoRecord
    PlatformKey = PlatformKey
    IssuerKey = IssuerKey
    ZeroAddress = ZeroAddress
    ZeroHash = ZeroHash
    Credential <- OneCredential
    CredentialOf <- SameCredential
    Record <- OneRecord
    Web <- OneRequest
    Retriers <- OneRetrier
    Sweepers <- OneSweeper
    MaxAttempts = 5
    NamesReverts = TRUE
    Faults = {}
    MaxFaults = 0
PROPERTIES
    OnlyUnansweredLapse
CHECK_DEADLOCK FALSE
