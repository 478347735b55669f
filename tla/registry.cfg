SPECIFICATION Spec
CONSTANTS
    deployer = deployer
    uni = uni
    h1 = h1
    h2 = h2
    h3 = h3
    zeroAddress = zeroAddress
    zeroHash = zeroHash
    Account <- MCAccount
    ZeroAddress = zeroAddress
    Hash <- MCHash
    ZeroHash = zeroHash
    Reason <- MCReason
    Deployer = deployer
    MaxBatch = 2
    MaxTime = 2
SYMMETRY HashSymmetry
INVARIANTS
    TypeOK
    IndexExact
    CorrectionsResolve
    IssuedInGoodStanding
    RevocationExplained
PROPERTIES
    AppendOnly
