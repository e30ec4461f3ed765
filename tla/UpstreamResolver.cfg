\* Two resolutions at a time, keys that are rotated once.
CONSTANTS
    Queries = {q1, q2}
    Names <- MCNames
    Configs <- MCConfigs
    UrlKind <- MCUrlKind
    Attempts = 2
    MaxKeys = 2
    MaxChain = 1
SPECIFICATION FairSpec
INVARIANTS
    LeavesByItsRoute
    RotationCostsARetry
PROPERTY EveryResolutionEnds
