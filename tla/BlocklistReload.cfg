\* The main task alone, and with the periodic loop beside it.
CONSTANTS
    Reloaders = {main, loop}
    Main = main
    NumGroups = 1
    MaxVersion = 1
    file = file
    url = url
    ads = ads
    cdn = cdn
    shop = shop
    None = None
    Sources <- MCSources
    LocalFiles <- MCLocalFiles
    RemoteUrls <- MCRemoteUrls
    TrustedRpz <- MCTrustedRpz
    Names <- MCNames
    AllowEntries <- MCAllowEntries
    RegexNames <- MCRegexNames
    Body <- MCBody
SPECIFICATION FairSpec
INVARIANTS
    FallbackExists
    AllowsAsConfigured
PROPERTIES
    SerialNeverGoesBack
    LoopCatchesUp
