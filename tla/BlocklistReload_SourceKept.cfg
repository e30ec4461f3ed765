\* The same promise with the periodic loop running.
CONSTANTS
    Reloaders = {main, loop}
    Main = main
    NumGroups = 0
    MaxVersion = 1
    file = file
    url = url
    ads = ads
    cdn = cdn
    shop = shop
    None = None
    Sources <- MCSources
    LocalFiles <- MCLocalFiles
    RemoteUrls <- MCRemoteUrls
    TrustedRpz <- MCTrustedRpz
    Names <- MCNames
    AllowEntries <- MCAllowEntries
    RegexNames <- MCRegexNames
    Body <- MCBody
SPECIFICATION FairSpec
PROPERTY SourceKept
