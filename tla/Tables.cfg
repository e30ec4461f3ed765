SPECIFICATION TablesSpec
CONSTANTS
    Lower <- MCLower
    MaxCnameDepth = 2
    StaticTtl = 300
    DayHours = 2
    HourMinutes = 2
    MinuteSecs = 2
    MinTrusted = 4
    V4Bits = 2
    V6Bits = 5
    MappedPrefix = 5
    V4Kept = 1
    V6Kept = 2
    PrivateV4 = {0, 1, 2}
    PrivateV6 = {0, 1, 2}
    AlwaysSkipped <- MCAlwaysSkipped
    LoopbackV4 = {1, 2}
    LocalhostV4 = 1
    ChainZones <- MCChainZones
    ChainQueries <- MCChainQueries
    AuthorityConfigs <- MCAuthorityConfigs
    MeshBundles <- MCBundles
    WindowLists <- MCWindowLists
    Instants <- MCInstants
    Denylists <- MCDenylists
    Clients <- MCClients
    Answers <- MCAnswers
    Questions <- MCQuestions
    SourceLists <- MCSourceLists
    Allowlists <- MCAllowlists
    Patterns <- MCPatterns
    Spellings <- MCSpellings
    RewriteLists <- MCRewriteLists
    RewriteQueries <- MCRewriteQueries
    Engines <- MCEngines
    Configs <- MCConfigs
    ReloadConfigs <- MCReloadConfigs
    TopLabels <- MCTopLabels
    FreshLabel = "fresh"
INVARIANTS
    AuthorityAnswers
    WindowsHold
    AddressesHold
    AnswersFiltered
    ListsBlock
    RewritesAnswer
    ListenersSeparate
    AcceptedInForce
    ReloadsReported
