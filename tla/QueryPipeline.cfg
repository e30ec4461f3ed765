\* One query after the other, and everything that can be swapped under them.
CONSTANTS
    home = home
    corp = corp
    site = site
    ads = ads
    public = public
    private = private
    denied = denied
    kid = kid
    lab = lab
    admin = admin
    guest = guest
    strict = strict
    later = later
    Default = Default
    Queries = {q1}
    Requests <- MCRequests
    Names <- MCNames
    Addrs <- MCAddrs
    Configs <- MCConfigs
    Policies <- MCPolicies
    Rewrites <- MCRewrites
    Routed <- MCRouted
    BlockPrivate <- MCBlockPrivate
    Groups = {strict}
    GroupNames = {strict, later}
    ListStates <- MCListStates
    OwnNames = {home}
    OwnRecords <- MCOwnRecords
    Pin <- MCPin
    Answers <- MCAnswers
    PrivateAddrs = {private}
    DeniedAddrs = {denied}
    BlockCname = TRUE
    BlockResponse = "sinkhole"
    Sinkhole <- MCSinkhole
    Unset = Unset
    NoRequest = NoRequest
    UdpRoom = 1
SPECIFICATION FairSpec
INVARIANTS
    NothingLeaks
    NoBlockedAnswer
    NoRebinding
    LoggedAsSent
PROPERTY EveryQueryEnds
