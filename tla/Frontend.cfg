\* A DoH request and a plain query, rings of none, one and two, a channel of one,
\* answers that lose two records.
CONSTANTS
    Requests = {r1, r2}
    Doh = {r1}
    Verdicts <- MCVerdicts
    Dropped = {2}
    RingSizes = {0, 1, 2}
    ChannelCap = 1
    MaxRendered = 1
    None = None
SPECIFICATION FairSpec
INVARIANTS
    TypeOK
    CountersAgree
    LoggedOnce
    DohAnswersAsLogged
PROPERTIES
    EveryRequestEnds
