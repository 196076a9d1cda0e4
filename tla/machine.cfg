SPECIFICATION FairSpec
CONSTANTS
    None = none
    mine = mine
    later = later
    theirs = theirs
    g = g
    q = q
    r = r
    Texts = {1, 2}
    Acts = {mine, later, theirs}
    Claimed <- ClaimedOf
    Machines = {g}
    Requests = {q, r}
    Agendas <- AllAgendas

INVARIANTS
    TypeOK
    CountedOnce
    VectorsFit
    ServedAsLogged
    StateIsTrue
    RanOnce
    OneSession
    OneOwner
PROPERTIES
    NeverRaised
    AppsFollow
    ClosesUninvited
    Answered
    Shown

\* Nothing runs, and nobody starts anything any more.
CHECK_DEADLOCK FALSE
