SPECIFICATION Spec
CONSTANTS
    hub = hub
    hub2 = hub2
    spoke = spoke
    spoke2 = spoke2
    NoOrigin = none
    Nodes = {hub, spoke}
    Acts = {1, 2}
    MaxSeq = 4
    Links <- OneSpoke
    Author <- SpokeAuthor
    Sharing = {spoke}
    Newer = {}
    Malformed = {}
    BatchEvents = 1
    PageEvents = 1
    FirstKeys <- AllKeys
    FirstGrants <- HubGrantsAll
    FirstOld = {}
    Budget <- RestoreOnly

INVARIANT NoDoubleCount
