SPECIFICATION FairSpec
CONSTANTS
    hub = hub
    hub2 = hub2
    spoke = spoke
    spoke2 = spoke2
    NoOrigin = none
    Nodes = {hub, spoke, spoke2}
    Acts = {1, 2}
    MaxSeq = 4
    Links <- TwoSpokes
    Author <- MixedAuthor
    Sharing = {spoke}
    Newer = {1}
    Malformed = {}
    BatchEvents = 1
    PageEvents = 1
    FirstKeys <- AllKeys
    FirstGrants <- HubGrantsAll
    FirstOld = {spoke2}
    Budget <- OneLoss

PROPERTY Delivered
