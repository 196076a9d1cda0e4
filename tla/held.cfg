SPECIFICATION Spec
CONSTANTS
    hub = hub
    hub2 = hub2
    spoke = spoke
    spoke2 = spoke2
    NoOrigin = none
    Nodes = {hub, hub2, spoke2}
    Acts = {1, 2, 3, 4}
    MaxSeq = 4
    Links <- Bridge
    Author <- BridgeAuthor
    Sharing = {spoke2}
    Newer = {3}
    Malformed = {1}
    BatchEvents = 2
    PageEvents = 1
    FirstKeys <- BridgeLacksH
    FirstGrants <- BridgeGrants
    FirstOld = {hub2}
    Budget <- OneEdit

INVARIANTS
    NoHole
    Admission
