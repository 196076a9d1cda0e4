SPECIFICATION Spec
CONSTANTS
    studio = studio
    laptop = laptop
    desktop = desktop
    home = home
    abroad = abroad
    None = none
    Machines = {studio, laptop}
    Codes = {1, 2}
    Maker <- EachMakesOne
    Addresses <- Shared
    Tries <- Anywhere
    MaxFaults = 0

INVARIANT HubOrJoined

CHECK_DEADLOCK FALSE
