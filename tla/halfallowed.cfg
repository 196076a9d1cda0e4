SPECIFICATION Spec
CONSTANTS
    studio = studio
    laptop = laptop
    desktop = desktop
    home = home
    abroad = abroad
    None = none
    Machines = {studio, laptop}
    Codes = {1, 2}
    Maker <- StudioMakes
    Addresses <- Shared
    Tries <- Anywhere
    MaxFaults = 1

INVARIANT AllowIsWhole

CHECK_DEADLOCK FALSE
