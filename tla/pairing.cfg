SPECIFICATION Spec
CONSTANTS
    studio = studio
    laptop = laptop
    desktop = desktop
    home = home
    abroad = abroad
    None = none
    Machines = {studio, laptop, desktop}
    Codes = {1, 2}
    Maker <- StudioMakes
    Addresses <- Moved
    Tries <- NotTwiceOnStudio
    MaxFaults = 2
SYMMETRY Joiners

INVARIANTS
    AllowedAsShown
    OneMachinePerCode
    OneAdmitted
    AdmittedIsAnswered
PROPERTIES
    AllowedIsAnswered
    LeavesNothing

CHECK_DEADLOCK FALSE
