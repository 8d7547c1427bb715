CONSTANTS
    a = a
    b = b
    upper = upper
    spaced = spaced
    None = None
    Profiles = {a, b}
    Names = {a, b}
    Name <- OwnName
    Trimmed <- Space
    Lowered <- Case
    Folded <- Case
    ContainerIds = {}
    ImageIds = {}
    Keys = {"profiles","move","back","cancel","remove","edit","quit"}
    MaxGeneration = 3
    MaxPulls = 0
    MaxStreams = 0
SPECIFICATION Spec
INVARIANT NoPanic
