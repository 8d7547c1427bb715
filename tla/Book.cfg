CONSTANTS
    a = a
    b = b
    upper = upper
    spaced = spaced
    None = None
    Profiles = {a, b, spaced}
    Names = {a, b, upper, spaced}
    Name <- OwnName
    Trimmed <- Space
    Lowered <- Case
    Folded <- Case
    ContainerIds = {}
    ImageIds = {}
    Keys = {"profiles","back","cancel","new","edit","save","move","open","remove","quit"}
    MaxGeneration = 2
    MaxPulls = 0
    MaxStreams = 0
SPECIFICATION Spec
INVARIANT ActiveIsSaved
PROPERTY OnlyRefusedEditsSpoil
