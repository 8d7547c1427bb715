CONSTANTS
    a = a
    b = b
    upper = upper
    spaced = spaced
    None = None
    Profiles = {a, b}
    Names = {a, b}
    Name <- OwnName
    Trimmed <- Space
    Lowered <- Case
    Folded <- Case
    ContainerIds = {c1}
    ImageIds = {}
    Keys = {"refresh","profiles","move","open","back","quit"}
    MaxGeneration = 3
    MaxPulls = 0
    MaxStreams = 0
SPECIFICATION Spec
INVARIANT InventoryOfTarget
