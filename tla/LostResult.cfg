CONSTANTS
    a = a
    b = b
    upper = upper
    spaced = spaced
    None = None
    Profiles = {a}
    Names = {a, b}
    Name <- OwnName
    Trimmed <- Space
    Lowered <- Case
    Folded <- Case
    ContainerIds = {c1}
    ImageIds = {}
    Keys = {"refresh","stop","confirm","cancel","quit"}
    MaxGeneration = 3
    MaxPulls = 0
    MaxStreams = 0
SPECIFICATION Spec
PROPERTY ResultsAreShown
