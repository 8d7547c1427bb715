CONSTANTS
    a = a
    b = b
    upper = upper
    spaced = spaced
    None = None
    Profiles = {a}
    Names = {a, b}
    Name <- OwnName
    Trimmed <- Space
    Lowered <- Case
    Folded <- Case
    ContainerIds = {c1}
    ImageIds = {i1}
    Keys = {"back","logs","stats","images","open","restart","remove","confirm","cancel","filter","move","accept","quit"}
    MaxGeneration = 3
    MaxPulls = 0
    MaxStreams = 5
SPECIFICATION Spec
INVARIANT ViewIsFed
