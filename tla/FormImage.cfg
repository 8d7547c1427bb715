CONSTANTS
    a = a
    b = b
    upper = upper
    spaced = spaced
    None = None
    Profiles = {a}
    Names = {a, b}
    Name <- OwnName
    Trimmed <- Space
    Lowered <- Case
    Folded <- Case
    ContainerIds = {c1}
    ImageIds = {i1, i2}
    Keys = {"images","esc","pull","new","accept","confirm","cancel","quit","move"}
    MaxGeneration = 6
    MaxPulls = 4
    MaxStreams = 0
SPECIFICATION Spec
PROPERTY FormKeepsItsImage
