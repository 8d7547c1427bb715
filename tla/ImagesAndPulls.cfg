CONSTANTS
    a = a
    b = b
    upper = upper
    spaced = spaced
    None = None
    Profiles = {a, b}
    Names = {a, b}
    Name <- OwnName
    Trimmed <- Space
    Lowered <- Case
    Folded <- Case
    ContainerIds = {}
    ImageIds = {i1}
    Keys = {"images","refresh","open","back","esc","remove","confirm","cancel","profiles","move","pull","accept"}
    MaxGeneration = 4
    MaxPulls = 4
    MaxStreams = 0
SPECIFICATION Spec
INVARIANTS ImagesStayHome ImagesFromHost FeedIsCurrent
PROPERTY ImageExplanationStays
