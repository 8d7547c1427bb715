CONSTANTS
    a = a
    b = b
    upper = upper
    spaced = spaced
    None = None
    Profiles = {a, b}
    Names = {a, b}
    Name <- OwnName
    Trimmed <- Space
    Lowered <- Case
    Folded <- Case
    ContainerIds = {c1}
    ImageIds = {}
    Keys = {"refresh","open","back","stop","remove","start","confirm","cancel","profiles","move"}
    MaxGeneration = 4
    MaxPulls = 0
    MaxStreams = 0
SPECIFICATION Spec
INVARIANTS TypeOK SessionIsTarget ConnectionIsAnswered
PROPERTIES ConfirmedMutations RemovedStaysGone
