CONSTANTS
    a = a
    b = b
    upper = upper
    spaced = spaced
    None = None
    Profiles = {a}
    Names = {a, b}
    Name <- OwnName
    Trimmed <- Space
    Lowered <- Case
    Folded <- Case
    ContainerIds = {c1}
    ImageIds = {i1, i2}
    Keys = {"images","esc","pull","new","accept","invalid","confirm","cancel","quit","ctrl+c"}
    MaxGeneration = 5
    MaxPulls = 5
    MaxStreams = 0
SPECIFICATION FairSpec
INVARIANTS CreateIsCancellable RunIsAnswered
PROPERTIES ConfirmedMutations CreateSettles PullSettles RefreshYieldsToPull
