CONSTANTS
    Consoles = {c1, c2}
    Editors = {c1}
    Profiles = {p1, p2}
SYMMETRY Alike
SPECIFICATION Spec
INVARIANTS TypeOK MemoryIsFile
PROPERTIES SaveIsAtomic NoSilentLoss
