SPECIFICATION BoundedSpec
CONSTANTS
    Sets = {s1, s2}
    Elements = {s2}
    Admins = {a1, a2}
    None = None
    MaxSets = 2
    MaxLock = 4
    MaxCompiler = 2
SYMMETRY Symmetric
INVARIANTS
    TypeOK
    ArtifactsAreSound
PROPERTIES
    ActsOnWhatWasSeen
    ServedShellStays
    ElementSetsPublishWhole
CHECK_DEADLOCK FALSE
