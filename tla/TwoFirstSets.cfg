SPECIFICATION Spec
CONSTANTS
    Sets = {s1, s2}
    Elements = {}
    Admins = {a1, a2}
    None = None
    MaxSets = 2
    MaxLock = 2
    MaxCompiler = 1
INVARIANT OneActiveSet
