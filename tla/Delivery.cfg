SPECIFICATION DeliverySpec
CONSTANTS
    Docs = {d1, d2}
    Slugs = {s1, s2}
    Contents = {tree}
    Structured = {tree}
    Admins = {a1}
    Publications = {p1, p2}
    None = None
    MaxLock = 3
SYMMETRY Symmetric
INVARIANTS
    DeliveryTypeOK
    MissingOnlyAfterAChange
    PointerMatchesStatus
    HomeIsServable
PROPERTIES
    EveryChangeMovesTheLock
    ImplementsPublishedSite
    ServesOnlyPublicPages
CHECK_DEADLOCK FALSE
