SPECIFICATION DeliverySpec
CONSTANTS
    Docs = {d1}
    Slugs = {s1}
    Contents = {tree}
    Structured = {tree}
    Admins = {a1}
    Publications = {p1, p2}
    None = None
    MaxLock = 3
INVARIANT PublishedPageIsFound
