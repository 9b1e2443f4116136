SPECIFICATION ScreensSpec
CONSTANTS
    b1 = b1
    t1 = t1
    p1 = p1
    p2 = p2
    p3 = p3
    None = None
    Edits = {e1, e2}
    Tabs = {t1}
    Browsers = {b1}
    BrowserOf <- OneBrowser
    MaxLock = 4
    LateReloads = TRUE
    Trees = {a1, a2}
    NoTree = NoTree
    MaxVersion = 3
    MaxEpoch = 2
    MaxTickets = 2
    Documents = {p1, p2, p3}
    NoDocument = NoDocument
    Approved <- SomeEdits
    MaxHistory = 3
    Nodes = {n1, n2}
    Assets = {i1, i2}
    NoNode = NoNode
    MaxEdits = 2
    MaxRequests = 3
    ShellSets = {h1, h2}
    FirstSet = h1
    NoShellSet = NoShellSet
    Shells = {g1, g2}
    DefaultShell = g1
    MaxShellVersion = 3
    MaxShellEdits = 1
    PartDocs = {q1, q2}
    FirstPartDoc = q1
    MaxPartLock = 3
    MaxPartEdits = 1
    x1 = x1
    x2 = x2
    Boxes = {x1, x2}
    Widths = {w1, w2}
    NoWidth = NoWidth
    Selections <- OneOrBoth
    MaxRevision = 2
INVARIANTS
    ScreensTypeOK
    SavedWorkIsStored
    OffersAreTrue
    CanvasIsTheDocument
PROPERTIES
    PublishesWhatWasConfirmed
    OthersWorkIsKept
    ChangesAreAimed
    ScreensSettle
CHECK_DEADLOCK FALSE
