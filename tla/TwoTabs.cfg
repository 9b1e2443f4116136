SPECIFICATION Spec
CONSTANTS
    b1 = b1
    Edits = {e1, e2}
    Tabs = {t1, t2}
    Browsers = {b1}
    BrowserOf <- OneBrowser
    MaxLock = 3
    LateReloads = FALSE
    None = None
SYMMETRY Symmetric
INVARIANTS
    SavedMeansStored
    PublishesTheScreen
PROPERTIES
    ServersDraftIsKept
CHECK_DEADLOCK FALSE
