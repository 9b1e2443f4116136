SPECIFICATION Spec
CONSTANTS
    b1 = b1
    Edits = {e1, e2}
    Tabs = {t1}
    Browsers = {b1}
    BrowserOf <- OneBrowser
    MaxLock = 4
    LateReloads = TRUE
    None = None
SYMMETRY Symmetric
INVARIANTS
    LockNamesDocument
CHECK_DEADLOCK FALSE
