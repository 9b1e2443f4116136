SPECIFICATION FairSpec
CONSTANTS
    b1 = b1
    Edits = {e1, e2}
    Tabs = {t1}
    Browsers = {b1}
    BrowserOf <- OneBrowser
    MaxLock = 3
    LateReloads = FALSE
    None = None
PROPERTIES
    JournalComesBack
CHECK_DEADLOCK FALSE
