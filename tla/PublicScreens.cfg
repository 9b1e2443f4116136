SPECIFICATION ScreensSpec
CONSTANTS
    Blocks = {b1, b2}
    Inputs = {open, members}
    MembersOnly = {members}
    MaxSessions = 1
    MaxDomEdits = 2
    MaxJobs = 4
    Markups = {m1, m2}
    FirstMarkup = m1
    Texts = {x1, x2}
    MaxForms = 3
    MaxPresses = 2
    Members = {u1, u2}
    FirstMember = u1
    Nobody = Nobody
    MaxSignIns = 1
    MaxRefreshes = 2
    MaxPanelLoads = 2
    MaxLogouts = 1
    Tools = {t1, t2}
    MemberTools = {t1}
    NoTool = NoTool
    Urls = {v1, v2}
    MaxPageEvents = 4
    MaxWidgetEdits = 3
    MaxLoads = 2
    Docs = {d1, d2}
    Worked = {d1}
    MaxLock = 2
    MaxChanges = 1
    Candidates = {c1, c2, c3, c4}
    PlainPages = {c1, c2}
    StructuredPages = {c1, c2, c3}
    NoPage = NoPage
    MaxInputs = 5
INVARIANTS
    ScreensTypeOK
    ShowsNothingStale
    NothingIsTaken
PROPERTIES
    AnswersAreAimed
    ScreensSettle
CHECK_DEADLOCK FALSE
