SPECIFICATION DocumentsSpec
CONSTANTS
    Docs = {d1, d2}
    Slugs = {s1, s2}
    Contents = {blocks, tree}
    Structured = {tree}
    Admins = {a1, a2}
    Publications = {p1, p2}
    None = None
    MaxLock = 4
    MaxElements = 6
    MaxDepth = 3
    MaxCommands = 2
    MaxSelected = 2
    NoAsset = NoAsset
    TreeAssets <- SomeAssets
    FirstTrees <- SomeTrees
    Compositions <- SomeCompositions
    Copied <- SomeSelections
    MaxItems = 6
    MaxNodes = 5
    MaxChildren = 2
    MaxLevels = 4
    MaxLayoutEdits = 2
    FirstLayouts <- SomeLayouts
SYMMETRY Symmetric
INVARIANTS
    TypeOK
    NoWriteLost
    HistoriesAreSound
    SiteInvariant
    ActiveSlugsDistinct
    PublishedAsSaved
PROPERTIES
    CommandsAreAimed
    WrittenStays
CHECK_DEADLOCK FALSE
