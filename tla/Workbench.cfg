SPECIFICATION WorkbenchSpec
CONSTANTS
    k1 = k1
    k2 = k2
    Cards = {k1, k2}
    FirstItems <- TwoKindsOfCard
    NoCard = NoCard
    LeastItems = 1
    MostItems = 2
    MaxTouches = 5
    BlockTypes = {"hero", "features", "listing", "slider", "card", "section", "page"}
    MaxKept = 3
    MaxStrokes = 2
    MenuStyles = {"drawer-right", "drawer-left"}
    DefaultStyle = "drawer-right"
    MaxPartStrokes = 2
    Packs = {"p1"}
    Products = {"p1"}
    NoPack = NoPack
    MaxReleases = 2
    MaxPackWork = 2
    MaxOthers = 2
    MaxPackLists = 2
    Addresses = {"a1", "a2"}
    NoKit = NoKit
    MaxKitReleases = 2
    MaxRequests = 3
    MaxPosts = 4
    Editors = {"e1", "e2"}
    FontChoices = {1}
    SizeChoices = {16}
    MaxHands = 4
    MaxSelections = 1
    Anchors = {1, 2}
    FreeParts = {"whole", "part"}
    MaxMoves = 4
    r1 = r1
    r2 = r2
    r3 = r3
    Routes = {r1, r2, r3}
    SourcesOf <- RoutesOfTemplate
    NoRoute = NoRoute
    MaxRouteWork = 6
    CatalogItems <- ShelfCatalog
    FirstPages <- ShelfPages
    WindowSize = 2
    SectionLimit = 2
    MaxInsertions = 2
    MaxGalleryWork = 6
    Scenes <- BarScenes
    Gap = 2
    NoRect = NoRect
    MaxShifts = 2
INVARIANTS
    WorkbenchTypeOK
    ShowsWhatIsThere
    NothingIsLost
PROPERTIES
    StaysAimed
CHECK_DEADLOCK FALSE
