---------------------------- MODULE BlockGallery ----------------------------
(***************************************************************************)
(* The library of blocks (BlockGalleryControls.tsx, blockGalleryModel.ts): *)
(* a dialog over the canvas that offers what can be inserted at a place of *)
(* the page, shows a window of it that grows, and inserts beside the       *)
(* selection or where its reader chose. Undo and redo work while it is     *)
(* open, so the place it aims at may go.                                   *)
(*                                                                         *)
(* A section has one slot here, and the identities of what is in it are    *)
(* left out, as are the presets; the whole policy of placement is in       *)
(* CanvasPlacement. The filters are one.                                   *)
(***************************************************************************)
EXTENDS Integers, FiniteSets, Sequences, SequencesExt

CONSTANTS CatalogItems,    \* the kinds that the catalog offers, in order
          FirstPages,      \* the pages that the editor opens
          WindowSize,      \* BLOCK_GALLERY_WINDOW_SIZE
          SectionLimit,    \* limits.slot_children
          MaxInsertions,   \* bound on the edits of the page
          MaxGalleryWork   \* bound on what is done in the dialog

ASSUME BlockGalleryAssumption ==
    /\ WindowSize \in Nat \ {0} /\ {SectionLimit, MaxInsertions, MaxGalleryWork} \subseteq Nat
    /\ CatalogItems \in Seq({"block", "leaf", "card"})
    /\ FirstPages \subseteq Seq([id : Nat \ {0}, kind : {"block", "leaf", "card", "section"},
                                held : Nat])

VARIABLES shelf,    \* the page with its selection, and Puck's history of both
          gallery,  \* the dialog
          chosen    \* the place that was chosen since the dialog opened

galleryVars == <<shelf, gallery, chosen>>
-----------------------------------------------------------------------------
(* puckEditorSelection.ts: a place is a zone and an index in it; the zone of a *)
(* section has its identity, the top of the page has the zone 0.               *)

Top == 0
Nowhere == [zone |-> 0, index |-> 0]
Spot(zone, index) == [zone |-> zone, index |-> index]

\* What is put on a page: a section holds as many as `held`.
Put(id, kind) == [id |-> id, kind |-> kind, held |-> 0]

Sections(page) == {k \in DOMAIN page : page[k].kind = "section"}
HeldBy(page, zone) == LET k == CHOOSE k \in DOMAIN page : page[k].id = zone
                      IN  page[k].held
IsZone(page, zone) ==
    zone = Top \/ \E k \in Sections(page) : page[k].id = zone
LengthOf(page, zone) == IF zone = Top THEN Len(page) ELSE HeldBy(page, zone)

\* resolveEditorSelection
IsThere(page, spot) == IsZone(page, spot.zone) /\ spot.index \in 1 .. LengthOf(page, spot.zone)

\* editorInsertionTargets: the end of the page, and of every slot.
EndSpot(page, zone) == Spot(zone, LengthOf(page, zone) + 1)
EndSpots(page) ==
    {EndSpot(page, Top)} \cup {EndSpot(page, page[k].id) : k \in Sections(page)}

\* editorDefaultInsertionTarget: in the section that is selected, beside anything else.
DefaultSpot(page, selected) ==
    IF selected = Nowhere THEN EndSpot(page, Top)
    ELSE IF selected.zone = Top /\ page[selected.index].kind = "section"
    THEN EndSpot(page, page[selected.index].id)
    ELSE [selected EXCEPT !.index = @ + 1]

\* insertionTargets: the default one is the first; none when the selection is not there
\* any more.
SpotsOffered(page, selected) ==
    IF selected # Nowhere /\ ~IsThere(page, selected) THEN {}
    ELSE {DefaultSpot(page, selected)} \cup EndSpots(page)

\* assertEditorInsertion
Insertable(page, spot, kind, structured) ==
    /\ IsZone(page, spot.zone)
    /\ kind = "card" => structured
    /\ spot.zone # Top => /\ kind \in {"leaf", "card"}
                          /\ LengthOf(page, spot.zone) < SectionLimit
    /\ spot.index \in 1 .. LengthOf(page, spot.zone) + 1

InsertedAt(page, spot, item) ==
    IF spot.zone = Top THEN InsertAt(page, spot.index, item)
    ELSE [k \in DOMAIN page |-> IF page[k].id = spot.zone
                                THEN [page[k] EXCEPT !.held = @ + 1] ELSE page[k]]
RemovedAt(page, spot) ==
    IF spot.zone = Top THEN RemoveAt(page, spot.index)
    ELSE [k \in DOMAIN page |-> IF page[k].id = spot.zone
                                THEN [page[k] EXCEPT !.held = @ - 1] ELSE page[k]]
-----------------------------------------------------------------------------
(* What the dialog shows *)

ShelfPage == shelf.states[shelf.at].page
Selected == shelf.states[shelf.at].selected

\* items: LAYOUT_GALLERY_ITEM is there when the structure may be edited.
ItemsOnShelf == IF shelf.structured THEN CatalogItems \o <<"section">> ELSE CatalogItems

\* Mutated: when the place that was chosen is gone, the first one is taken.
AimOrFirst ==
    LET spots == IF gallery.open THEN SpotsOffered(ShelfPage, Selected) ELSE {}
    IN  IF gallery.choice \in spots THEN gallery.choice
        ELSE IF spots = {} THEN Nowhere ELSE DefaultSpot(ShelfPage, Selected)

\* insertionTarget
Aim ==
    LET spots == IF gallery.open THEN SpotsOffered(ShelfPage, Selected) ELSE {}
    IN  IF gallery.choice # Nowhere
        THEN IF gallery.choice \in spots THEN gallery.choice ELSE Nowhere
        ELSE IF spots = {} THEN Nowhere ELSE DefaultSpot(ShelfPage, Selected)

\* Mutated: what can be inserted is worked out beside the selection.
FitsTheDefault(kind) ==
    /\ Aim # Nowhere
    /\ Insertable(ShelfPage, DefaultSpot(ShelfPage, Selected), kind, shelf.structured)

\* insertionOptions: without a reason against it.
Fits(kind) == Aim # Nowhere /\ Insertable(ShelfPage, Aim, kind, shelf.structured)

\* libraryKind
KindInLibrary(kind) == CASE kind = "leaf" -> "element"
                         [] kind = "card" -> "component"
                         [] kind = "section" -> "layout"
                         [] OTHER -> "section"

\* visibleItems: the filter is on a kind of the library. An item is its place in the list.
VisibleItems ==
    {k \in DOMAIN ItemsOnShelf :
        /\ gallery.all \/ Fits(ItemsOnShelf[k])
        /\ gallery.filter \in {"all", KindInLibrary(ItemsOnShelf[k])}}

\* As many of them as the window holds, from the first on.
RenderedItems ==
    {ItemsOnShelf[k] : k \in {i \in VisibleItems :
                                  Cardinality({j \in VisibleItems : j <= i}) <= gallery.limit}}

\* quickItems: blocks and leaves that fit, while nothing filters.
QuickItems ==
    {kind \in {"block", "leaf"} :
        /\ gallery.filter = "all"
        /\ \E k \in DOMAIN CatalogItems : CatalogItems[k] = kind
        /\ Fits(kind)}
-----------------------------------------------------------------------------
(* libraryCategories: the drawer of Puck shows every type in one category *)

EditorTypes == {"Hero", "HeroSplit", "Heading", "Card", "LayoutSection", "LayoutColumns",
                "LayoutStack", "External_1", "unknown"}

\* libraryKind, of a type of the editor
KindOfType(type) == CASE type \in {"LayoutSection", "LayoutColumns", "LayoutStack"} -> "layout"
                      [] type = "Heading" -> "element"
                      [] type \in {"Hero", "HeroSplit"} -> "section"
                      [] OTHER -> "component"

Registered(types, structured) ==
    {type \in types \ {"unknown"} : structured \/ type # "Card"}

InnerTypes == {"HeroSplit", "LayoutColumns", "LayoutStack"}

\* Mutated: the ones that are hidden are those of the catalog that are not offered.
DrawerOfCatalog(types, structured, allTypes) ==
    [category \in {"element", "layout", "component", "section", "internal", "unavailable"} |->
        CASE category = "internal" -> Registered(types, structured) \cap InnerTypes
          [] category = "unavailable" -> (allTypes \ {"unknown"}) \ types
          [] OTHER -> {type \in Registered(types, structured) \ InnerTypes :
                           KindOfType(type) = category}]

Drawer(types, structured, allTypes) ==
    [category \in {"element", "layout", "component", "section", "internal", "unavailable"} |->
        CASE category = "internal" -> Registered(types, structured) \cap InnerTypes
          [] category = "unavailable" ->
               (allTypes \ {"unknown"}) \ Registered(types, structured)
          [] OTHER -> {type \in Registered(types, structured) \ InnerTypes :
                           KindOfType(type) = category}]

DrawerShows(category, structured) ==
    category \in {"element", "component", "section"} \/ (category = "layout" /\ structured)
-----------------------------------------------------------------------------
ShutGallery == [open |-> FALSE, choice |-> Nowhere, all |-> FALSE, filter |-> "all",
                limit |-> WindowSize, refused |-> FALSE, disabled |-> FALSE, work |-> 0]

GalleryOver(page, structured) ==
    /\ shelf = [states |-> <<[page |-> page, selected |-> Nowhere]>>, at |-> 1,
                structured |-> structured, edits |-> 0]
    /\ gallery = ShutGallery
    /\ chosen = Nowhere

\* A page with layouts is one whose structure may be edited.
GalleryInit == \E page \in FirstPages, structured \in BOOLEAN :
                  /\ Sections(page) # {} => structured
                  /\ GalleryOver(page, structured)

\* The renders and effects that follow a change of the dialog: a closed one forgets what
\* was chosen in it, and the window starts again with what is shown.
\* Mutated: a closed dialog keeps the place that was chosen.
GallerySettledKeepingChoice(after) ==
    LET shut == IF after.open THEN after ELSE [after EXCEPT !.all = FALSE, !.refused = FALSE]
        Shown(g) == <<g.open, g.choice, g.all, g.filter>>
    IN  IF Shown(shut) = Shown(gallery) THEN shut ELSE [shut EXCEPT !.limit = WindowSize]

\* Mutated: the window does not start again for another place.
GallerySettledForFilters(after) ==
    LET shut == IF after.open THEN after
                ELSE [after EXCEPT !.choice = Nowhere, !.all = FALSE, !.refused = FALSE]
        Shown(g) == <<g.open, g.all, g.filter>>
    IN  IF Shown(shut) = Shown(gallery) THEN shut ELSE [shut EXCEPT !.limit = WindowSize]

GallerySettled(after) ==
    LET shut == IF after.open THEN after
                ELSE [after EXCEPT !.choice = Nowhere, !.all = FALSE, !.refused = FALSE]
        Shown(g) == <<g.open, g.choice, g.all, g.filter>>
    IN  IF Shown(shut) = Shown(gallery) THEN shut ELSE [shut EXCEPT !.limit = WindowSize]

Turned(after) ==
    /\ gallery.work < MaxGalleryWork
    /\ gallery' = [GallerySettled(after) EXCEPT !.work = @ + 1]

\* The button of the toolbar.
ToggleGallery ==
    /\ ~gallery.disabled
    /\ Turned([gallery EXCEPT !.open = ~@])
    /\ chosen' = Nowhere
    /\ UNCHANGED shelf

\* The drawer's button sends OPEN_BLOCK_GALLERY_EVENT, whatever the toolbar allows.
OpenFromDrawer ==
    /\ ~gallery.open
    /\ Turned([gallery EXCEPT !.open = TRUE])
    /\ chosen' = Nowhere
    /\ UNCHANGED shelf

\* Escape, the backdrop, the cross.
CloseGallery ==
    /\ gallery.open
    /\ Turned([gallery EXCEPT !.open = FALSE])
    /\ chosen' = Nowhere
    /\ UNCHANGED shelf

ChooseSpot(spot) ==
    /\ gallery.open
    /\ spot \in SpotsOffered(ShelfPage, Selected)
    /\ spot # Aim
    /\ Turned([gallery EXCEPT !.choice = spot])
    /\ chosen' = spot
    /\ UNCHANGED shelf

ToggleUnavailable ==
    /\ gallery.open
    /\ Turned([gallery EXCEPT !.all = ~@])
    /\ UNCHANGED <<shelf, chosen>>

\* The tabs and the filters; they stay when the dialog closes.
FilterBy(kind) ==
    /\ gallery.open
    /\ kind # gallery.filter
    /\ Turned([gallery EXCEPT !.filter = kind])
    /\ UNCHANGED <<shelf, chosen>>

\* The button at the end, or its observer.
LoadMore ==
    /\ gallery.open
    /\ gallery.limit < Cardinality(VisibleItems)
    /\ Turned([gallery EXCEPT !.limit = Min({@ + WindowSize, Cardinality(VisibleItems)})])
    /\ UNCHANGED <<shelf, chosen>>

\* The editor saves, or may work again.
TurnDisabled ==
    /\ Turned([gallery EXCEPT !.disabled = ~@])
    /\ UNCHANGED <<shelf, chosen>>
-----------------------------------------------------------------------------
(* The page: Puck records an insertion with the selection that follows it *)

ShelfRecorded(page, selected) ==
    /\ shelf.edits < MaxInsertions
    /\ shelf' = [shelf EXCEPT !.states = Append(SubSeq(@, 1, shelf.at),
                                                [page |-> page, selected |-> selected]),
                              !.at = @ + 1, !.edits = @ + 1]

\* insert: from the window, or from the quick ones.
InsertItem(kind) ==
    /\ gallery.open
    /\ ~gallery.disabled
    /\ kind \in RenderedItems \cup QuickItems
    /\ Fits(kind)
    /\ IF Insertable(ShelfPage, Aim, kind, shelf.structured)
       THEN /\ ShelfRecorded(InsertedAt(ShelfPage, Aim, Put(shelf.edits + 10, kind)), Aim)
            /\ Turned([gallery EXCEPT !.open = FALSE])
            /\ chosen' = Nowhere
       ELSE /\ Turned([gallery EXCEPT !.refused = TRUE])
            /\ UNCHANGED <<shelf, chosen>>

\* A click on the canvas, while the dialog does not cover it.
SelectOnCanvas(spot) ==
    /\ ~gallery.open
    /\ IsThere(ShelfPage, spot) \/ spot = Nowhere
    /\ spot # Selected
    /\ shelf' = [shelf EXCEPT !.states =
                                 [@ EXCEPT ![shelf.at] = [page |-> ShelfPage, selected |-> spot]]]
    /\ Turned(gallery)
    /\ UNCHANGED chosen

RemoveFromCanvas ==
    /\ ~gallery.open /\ ~gallery.disabled
    /\ Selected # Nowhere
    /\ ShelfRecorded(RemovedAt(ShelfPage, Selected), Nowhere)
    /\ UNCHANGED <<gallery, chosen>>

\* The keys of undo and redo, which the dialog does not stop.
UndoEdit ==
    /\ ~gallery.disabled
    /\ shelf.at > 1
    /\ shelf' = [shelf EXCEPT !.at = @ - 1]
    /\ Turned(gallery)
    /\ UNCHANGED chosen
RedoEdit ==
    /\ ~gallery.disabled
    /\ shelf.at < Len(shelf.states)
    /\ shelf' = [shelf EXCEPT !.at = @ + 1]
    /\ Turned(gallery)
    /\ UNCHANGED chosen

SpotsOn(page) == {s \in [zone : {Top} \cup {page[k].id : k \in DOMAIN page}, index : 1 .. 5] :
                      IsThere(page, s)}

GalleryNext ==
    \/ ToggleGallery \/ OpenFromDrawer \/ CloseGallery
    \/ \E spot \in SpotsOffered(ShelfPage, Selected) : ChooseSpot(spot)
    \/ ToggleUnavailable
    \/ \E kind \in {"all", "element", "section"} : FilterBy(kind)
    \/ LoadMore \/ TurnDisabled
    \/ \E kind \in {"block", "leaf", "card", "section"} : InsertItem(kind)
    \/ \E spot \in SpotsOn(ShelfPage) \cup {Nowhere} : SelectOnCanvas(spot)
    \/ RemoveFromCanvas \/ UndoEdit \/ RedoEdit

GallerySpec == GalleryInit /\ [][GalleryNext]_galleryVars
-----------------------------------------------------------------------------
(* Properties *)

\* Types of the variables.
GalleryTypeOK ==
    /\ shelf.at \in 1 .. Len(shelf.states)
    /\ shelf.edits \in 0 .. MaxInsertions
    /\ gallery.open \in BOOLEAN /\ gallery.all \in BOOLEAN
    /\ gallery.limit \in 1 .. Len(ItemsOnShelf) + WindowSize
    /\ gallery.work \in 0 .. MaxGalleryWork

\* What the dialog enables is never refused: what is offered was worked out for the place
\* that it goes to, however the page changed meanwhile.
NothingEnabledIsRefused == ~gallery.refused

\* Every type that Puck knows is in one category of its drawer, and what may not be
\* inserted by itself is in none that is shown: else Puck lists it under "other".
DrawerIsComplete ==
    \A catalog \in {EditorTypes, {"Hero", "Card", "LayoutSection", "LayoutColumns", "LayoutStack",
                                  "HeroSplit"}} :
      LET drawer == Drawer(catalog, shelf.structured, EditorTypes)
      IN  \A type \in EditorTypes \ {"unknown"} :
            /\ Cardinality({c \in DOMAIN drawer : type \in drawer[c]}) = 1
            /\ \A c \in DOMAIN drawer :
                 type \in drawer[c] /\ DrawerShows(c, shelf.structured) =>
                   /\ type \in catalog \ InnerTypes
                   /\ type \in {"Card", "LayoutSection"} => shelf.structured

\* An insertion goes where its reader chose in this dialog, and to the default of what is
\* selected when nothing was chosen; it never slips to another place because the chosen
\* one is gone, nor to one that was chosen in an earlier dialog.
GoesWhereMeant ==
    [][gallery.open /\ shelf'.edits > shelf.edits =>
         LET spot == IF chosen # Nowhere THEN chosen ELSE DefaultSpot(ShelfPage, Selected)
         IN  /\ Selected' = spot
             /\ LengthOf(ShelfPage', spot.zone) = LengthOf(ShelfPage, spot.zone) + 1]_galleryVars

\* Another place or another filter is looked at from its first item.
StartsAtTheFirst ==
    [][gallery'.choice # gallery.choice \/ gallery'.filter # gallery.filter =>
         gallery'.limit = WindowSize]_galleryVars
=============================================================================
