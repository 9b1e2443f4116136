---------------------------- MODULE MCWorkbench ----------------------------
(***************************************************************************)
(* What the editors and the manager work with beside their sessions: the   *)
(* context of the canvas, the codecs of blocks and of site parts, the      *)
(* library and the store of block packs, the installation of site kits, the *)
(* inline menu of rich text and the layer its choices float in, the picker *)
(* of routes, the library of blocks, the bar of what is selected.          *)
(* They share no state: a behaviour works with one of them, chosen at      *)
(* first, while the others wait in an initial state.                       *)
(***************************************************************************)
EXTENDS CanvasContext, BlockCodec, PartCodec, PackManager, SiteKits, RichTextMenu, FloatingLayer,
        RoutePicker, BlockGallery, ActionBar

CONSTANTS k1, k2, r1, r2, r3

\* A card with two items, and one of another type with none.
TwoKindsOfCard == [k \in {k1, k2} |-> IF k = k1 THEN 2 ELSE 0]

\* Two routes that share the name of a parameter, and one without any.
RoutesOfTemplate ==
    [r \in {r1, r2, r3} |-> IF r = r1 THEN [slug |-> "board", id |-> "typed"]
                            ELSE IF r = r2 THEN [slug |-> "page"] ELSE << >>]

\* The catalog and the pages of the library of blocks: an empty one, and a section with a
\* leaf in it before a block.
ShelfCatalog == <<"block", "leaf", "card", "leaf">>
ShelfPages == {<< >>, <<[id |-> 1, kind |-> "section", held |-> 1],
                        [id |-> 2, kind |-> "block", held |-> 0]>>}

\* The scenes of a bar: the frame in full size or half of it, all of it visible, a strip or
\* nothing; a block with room around it or as large as the canvas, with or without a range
\* and a text that is being edited; a small bar and one that is too wide, scaled or not.
BarScenes ==
    {[host |-> Edges(0, 0, 60, 60), frame |-> frame, ancestors |-> clips, view |-> Edges(0, 0, 40, 40),
      overlay |-> picked[1], panels |-> picked[2], range |-> picked[3], busy |-> picked[4],
      size |-> bar[1], scale |-> bar[2]] :
     frame \in {Edges(10, 10, 50, 50), Edges(10, 10, 30, 30)},
     clips \in {{}, {Edges(10, 14, 40, 26)}, {Edges(0, 52, 60, 60)}},
     picked \in {<<Edges(4, 16, 30, 22), {}, NoRect, {}>>,
                 <<Edges(4, 2, 30, 12), {Edges(8, 12, 36, 16)}, Edges(12, 4, 20, 6), {}>>,
                 <<Edges(2, 0, 38, 40), {}, NoRect, {Edges(2, 0, 38, 6)}>>,
                 <<Edges(2, 0, 38, 40), {Edges(8, 22, 36, 32)}, Edges(4, 2, 38, 36), {Edges(2, 28, 38, 36)}>>},
     bar \in {<<[width |-> 12, height |-> 4], 1>>, <<[width |-> 60, height |-> 6], 2>>}}
FirstScene == CHOOSE s \in BarScenes : TRUE

VARIABLE tool

tools == <<contextVars, codecVars, partVars, packManagerVars, siteKitVars, richTextVars, floatingVars,
           routePickerVars, galleryVars, actionBarVars>>
-----------------------------------------------------------------------------
WorkbenchInit ==
    /\ tool \in {"canvas", "block", "parts", "packs", "kits", "text", "layer", "route", "gallery", "bar"}
    /\ CanvasContextInit
    /\ IF tool = "block" THEN BlockCodecInit ELSE BlockOpened("page", << >>, FALSE)
    /\ IF tool = "parts" THEN PartCodecInit ELSE PartOpened({})
    /\ PackManagerInit
    /\ SiteKitsInit
    /\ RichTextInit
    /\ FloatingInit
    /\ IF tool = "route" THEN RoutePickerInit ELSE RoutePickerOpened("field")
    /\ IF tool = "gallery" THEN GalleryInit ELSE GalleryOver(<< >>, FALSE)
    /\ IF tool = "bar" THEN ActionBarInit ELSE ActionBarMounted("part", FirstScene)

\* The tools that are not chosen wait.
Rest(t) ==
    /\ t # "canvas" => UNCHANGED contextVars
    /\ t # "block" => UNCHANGED codecVars
    /\ t # "parts" => UNCHANGED partVars
    /\ t # "packs" => UNCHANGED packManagerVars
    /\ t # "kits" => UNCHANGED siteKitVars
    /\ t # "text" => UNCHANGED richTextVars
    /\ t # "layer" => UNCHANGED floatingVars
    /\ t # "route" => UNCHANGED routePickerVars
    /\ t # "gallery" => UNCHANGED galleryVars
    /\ t # "bar" => UNCHANGED actionBarVars

WorkbenchNext ==
    /\ UNCHANGED tool
    /\ \/ /\ tool = "canvas" /\ CanvasContextNext /\ Rest("canvas")
       \/ /\ tool = "block" /\ BlockCodecNext /\ Rest("block")
       \/ /\ tool = "parts" /\ PartCodecNext /\ Rest("parts")
       \/ /\ tool = "packs" /\ PackManagerNext /\ Rest("packs")
       \/ /\ tool = "kits" /\ SiteKitsNext /\ Rest("kits")
       \/ /\ tool = "text" /\ RichTextNext /\ Rest("text")
       \/ /\ tool = "layer" /\ FloatingNext /\ Rest("layer")
       \/ /\ tool = "route" /\ RoutePickerNext /\ Rest("route")
       \/ /\ tool = "gallery" /\ GalleryNext /\ Rest("gallery")
       \/ /\ tool = "bar" /\ ActionBarNext /\ Rest("bar")

WorkbenchSpec == WorkbenchInit /\ [][WorkbenchNext]_<<tool, tools>>
-----------------------------------------------------------------------------
(* Properties *)

\* Every variable of every tool keeps its type.
WorkbenchTypeOK ==
    /\ tool = "canvas" => CanvasContextTypeOK
    /\ tool = "block" => BlockCodecTypeOK
    /\ tool = "parts" => PartCodecTypeOK
    /\ tool = "packs" => PackManagerTypeOK
    /\ tool = "kits" => SiteKitsTypeOK
    /\ tool = "text" => RichTextTypeOK
    /\ tool = "layer" => FloatingTypeOK
    /\ tool = "route" => RoutePickerTypeOK
    /\ tool = "gallery" => GalleryTypeOK
    /\ tool = "bar" => ActionBarTypeOK

\* What is shown is there: no selection and no style of an item that is gone, nothing
\* over a text that is being edited; no offer for what is not typed any more, and no
\* dialog that waits for nothing; a choice shows as it was made, a link as it was read from
\* the range that is selected now, a layer where its anchor is, a bar where there
\* is room for it, and in the drawer every type that may be inserted.
ShowsWhatIsThere ==
    /\ tool = "canvas" => SelectsWhatIsThere /\ StylesFollowItems /\ RangeIsAlone
    /\ tool = "packs" => OffersWhatIsTyped /\ MarksHaveReasons
    /\ tool = "kits" => KitsWaitForAnAnswer
    /\ tool = "text" => ChoiceIsShown /\ LinkStaysHome
    /\ tool = "layer" => ShownInPlace
    /\ tool = "route" => SaysWhatItKnows
    /\ tool = "gallery" => DrawerIsComplete
    /\ tool = "bar" => BarInPlace /\ BarIsReachable /\ BarCoversLittle

\* Nothing is lost or changed by the way: a readonly canvas changes nothing, and storing
\* a block or a part takes nothing of what its editor showed and adds nothing that
\* nobody chose, no site is installed that nobody knows of, one press is one choice, what
\* was asked for is not asked for again, a link takes no value of another route, and what
\* the library of blocks enables is not refused.
NothingIsLost ==
    /\ tool = "canvas" => ReadonlyIsQuiet
    /\ tool = "block" => ScreenSurvives /\ UntouchedIsKept
    /\ tool = "parts" => CanvasCanBeStored /\ PartsSurvive /\ OpenedIsStoredAsItWas
    /\ tool = "kits" => NoSiteIsForgotten
    /\ tool = "text" => OneChoiceAPress /\ LateCloseIsAimed
    /\ tool = "route" => AskedOnce /\ ValuesOfThisRoute
    /\ tool = "gallery" => NothingEnabledIsRefused

\* A step works on what it was meant for: the card a picker was opened for, the device
\* of an override, the slot that takes a button over, the list that answers the newest
\* request and shows what was installed, the choice that was pressed, the place that was
\* chosen in the library of blocks.
StaysAimed ==
    /\ [](tool = "canvas" => PicksStayHome)
    /\ ComposedKeepsButton /\ OneDeviceAtATime
    /\ SettingsAreAimed
    /\ ListNeverGoesBack /\ SaysInstalledWhenListed
    /\ ChoiceWasPressed /\ HiddenWhenMoved /\ ShownWhenStill
    /\ GoesWhereMeant /\ StartsAtTheFirst
=============================================================================
