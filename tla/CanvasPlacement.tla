-------------------------- MODULE CanvasPlacement --------------------------
(***************************************************************************)
(* The layout of a page of blocks: the commands of the canvas, of its      *)
(* toolbar and of the inspector, which are checked before they are given   *)
(* to Puck (puckEditorSelection), and the policy that the document is then *)
(* validated against (layoutPolicy). The two are written independently.    *)
(*                                                                         *)
(* A card and a hero have one slot of their own here, for one leaf; a slot *)
(* of a hero is there once its button is edited as an element. Ratios,     *)
(* labels and the size in bytes are left out.                              *)
(***************************************************************************)
EXTENDS Naturals, FiniteSets, Sequences
LOCAL INSTANCE SequencesExt
LOCAL INSTANCE FiniteSetsExt

CONSTANTS MaxItems,      \* bound on the identities that are given
          MaxNodes,      \* layout-policy-v1.json limits.nodes
          MaxChildren,   \* limits.slot_children
          MaxLevels,     \* limits.depth
          MaxLayoutEdits,\* bound on the commands
          FirstLayouts   \* the documents that the editor opens, and their version

VARIABLES board,   \* the document, its version, its last state, and the commands
          picked,  \* the item that is selected, by its place
          asked    \* the confirmation that the inspector shows

layoutVars == <<board, picked, asked>>
-----------------------------------------------------------------------------
ItemIds == 1 .. MaxItems
TopZone == <<0, 1>>
SlotsOf(i) == {i} \X (1 .. 2)
LayoutZones == {TopZone} \cup UNION {SlotsOf(i) : i \in ItemIds}
LayoutKinds == {"section", "columns", "stack"}
ItemKinds == LayoutKinds \cup {"hero", "card", "leaf"}

\* slots: the active ones, which are as many as the columns.
LayoutItem == [kind : ItemKinds \cup {"none"}, slots : 0 .. 2]
NoItem == [kind |-> "none", slots |-> 0]

NoPlace == <<TopZone, 0>>
NoQuestion == [what |-> "none", item |-> 0, shown |-> <<>>, plan |-> <<>>]

Items(t) == {i \in ItemIds : t.item[i].kind # "none"}
ZoneOf(t, i) == CHOOSE z \in LayoutZones : Contains(t.kids[z], i)
HolderOf(t, i) == ZoneOf(t, i)[1]
WhereIs(t, i) == LET z == ZoneOf(t, i)
                 IN  <<z, CHOOSE k \in 1 .. Len(t.kids[z]) : t.kids[z][k] = i>>

\* editorItemLocations and editorSelectionAncestors: each item with what it is in.
PathsOf(t) == LET holder == [i \in Items(t) |-> HolderOf(t, i)]
                  up[j \in Items(t)] == IF holder[j] = 0 THEN {j} ELSE {j} \cup up[holder[j]]
              IN  [i \in Items(t) |-> up[i]]
LevelOf(t, i) == Cardinality(PathsOf(t)[i])
SubtreeOf(t, i) == LET path == PathsOf(t) IN {j \in Items(t) : i \in path[j]}

\* Mutated: what is inside is not counted.
HeightItself(t, i) == 1

\* editorSubtreeSize(...).depth
HeightOf(t, i) ==
    LET path == PathsOf(t)
    IN  Max({Cardinality(path[j]) : j \in SubtreeOf(t, i)}) - Cardinality(path[i]) + 1

ActiveZones(t) == {TopZone} \cup UNION {{i} \X (1 .. t.item[i].slots) : i \in Items(t)}
KindAt(t, z) == IF z = TopZone THEN "root" ELSE t.item[z[1]].kind
ItemAt(t, place) == t.kids[place[1]][place[2]]

\* resolveEditorSelection: there is an item at the place.
Resolves(t, place) == place[1] \in ActiveZones(t) /\ place[2] \in 1 .. Len(t.kids[place[1]])

\* layoutAllowsChild
AllowsChild(parent, kind) ==
    kind \in CASE parent = "root"    -> {"hero", "card", "leaf", "section"}
               [] parent = "section" -> {"columns", "stack", "card", "leaf"}
               [] parent = "columns" -> {"stack", "card", "leaf"}
               [] parent = "stack"   -> {"card", "leaf"}
               [] OTHER              -> {"leaf"}

\* slotChildLimit: one of each kind.
LimitedSlot(parent) == parent \in {"hero", "card"}
-----------------------------------------------------------------------------
(* validateLayoutDocument, of a structured document *)

ValidLayout(t) ==
    /\ Cardinality(Items(t)) <= MaxNodes
    /\ LET path == PathsOf(t) IN \A i \in Items(t) : Cardinality(path[i]) <= MaxLevels
    /\ \A z \in ActiveZones(t) :
         /\ \A k \in 1 .. Len(t.kids[z]) :
              AllowsChild(KindAt(t, z), t.item[t.kids[z][k]].kind)
         /\ z # TopZone => Len(t.kids[z]) <= MaxChildren
         /\ LimitedSlot(KindAt(t, z)) =>
              \A j, k \in 1 .. Len(t.kids[z]) :
                t.item[t.kids[z][j]].kind = t.item[t.kids[z][k]].kind => j = k

\* Puck's candidate is converted to the document: a document of blocks only has
\* no slots with children and no layouts.
Convertible(t, structured) ==
    IF structured THEN ValidLayout(t)
    ELSE \A i \in Items(t) : t.item[i].kind \in {"hero", "card", "leaf"} /\ HolderOf(t, i) = 0
-----------------------------------------------------------------------------
(* assertPlacement *)

\* source: the item that is moved, or 0 for one that comes.
Placeable(t, kind, added, height, place, source) ==
    LET z == place[1]
        others == SelectSeq(t.kids[z], LAMBDA i : i # source)
    IN  /\ z \in ActiveZones(t)
        /\ board.structured => Cardinality(Items(t)) + added <= MaxNodes
        /\ source # 0 => z[1] \notin SubtreeOf(t, source)
        /\ ~board.structured => kind # "card" /\ ~LimitedSlot(KindAt(t, z))
        /\ AllowsChild(KindAt(t, z), kind)
        /\ LimitedSlot(KindAt(t, z)) => \A k \in 1 .. Len(others) :
                                            t.item[others[k]].kind # kind
        /\ place[2] \in 1 .. Len(others) + 1
        /\ z # TopZone => Len(others) < MaxChildren
        /\ board.structured =>
             (IF z = TopZone THEN 0 ELSE LevelOf(t, z[1])) + height <= MaxLevels

\* assertEditorMove
MayPlace(t, i, place) == Placeable(t, t.item[i].kind, 0, HeightOf(t, i), place, i)

\* editorInsertionTargets: the end of each slot.
EndOf(t, z) == <<z, Len(t.kids[z]) + 1>>
-----------------------------------------------------------------------------
(* What Puck does with an action *)

PutAt(list, k, i) == SubSeq(list, 1, k - 1) \o <<i>> \o SubSeq(list, k, Len(list))
Without(t, i) == [t EXCEPT !.kids[ZoneOf(t, i)] = SelectSeq(@, LAMBDA j : j # i)]
MovedTo(t, i, place) ==
    [Without(t, i) EXCEPT !.kids[place[1]] = PutAt(@, place[2], i)]
Dropped(t, gone) ==
    [kids |-> [z \in LayoutZones |-> IF z[1] \in gone THEN <<>>
                                     ELSE SelectSeq(t.kids[z], LAMBDA j : j \notin gone)],
     item |-> [i \in ItemIds |-> IF i \in gone THEN NoItem ELSE t.item[i]]]

Unused(t) == ItemIds \ Items(t)
NthUnused(t, n) == CHOOSE i \in Unused(t) :
                       Cardinality({j \in Unused(t) : j < i}) = n - 1

\* What comes with an item of a kind: its slots, and what is in its default.
DefaultSlots(kind) == CASE kind \in {"section", "stack", "card"} -> 1
                        [] kind = "columns" -> 2
                        [] OTHER -> 0
DefaultSize(kind) == IF kind = "section" THEN [nodes |-> 4, height |-> 3]
                     ELSE [nodes |-> 1, height |-> 1]
FreshItem(kind) == [kind |-> kind, slots |-> DefaultSlots(kind)]

Inserted(t, kind, place) ==
    LET one == NthUnused(t, 1)
        root == [kids |-> [t.kids EXCEPT ![place[1]] = PutAt(@, place[2], one)],
                 item |-> [t.item EXCEPT ![one] = FreshItem(kind)]]
        columns == NthUnused(t, 2)
        left == NthUnused(t, 3)
        right == NthUnused(t, 4)
    IN  IF kind # "section" THEN root
        ELSE [kids |-> [root.kids EXCEPT ![<<one, 1>>] = <<columns>>,
                            ![<<columns, 1>>] = <<left>>, ![<<columns, 2>>] = <<right>>],
              item |-> [root.item EXCEPT ![columns] = FreshItem("columns"),
                            ![left] = FreshItem("leaf"), ![right] = FreshItem("leaf")]]

\* A copy of an item and of all that is in it, behind it.
WithCopy(t, i) ==
    LET from == SubtreeOf(t, i)
        new(j) == NthUnused(t, 1 + Cardinality({k \in from : k < j}))
        old(n) == CHOOSE j \in from : new(j) = n
        fresh == {new(j) : j \in from}
        at == WhereIs(t, i)
    IN  [kids |-> [[z \in LayoutZones |->
                      IF z[1] \in fresh
                      THEN [k \in 1 .. Len(t.kids[<<old(z[1]), z[2]>>]) |->
                              new(t.kids[<<old(z[1]), z[2]>>][k])]
                      ELSE t.kids[z]]
                     EXCEPT ![at[1]] = PutAt(@, at[2] + 1, new(i))],
         item |-> [j \in ItemIds |-> IF j \in fresh THEN t.item[old(j)] ELSE t.item[j]]]

\* resizeLayoutColumns: the content of a column that goes is put behind the last.
ResizedTo(t, i, n) ==
    [t EXCEPT !.item[i].slots = n,
              !.kids[<<i, 1>>] = IF n = 1 THEN @ \o t.kids[<<i, 2>>] ELSE @,
              !.kids[<<i, 2>>] = IF n = 1 THEN <<>> ELSE @]
MovedByResize(t, i, n) == IF n = 1 THEN Len(t.kids[<<i, 2>>]) ELSE 0

\* JSON.stringify(item.props), which holds all that is inside.
PictureOf(t, i) == [j \in SubtreeOf(t, i) |->
                   <<t.item[j], t.kids[<<j, 1>>], t.kids[<<j, 2>>]>>]

\* A replace of the item by what a picture holds.
ReplacedBy(t, i, picture) ==
    LET gone == SubtreeOf(t, i)
    IN  [kids |-> [z \in LayoutZones |->
                     IF z[1] \in DOMAIN picture THEN picture[z[1]][z[2] + 1]
                     ELSE IF z[1] \in gone THEN <<>> ELSE t.kids[z]],
         item |-> [j \in ItemIds |-> IF j \in DOMAIN picture THEN picture[j][1]
                                     ELSE IF j \in gone THEN NoItem ELSE t.item[j]]]
-----------------------------------------------------------------------------
LayoutInit ==
    /\ \E first \in FirstLayouts :
         board = [layout |-> first.layout, structured |-> first.structured,
                  past |-> <<>>, edits |-> 0, notice |-> "none"]
    /\ picked = NoPlace
    /\ asked = NoQuestion

MayEditLayout == board.edits < MaxLayoutEdits
PickedItem == ItemAt(board.layout, picked)
HasPicked == picked # NoPlace /\ Resolves(board.layout, picked)

\* The inspector forgets its question when another item is selected, and that
\* of a number of columns when it has changed.
QuestionAfter ==
    asked' = IF /\ asked # NoQuestion /\ picked' # NoPlace
                /\ Resolves(board'.layout, picked')
                /\ ItemAt(board'.layout, picked') = asked.item
                /\ asked.what = "resize" =>
                     board'.layout.item[asked.item].slots = asked.shown[asked.item][1].slots
             THEN asked ELSE NoQuestion

\* A candidate of Puck: the document boundary takes it, or keeps what there was.
Offer(candidate, place, by) ==
    IF Convertible(candidate, board.structured)
    THEN /\ board' = [board EXCEPT !.layout = candidate, !.edits = @ + 1, !.notice = "none",
                                   !.past = <<[layout |-> board.layout, picked |-> picked]>>]
         /\ picked' = place
    ELSE /\ board' = [board EXCEPT !.edits = @ + 1, !.notice = by]
         /\ UNCHANGED picked

\* A click, the outline or the button for the parent.
PickItem(place) ==
    /\ place = NoPlace \/ Resolves(board.layout, place)
    /\ place # picked
    /\ picked' = place
    /\ UNCHANGED board
    /\ QuestionAfter

\* What the gallery offers: layouts in a structured document only.
GalleryOffers(kind) ==
    kind \in {"hero", "leaf"} \cup IF board.structured THEN {"card", "section"} ELSE {}

\* editorDefaultInsertionTarget: at the end, in the layout, or beside the item.
DefaultTarget ==
    IF ~HasPicked THEN EndOf(board.layout, TopZone)
    ELSE IF board.layout.item[PickedItem].kind \in LayoutKinds
    THEN EndOf(board.layout, <<PickedItem, 1>>)
    ELSE <<picked[1], picked[2] + 1>>

\* insertGalleryItem, and the additions of ComponentComposition.
InsertItem(kind, place) ==
    /\ MayEditLayout /\ GalleryOffers(kind)
    /\ picked = NoPlace \/ HasPicked
    /\ place = DefaultTarget \/ \E z \in ActiveZones(board.layout) : place = EndOf(board.layout, z)
    /\ Placeable(board.layout, kind, DefaultSize(kind).nodes, DefaultSize(kind).height,
                 place, 0)
    /\ Cardinality(Unused(board.layout)) >= DefaultSize(kind).nodes
    /\ Offer(Inserted(board.layout, kind, place), place, "toolbar")
    /\ QuestionAfter

\* StructureInsertField, for the columns and stacks of a layout.
InsertStructure(kind, z) ==
    /\ MayEditLayout /\ HasPicked /\ z \in SlotsOf(PickedItem)
    /\ \/ board.layout.item[PickedItem].kind = "section" /\ kind \in {"columns", "stack"}
       \/ board.layout.item[PickedItem].kind = "columns" /\ kind = "stack"
    /\ Unused(board.layout) # {}
    /\ Placeable(board.layout, kind, 1, 1, EndOf(board.layout, z), 0)
    /\ Offer(Inserted(board.layout, kind, EndOf(board.layout, z)),
             EndOf(board.layout, z), "toolbar")
    /\ QuestionAfter

\* enableCompositionActions: the button of a hero becomes an element in its slot.
OpenActions ==
    /\ MayEditLayout /\ HasPicked /\ board.structured
    /\ board.layout.item[PickedItem] = FreshItem("hero")
    /\ \/ Offer([board.layout EXCEPT !.item[PickedItem].slots = 1], picked, "toolbar")
       \/ LET opened == [board.layout EXCEPT !.item[PickedItem].slots = 1]
              place == <<<<PickedItem, 1>>, 1>>
          IN  /\ Placeable(opened, "leaf", 1, 1, place, 0)
              /\ Offer(Inserted(opened, "leaf", place), picked, "toolbar")
    /\ QuestionAfter

\* moveCanvasItem and moveCanvasItemTo; the selection goes along, at once and
\* again in the next frame.
MoveItem(place) ==
    /\ MayEditLayout /\ HasPicked
    /\ \/ place[1] = picked[1] /\ place[2] \in {picked[2] - 1, picked[2] + 1}
       \/ /\ place[1] # picked[1]
          /\ \E z \in ActiveZones(board.layout) : place = EndOf(board.layout, z)
    /\ MayPlace(board.layout, PickedItem, place)
    /\ Offer(MovedTo(board.layout, PickedItem, place), place, "toolbar")
    /\ QuestionAfter

\* duplicateCanvasItem
DuplicateItem ==
    /\ MayEditLayout /\ HasPicked
    /\ Placeable(board.layout, board.layout.item[PickedItem].kind,
                 Cardinality(SubtreeOf(board.layout, PickedItem)),
                 HeightOf(board.layout, PickedItem), <<picked[1], picked[2] + 1>>, 0)
    /\ Cardinality(Unused(board.layout)) >= Cardinality(SubtreeOf(board.layout, PickedItem))
    /\ Offer(WithCopy(board.layout, PickedItem), <<picked[1], picked[2] + 1>>, "toolbar")
    /\ QuestionAfter

\* deleteCanvasItem: the selection falls to a sibling, or to the holder.
FallbackPlace ==
    LET n == Len(board.layout.kids[picked[1]])
    IN  IF n > 1 THEN <<picked[1], Min({picked[2], n - 1})>>
        ELSE IF picked[1] = TopZone THEN NoPlace
        ELSE WhereIs(board.layout, picked[1][1])

RemoveItem ==
    /\ MayEditLayout /\ HasPicked
    /\ board.layout.item[PickedItem].kind \notin LayoutKinds
    /\ Offer(Dropped(board.layout, SubtreeOf(board.layout, PickedItem)), FallbackPlace, "toolbar")
    /\ QuestionAfter

IsAsking(what) == asked.what = what /\ HasPicked /\ asked.item = PickedItem

\* Mutated: the item may have changed since.
ConfirmsAnything(what) == IsAsking(what)

\* A confirmation is for the item as it was shown.
ConfirmsTheShown(what) ==
    IsAsking(what) /\ asked.shown = PictureOf(board.layout, PickedItem)

\* ColumnsCountField: request, which asks when content moves.
ResizeColumns(n) ==
    /\ MayEditLayout /\ HasPicked
    /\ board.layout.item[PickedItem].kind = "columns"
    /\ board.layout.item[PickedItem].slots # n
    /\ Len(ResizedTo(board.layout, PickedItem, n).kids[<<PickedItem, 1>>]) <= MaxChildren
    /\ IF MovedByResize(board.layout, PickedItem, n) > 0
       THEN /\ asked' = [what |-> "resize", item |-> PickedItem,
                         shown |-> PictureOf(board.layout, PickedItem),
                         plan |-> PictureOf(ResizedTo(board.layout, PickedItem, n), PickedItem)]
            /\ UNCHANGED <<board, picked>>
       ELSE /\ Offer(ResizedTo(board.layout, PickedItem, n), picked, "toolbar")
            /\ QuestionAfter

\* apply, of the result that was worked out when it was asked for.
ConfirmResize ==
    /\ MayEditLayout /\ IsAsking("resize")
    /\ IF ConfirmsTheShown("resize")
       THEN Offer(ReplacedBy(board.layout, PickedItem, asked.plan), picked, "toolbar")
       ELSE UNCHANGED <<board, picked>>
    /\ asked' = NoQuestion

\* StructureDeleteField: an empty layout goes at once.
DeleteStructure ==
    /\ MayEditLayout /\ HasPicked
    /\ board.layout.item[PickedItem].kind \in LayoutKinds
    /\ IF SubtreeOf(board.layout, PickedItem) # {PickedItem}
       THEN /\ asked' = [what |-> "delete", item |-> PickedItem,
                         shown |-> PictureOf(board.layout, PickedItem), plan |-> <<>>]
            /\ UNCHANGED <<board, picked>>
       ELSE /\ Offer(Dropped(board.layout, {PickedItem}), NoPlace, "toolbar")
            /\ QuestionAfter

ConfirmDelete ==
    /\ MayEditLayout /\ IsAsking("delete")
    /\ IF ConfirmsTheShown("delete")
       THEN Offer(Dropped(board.layout, SubtreeOf(board.layout, PickedItem)), NoPlace, "toolbar")
       ELSE UNCHANGED <<board, picked>>
    /\ asked' = NoQuestion

CancelQuestion ==
    asked # NoQuestion /\ asked' = NoQuestion /\ UNCHANGED <<board, picked>>

\* Puck's own dragging, which knows the kinds that a slot allows and no limit.
DropItem(i, place) ==
    /\ MayEditLayout /\ i \in Items(board.layout)
    /\ place[1][1] \notin SubtreeOf(board.layout, i)
    /\ AllowsChild(KindAt(board.layout, place[1]), board.layout.item[i].kind)
    /\ place[2] \in 1 .. Len(Without(board.layout, i).kids[place[1]]) + 1
    /\ place # WhereIs(board.layout, i)
    /\ Offer(MovedTo(board.layout, i, place), place, "drop")
    /\ QuestionAfter

\* Puck's Undo, with the selection of some moment around the change.
UndoLayout ==
    /\ board.past # <<>>
    /\ board' = [board EXCEPT !.layout = board.past[1].layout, !.past = <<>>]
    /\ picked' \in {NoPlace, picked, board.past[1].picked}
    /\ QuestionAfter

\* enableStructureEditing: the document becomes a structured one if it is valid.
ActivateStructure ==
    /\ ~board.structured /\ ValidLayout(board.layout)
    /\ board' = [board EXCEPT !.structured = TRUE]
    /\ UNCHANGED <<picked, asked>>

LayoutPlaces == UNION {{z} \X (1 .. Len(board.layout.kids[z]) + 1) : z \in ActiveZones(board.layout)}

LayoutNext ==
    \/ \E i \in Items(board.layout) : PickItem(WhereIs(board.layout, i))
    \/ PickItem(NoPlace)
    \/ \E place \in LayoutPlaces :
         \/ \E kind \in ItemKinds : InsertItem(kind, place)
         \/ MoveItem(place)
         \/ \E i \in ItemIds : DropItem(i, place)
    \/ \E kind \in ItemKinds, z \in ActiveZones(board.layout) : InsertStructure(kind, z)
    \/ OpenActions \/ DuplicateItem \/ RemoveItem
    \/ \E n \in 1 .. 2 : ResizeColumns(n)
    \/ ConfirmResize \/ DeleteStructure \/ ConfirmDelete \/ CancelQuestion
    \/ UndoLayout \/ ActivateStructure

LayoutSpec == LayoutInit /\ [][LayoutNext]_layoutVars
-----------------------------------------------------------------------------
(* Properties *)

\* Every variable keeps its type, and each item has one place.
LayoutTypeOK ==
    /\ board.layout.item \in [ItemIds -> LayoutItem]
    /\ \A z \in LayoutZones : board.layout.kids[z] \in Seq(Items(board.layout))
    /\ \A i \in Items(board.layout) : ZoneOf(board.layout, i) \in ActiveZones(board.layout)
    /\ Cardinality(Items(board.layout)) =
         FoldSet(LAMBDA z, n : n + Len(board.layout.kids[z]), 0, LayoutZones)
    /\ picked \in LayoutZones \X (0 .. MaxItems + 1)
    /\ asked.what \in {"none", "resize", "delete"}

\* What a structured page holds is always valid, and the boundary never refuses
\* what the toolbar, the gallery and the inspector have checked before.
OffersAreAccepted ==
    /\ board.structured => ValidLayout(board.layout)
    /\ board.notice # "toolbar"

\* The list of places to move to is exact: a place is offered just when the
\* document with the item there is valid; and so is the gallery.
MenuIsExact ==
    LET t == board.layout
    IN  board.structured =>
          \A z \in ActiveZones(t) :
            /\ \A i \in Items(t) : z # ZoneOf(t, i) =>
                 (MayPlace(t, i, EndOf(t, z)) <=>
                    z[1] \notin SubtreeOf(t, i) /\ ValidLayout(MovedTo(t, i, EndOf(t, z))))
            /\ \A kind \in ItemKinds :
                 Cardinality(Unused(t)) >= DefaultSize(kind).nodes =>
                   (Placeable(t, kind, DefaultSize(kind).nodes, DefaultSize(kind).height,
                              EndOf(t, z), 0)
                      <=> ValidLayout(Inserted(t, kind, EndOf(t, z))))

\* No command but a deletion and Undo takes an item off the page, and a deletion
\* of a layout takes what was shown when it was asked for.
NothingIsLost ==
    [][LET lost == Items(board.layout) \ Items(board'.layout)
       IN  lost # {} => \/ UndoLayout
                        \/ RemoveItem /\ lost = SubtreeOf(board.layout, PickedItem)
                        \/ DeleteStructure /\ Cardinality(lost) = 1
                        \/ ConfirmDelete /\ lost = DOMAIN asked.shown
      ]_layoutVars

\* After a command the item it was for is selected: the one that was moved, the
\* copy, the new one, or, when it is gone, a neighbour that is there.
SelectionFollows ==
    [][board'.edits = board.edits + 1 /\ board'.notice = "none"
       => /\ picked' = NoPlace \/ Resolves(board'.layout, picked')
          /\ MoveItem(picked') => ItemAt(board'.layout, picked') = PickedItem
          /\ (\E kind \in ItemKinds : InsertItem(kind, picked')) =>
               ItemAt(board'.layout, picked') \notin Items(board.layout)
      ]_layoutVars
=============================================================================
