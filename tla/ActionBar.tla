------------------------------- MODULE ActionBar -------------------------------
(***************************************************************************)
(* The bar of the selected block (useSelectedActionBarSafeZone) and that   *)
(* of a selected site part (useSitePartActionBarPosition): above or below  *)
(* what is selected, or docked at an edge, within the part of the canvas   *)
(* that the host shows. A place is reached by a translation that adds to   *)
(* the one before, in pixels that the canvas may scale.                    *)
(*                                                                         *)
(* Scenes are few, on a grid coarse enough for device pixels not to round. *)
(* What the browser moves without telling any observer is left out.        *)
(***************************************************************************)
EXTENDS Integers, FiniteSets, FiniteSetsExt

CONSTANTS Scenes,     \* what there is to measure
          Gap,        \* SELECTED_ACTION_BAR_SAFE_INSET_PX
          NoRect,     \* nothing is visible, no range, no limit
          MaxShifts   \* bound on the changes of the scene and of the edited range

VARIABLES scene,      \* the host, the frame and what is selected in it
          actionBar,  \* the styles of the bar and the refs of its effect
          shifts      \* the changes so far

actionBarVars == <<scene, actionBar, shifts>>
-----------------------------------------------------------------------------
(* Rectangles by their edges *)

Edges(left, top, right, bottom) == [left |-> left, top |-> top, right |-> right, bottom |-> bottom]
Corner(r) == [left |-> r.left, top |-> r.top]
Wide(r) == r.right - r.left
High(r) == r.bottom - r.top

\* intersectOverlayRects
Meeting(rects) ==
    LET r == Edges(Max({x.left : x \in rects}), Max({x.top : x \in rects}),
                   Min({x.right : x \in rects}), Min({x.bottom : x \in rects}))
    IN  IF r.right <= r.left \/ r.bottom <= r.top THEN NoRect ELSE r

Around(rects) == Edges(Min({x.left : x \in rects}), Min({x.top : x \in rects}),
                       Max({x.right : x \in rects}), Max({x.bottom : x \in rects}))

\* The pixels of a rectangle.
Pixels(r) == (r.left .. r.right - 1) \X (r.top .. r.bottom - 1)

\* overlapArea, of one rectangle or the sum for several: the pixels of r in each of them.
Covered(r, rects) == Cardinality({shared \in Pixels(r) \X rects : shared[1] \in Pixels(shared[2])})

Overlap(r, other) == Covered(r, {other})

\* Mutated: a value above the range stays.
ClampedBelow(value, least, most) == IF value < least THEN least ELSE value

Clamped(value, least, most) ==
    IF most <= least THEN least ELSE Min({most, Max({least, value})})

\* visibleOwnerViewport: what the host and the ancestors of the frame leave of it, in the
\* frame's own pixels.
VisibleClip(s) ==
    LET host == Meeting({s.host, s.frame} \cup s.ancestors)
        InFrame(x) == ((x - s.frame.left) * s.view.right) \div Wide(s.frame)
        DownFrame(y) == ((y - s.frame.top) * s.view.bottom) \div High(s.frame)
    IN  IF host = NoRect THEN NoRect
        ELSE Meeting({s.view, Edges(InFrame(host.left), DownFrame(host.top),
                                    InFrame(host.right), DownFrame(host.bottom))})

Safe(clip) ==
    LET left == Min({clip.right, clip.left + Gap})
        top == Min({clip.bottom, clip.top + Gap})
    IN  Edges(left, top, Max({left, clip.right - Gap}), Max({top, clip.bottom - Gap}))

\* Mutated: the edge with less room.
DockWithLessRoom(overTop, overBottom, above, below) ==
    IF overTop > overBottom \/ (overTop = overBottom /\ above >= below) THEN "dock-top" ELSE "dock-bottom"

Dock(overTop, overBottom, above, below) ==
    IF overTop < overBottom \/ (overTop = overBottom /\ above >= below) THEN "dock-top" ELSE "dock-bottom"

\* placeEditorOverlay
Placed(anchor, size, clip, avoid) ==
    LET safe == Safe(clip)
        width == Min({size.width, Wide(safe)})
        height == Min({size.height, High(safe)})
        left == Clamped(anchor.right - width, safe.left, safe.right - width)
        above == Max({0, anchor.top - Gap - safe.top})
        below == Max({0, safe.bottom - anchor.bottom - Gap})
        near == IF avoid = {} THEN {anchor} ELSE avoid
        side == IF height <= above THEN "above" ELSE IF height <= below THEN "below"
                ELSE Dock(Covered(Edges(left, safe.top, left + width, safe.top + height), near),
                          Covered(Edges(left, safe.bottom - height, left + width, safe.bottom), near),
                          above, below)
        top == CASE side = "above" -> anchor.top - Gap - height
                 [] side = "below" -> anchor.bottom + Gap
                 [] side = "dock-top" -> safe.top
                 [] OTHER -> safe.bottom - height
    IN  [left |-> left, top |-> Clamped(top, safe.top, safe.bottom - height), side |-> side]

\* A whole number of the pixels of a bar in a scale.
Whole(x, scale) == x \in Int /\ (x \div scale) * scale = x

WholeEdges(r, scale) ==
    r = Edges(r.left, r.top, r.right, r.bottom)
    /\ \A edge \in {r.left, r.top, r.right, r.bottom} : Whole(edge, scale)

\* Nothing that a place depends on is between two pixels, nor was when it was measured.
ASSUME ActionBarAssumption ==
    /\ Gap \in Nat /\ MaxShifts \in Nat /\ NoRect \notin Int
    /\ \A s \in Scenes :
         /\ s.scale \in Nat \ {0} /\ s.size.width \in Nat /\ s.size.height \in Nat
         /\ Whole(Gap, s.scale) /\ IsFiniteSet(s.busy)
         /\ WholeEdges(s.overlay, s.scale) /\ WholeEdges(Around({s.overlay} \cup s.panels), s.scale)
         /\ VisibleClip(s) # NoRect => WholeEdges(VisibleClip(s), s.scale)
         /\ \A t \in Scenes : t.range # NoRect => WholeEdges(t.range, s.scale)
-----------------------------------------------------------------------------
(* The bar *)

\* getBoundingClientRect of the bar: Puck puts it at the corner of what is selected.
BarSize(s, b) ==
    [width |-> s.scale * (IF b.limit = NoRect THEN s.size.width ELSE Min({b.limit, s.size.width})),
     height |-> s.scale * s.size.height]

BarCorner(s, b) == [left |-> s.overlay.left + s.scale * b.x, top |-> s.overlay.top + s.scale * b.y]

BarRect(s, b) ==
    LET at == BarCorner(s, b) size == BarSize(s, b)
    IN  Edges(at.left, at.top, at.left + size.width, at.top + size.height)

\* The selected range, or the one the context holds, or the block; for a part, with its
\* open panels.
AnchorOf(s, b) ==
    IF b.kind = "part" THEN Around({s.overlay} \cup s.panels)
    ELSE IF ~b.ranging THEN s.overlay
    ELSE IF s.range # NoRect THEN s.range
    ELSE IF b.range # NoRect THEN b.range ELSE s.overlay

\* currentInteractionRects
Avoided(s, b) == IF b.kind = "part" THEN {} ELSE s.busy

PlaceOf(s, b) == Placed(AnchorOf(s, b), BarSize(s, b), VisibleClip(s), Avoided(s, b))

\* Mutated: the translation starts anew.
MovedAnew(s, b, target) ==
    [b EXCEPT !.x = (target.left - BarCorner(s, b).left) \div s.scale,
              !.y = (target.top - BarCorner(s, b).top) \div s.scale]

\* inverseScaledTranslation, added to the translation that is written.
Moved(s, b, target) ==
    [b EXCEPT !.x = @ + (target.left - BarCorner(s, b).left) \div s.scale,
              !.y = @ + (target.top - BarCorner(s, b).top) \div s.scale]

\* The widest a block's bar may be, written before it is measured.
Limited(s, b) ==
    IF b.kind = "part" THEN b
    ELSE [b EXCEPT !.limit = Max({0, Wide(VisibleClip(s)) - 2 * Gap}) \div s.scale]

\* syncPosition, place: with nothing visible a block's bar is hidden, a part's stays.
Synced(s, b) ==
    LET seen == Limited(s, [b EXCEPT !.scheduled = FALSE])
    IN  IF VisibleClip(s) = NoRect THEN [b EXCEPT !.scheduled = FALSE, !.shown = @ /\ b.kind = "part"]
        ELSE LET target == PlaceOf(s, seen)
             IN  [Moved(s, seen, target) EXCEPT !.shown = TRUE, !.side = target.side]

\* clearPosition: what an effect leaves, and what a bar is mounted with.
ClearedBar(kind, ranging, range) ==
    [kind |-> kind, ranging |-> ranging, range |-> range, x |-> 0, y |-> 0, limit |-> NoRect,
     shown |-> kind = "part", side |-> "none", scheduled |-> FALSE]
-----------------------------------------------------------------------------
\* schedulePosition: an observer, a scroll, a resize or a change of the selection tells it.
SceneShifts ==
    /\ shifts < MaxShifts
    /\ scene' \in Scenes
    /\ actionBar' = [actionBar EXCEPT !.scheduled = TRUE]
    /\ shifts' = shifts + 1

\* The animation frame.
BarFrame ==
    /\ actionBar.scheduled
    /\ actionBar' = Synced(scene, actionBar)
    /\ UNCHANGED <<scene, shifts>>

\* The text of a block begins or ends to be edited, or its range is another one: the
\* effect ends, with its frame and its styles, and runs again.
EditRange ==
    /\ actionBar.kind = "block" /\ shifts < MaxShifts
    /\ \E ranging \in BOOLEAN, range \in {NoRect, scene.range} :
         /\ ranging \/ range = NoRect
         /\ actionBar' = Synced(scene, ClearedBar("block", ranging, range))
    /\ shifts' = shifts + 1
    /\ UNCHANGED scene

ActionBarMounted(kind, s) ==
    /\ scene = s /\ shifts = 0
    /\ actionBar = Synced(s, ClearedBar(kind, FALSE, NoRect))

ActionBarInit == \E kind \in {"block", "part"}, s \in Scenes : ActionBarMounted(kind, s)

ActionBarNext == SceneShifts \/ BarFrame \/ EditRange
-----------------------------------------------------------------------------
(* Properties *)

\* Type invariant: the styles of the bar and the refs of its effect.
ActionBarTypeOK ==
    /\ scene \in Scenes /\ shifts \in 0..MaxShifts
    /\ actionBar.x \in Int /\ actionBar.y \in Int
    /\ actionBar.limit = NoRect \/ actionBar.limit \in Nat
    /\ actionBar.side \in {"none", "above", "below", "dock-top", "dock-bottom"}
    /\ {actionBar.shown, actionBar.scheduled, actionBar.ranging} \subseteq BOOLEAN

\* Nothing is on its way, and the bar has been placed in what is visible.
BarRests == ~actionBar.scheduled /\ VisibleClip(scene) # NoRect

\* Whatever moved, was scaled or was edited before, a bar at rest is where it is placed
\* from nothing; a block's bar is shown there, and hidden when nothing is visible.
BarInPlace ==
    /\ BarRests => /\ actionBar.shown
                   /\ BarCorner(scene, actionBar) = Corner(PlaceOf(scene, actionBar))
                   /\ actionBar.side = PlaceOf(scene, actionBar).side
    /\ ~actionBar.scheduled /\ VisibleClip(scene) = NoRect => (actionBar.shown <=> actionBar.kind = "part")

\* A bar at rest lies within what is visible, where it fits at all: a block's bar is
\* always narrow enough.
BarIsReachable ==
    BarRests =>
        LET bar == BarRect(scene, actionBar) safe == Safe(VisibleClip(scene))
        IN  /\ Wide(bar) <= Wide(safe) => safe.left <= bar.left /\ bar.right <= safe.right
            /\ High(bar) <= High(safe) => safe.top <= bar.top /\ bar.bottom <= safe.bottom
            /\ actionBar.kind = "block" => Wide(bar) <= Wide(safe)

\* The bar covers what it belongs to only where there is no room above or below, and then
\* at the edge where it covers less of what is being edited.
BarCoversLittle ==
    BarRests =>
        LET bar == BarRect(scene, actionBar) safe == Safe(VisibleClip(scene))
            anchor == AnchorOf(scene, actionBar)
            near == IF Avoided(scene, actionBar) = {} THEN {anchor} ELSE Avoided(scene, actionBar)
            At(top) == Edges(bar.left, top, bar.right, top + High(bar))
        IN  High(bar) <= High(safe) /\ Wide(bar) <= Wide(safe) =>
              IF High(bar) + Gap <= anchor.top - safe.top \/ High(bar) + Gap <= safe.bottom - anchor.bottom
              THEN Overlap(bar, anchor) = 0
              ELSE \A top \in {safe.top, safe.bottom - High(bar)} :
                     Covered(bar, near) <= Covered(At(top), near)
=============================================================================
