--------------------------- MODULE CanvasGesture ---------------------------
(***************************************************************************)
(* Dragging, resizing and rotating on the canvas of the precise editor: a  *)
(* gesture paints a provisional command over the elements that React       *)
(* renders, and gives it to the document when it ends.                     *)
(*                                                                         *)
(* React is external: a change of the document, of the selection or of the *)
(* view is rendered some time later, writes only the declarations that     *)
(* differ from its last render, and its effects run later still.           *)
(***************************************************************************)
EXTENDS Naturals

CONSTANTS Boxes,           \* the nodes of the document
          Widths,          \* the sizes that a gesture gives
          NoWidth,         \* none
          Selections,      \* the sets of nodes that are selected at once
          MaxRevision      \* bound on the changes of the document

ASSUME CanvasGestureAssumption ==
    /\ NoWidth \notin Widths
    /\ Selections \subseteq SUBSET Boxes
    /\ MaxRevision \in Nat \ {0}

VARIABLES sheet,    \* the document of the bridge, and the selection
          surface,  \* what GeometryAdapter rendered, and its elements
          gesture   \* createGeometryGesture's pending, and `before`

gestureVars == <<sheet, surface, gesture>>
-----------------------------------------------------------------------------
\* A hidden node is painted with no size.
Look == [width : Widths, hidden : BOOLEAN]

Styles == [Boxes -> Look]

\* queued: the change that is given to Puck and has not come back, if any.
Sheet == [style : Styles, queued : {<<>>} \cup {<<s>> : s \in Styles},
          revision : 0 .. MaxRevision, readonly : BOOLEAN, selected : SUBSET Boxes]

\* stale: a render is due; effect: the effects of the last one are due.
Surface == [painted : Styles, rendered : Styles, selected : SUBSET Boxes,
            readonly : BOOLEAN, targets : SUBSET Boxes, handles : BOOLEAN,
            stale : BOOLEAN, effect : BOOLEAN, dragging : BOOLEAN]

Gesture == [active : BOOLEAN, ids : SUBSET Boxes, revision : 0 .. MaxRevision,
            command : Widths \cup {NoWidth}, before : SUBSET Boxes]

NoGesture == [active |-> FALSE, ids |-> {}, revision |-> 0, command |-> NoWidth,
              before |-> {}]

Shown(style, ids) == \A n \in ids : ~style[n].hidden

\* The document after a command of the gesture.
Resized(ids, w) ==
    [n \in Boxes |-> IF n \in ids THEN [sheet.style[n] EXCEPT !.width = w]
                     ELSE sheet.style[n]]

\* Moveable is there for a selection that can be measured and changed.
WithHandles(s) ==
    LET allowed == /\ s.targets # {} /\ s.targets = s.selected /\ ~s.readonly
                   /\ Shown(s.rendered, s.targets) /\ Shown(s.painted, s.targets)
    IN  [s EXCEPT !.handles = allowed, !.dragging = @ /\ allowed]

\* restore(): the elements of the gesture get the style of the document of now.
RestoredElements(s) ==
    [s EXCEPT !.painted = [n \in Boxes |-> IF n \in gesture.before THEN sheet.style[n]
                                           ELSE @[n]]]

\* Mutated: the elements stay as they are.
UnrestoredElements(s) == [s EXCEPT !.dragging = FALSE]

\* cancel(), on the elements.
CancelledElements(s) == [RestoredElements(s) EXCEPT !.dragging = FALSE]

Cancel == gesture' = NoGesture /\ surface' = CancelledElements(surface)
-----------------------------------------------------------------------------
GestureInit ==
    \E s \in Styles :
        /\ sheet = [style |-> s, queued |-> <<>>, revision |-> 0, readonly |-> FALSE,
                    selected |-> {}]
        /\ surface = [painted |-> s, rendered |-> s, selected |-> {}, readonly |-> FALSE,
                      targets |-> {}, handles |-> FALSE, stale |-> FALSE,
                      effect |-> FALSE, dragging |-> FALSE]
        /\ gesture = NoGesture

\* An input finds the change before it accepted and rendered, but perhaps not
\* the effects of its render.
CanvasUpToDate == sheet.queued = <<>> /\ surface.rendered = sheet.style

CanCommit == CanvasUpToDate /\ sheet.revision < MaxRevision

\* onDragStart, onResizeStart, onRotateStart: begin, or its failure. Effects run
\* within a frame, before the next press of the pointer.
BeginGesture ==
    /\ surface.handles /\ ~surface.dragging /\ ~surface.effect /\ CanvasUpToDate
    /\ IF /\ ~sheet.readonly /\ surface.selected \subseteq surface.targets
          /\ Shown(sheet.style, surface.selected) /\ Shown(surface.painted, surface.selected)
       THEN /\ gesture' = [active |-> TRUE, ids |-> surface.selected,
                           revision |-> sheet.revision, command |-> NoWidth,
                           before |-> surface.targets]
            /\ surface' = [surface EXCEPT !.dragging = TRUE]
       ELSE Cancel
    /\ UNCHANGED sheet

\* What current() asks of the document.
IsCurrent == ~sheet.readonly /\ sheet.revision = gesture.revision

\* geometryCommand and preview accept the command.
PreviewsItsTargets ==
    /\ IsCurrent
    /\ surface.selected \subseteq gesture.before /\ Shown(sheet.style, surface.selected)
    /\ surface.selected = gesture.ids

\* onDrag, onResize, onRotate. constrained: the browser did not give the element
\* the size that is asked for.
PreviewGesture(w, constrained) ==
    /\ surface.dragging /\ gesture.active
    /\ IF PreviewsItsTargets /\ ~constrained
       THEN /\ gesture' = [gesture EXCEPT !.command = w]
            /\ surface' = [surface EXCEPT
                 !.painted = [n \in Boxes |-> IF n \in surface.targets
                                              THEN Resized(surface.selected, w)[n] ELSE @[n]]]
       ELSE Cancel
    /\ UNCHANGED sheet

\* bridge.execute of a command: Puck gets it, and its nodes are selected.
Committed(style, ids) ==
    IF style = sheet.style THEN UNCHANGED sheet
    ELSE sheet' = [sheet EXCEPT !.queued = <<style>>, !.selected = ids]

\* Mutated: a gesture that was begun on another document is committed.
FinishesAnything == gesture.command # NoWidth

\* finish() has a command, and the document is the one it was begun on.
FinishesCurrent == IsCurrent /\ gesture.command # NoWidth

\* onDragEnd, onResizeEnd, onRotateEnd.
FinishGesture ==
    /\ surface.dragging /\ CanCommit
    /\ gesture' = NoGesture
    /\ IF gesture.active /\ FinishesCurrent
       THEN /\ Committed(Resized(gesture.ids, gesture.command), gesture.ids)
            /\ surface' = [CancelledElements(surface) EXCEPT !.stale = TRUE]
       ELSE surface' = CancelledElements(surface) /\ UNCHANGED sheet

\* Escape, a lost focus, a click in a field, a pan or a checkbox.
Abandon == gesture.active /\ Cancel /\ UNCHANGED sheet

\* An arrow key, an alignment or Undo: the gesture is abandoned, then the
\* document is changed.
CommandOverGesture(n, look) ==
    /\ CanCommit /\ ~sheet.readonly /\ look # sheet.style[n]
    /\ gesture' = NoGesture
    /\ surface' = [CancelledElements(surface) EXCEPT !.stale = TRUE]
    /\ \E ids \in {sheet.selected, {n}} : Committed([sheet.style EXCEPT ![n] = look], ids)

\* Delete, the inspector or a late upload change the document.
ChangeBesideGesture(n, look) ==
    /\ CanCommit /\ ~sheet.readonly /\ look # sheet.style[n]
    /\ Committed([sheet.style EXCEPT ![n] = look], {n})
    /\ surface' = [surface EXCEPT !.stale = TRUE]
    /\ UNCHANGED gesture

\* Puck's onChange: the document is the changed one.
AcceptChange ==
    /\ sheet.queued # <<>>
    /\ sheet' = [sheet EXCEPT !.style = sheet.queued[1], !.queued = <<>>,
                              !.revision = @ + 1]
    /\ surface' = [surface EXCEPT !.stale = TRUE]
    /\ UNCHANGED gesture

\* selectMany: by the marquee, which a gesture blocks, or by Ctrl+A and the tree.
SelectBoxes(ids) ==
    /\ sheet.queued = <<>>
    /\ sheet' = [sheet EXCEPT !.selected = ids]
    /\ surface' = [surface EXCEPT !.stale = TRUE]
    /\ UNCHANGED gesture

\* The page becomes readonly or writable; the zoom or the width changes.
ChangeView ==
    /\ \E r \in BOOLEAN : sheet' = [sheet EXCEPT !.readonly = r]
    /\ surface' = [surface EXCEPT !.stale = TRUE]
    /\ UNCHANGED gesture

\* React writes the declarations that differ from its last render.
Repainted(old, rendered, style) ==
    [width  |-> IF rendered.width = style.width THEN old.width ELSE style.width,
     hidden |-> IF rendered.hidden = style.hidden THEN old.hidden ELSE style.hidden]

RenderSurface ==
    /\ surface.stale /\ ~surface.effect
    /\ surface' = WithHandles([surface EXCEPT
         !.painted = [n \in Boxes |-> Repainted(@[n], surface.rendered[n], sheet.style[n])],
         !.rendered = sheet.style, !.selected = sheet.selected,
         !.readonly = sheet.readonly, !.stale = FALSE, !.effect = TRUE])
    /\ UNCHANGED <<sheet, gesture>>

\* Mutated: a change of the page does not end the gesture.
SurfaceEffectKeepsGesture ==
    /\ surface.effect
    /\ surface' = WithHandles([surface EXCEPT !.targets = surface.selected,
                                              !.effect = FALSE])
    /\ UNCHANGED <<sheet, gesture>>

\* The effect on the page, the selection and the view: cancel, and new targets.
SurfaceEffect ==
    /\ surface.effect
    /\ gesture' = NoGesture
    /\ surface' = WithHandles([CancelledElements(surface) EXCEPT !.targets = surface.selected,
                                                         !.effect = FALSE])
    /\ UNCHANGED sheet

\* The MutationObserver finds the elements of the selection.
RefreshTargets ==
    /\ surface.targets # sheet.selected
    /\ surface' = WithHandles([surface EXCEPT !.targets = sheet.selected])
    /\ UNCHANGED <<sheet, gesture>>

GestureNext ==
    \/ BeginGesture \/ FinishGesture \/ Abandon
    \/ \E w \in Widths, c \in BOOLEAN : PreviewGesture(w, c)
    \/ \E n \in Boxes, look \in Look :
         CommandOverGesture(n, look) \/ ChangeBesideGesture(n, look)
    \/ \E ids \in Selections : SelectBoxes(ids)
    \/ AcceptChange \/ ChangeView
    \/ RenderSurface \/ SurfaceEffect \/ RefreshTargets

\* React renders and runs its effects.
GestureFairness == /\ WF_gestureVars(AcceptChange)
                   /\ WF_gestureVars(RenderSurface)
                   /\ WF_gestureVars(SurfaceEffect)

GestureSpec == GestureInit /\ [][GestureNext]_gestureVars /\ GestureFairness
-----------------------------------------------------------------------------
(* Properties *)

\* Every variable keeps its type.
GestureTypeOK == sheet \in Sheet /\ surface \in Surface /\ gesture \in Gesture

\* When no gesture is under way and the last change is rendered, the canvas
\* shows the document: nothing provisional stays, however a gesture ended.
NothingProvisionalStays ==
    ~gesture.active /\ surface.rendered = sheet.style => surface.painted = sheet.style

\* What the end of a gesture gives to the document is, for its nodes, what was
\* on the screen, and for the others what was there; never on a readonly page.
CommitsWhatWasShown ==
    [][gesture.active /\ ~gesture'.active /\ FinishGesture /\ sheet'.queued # <<>>
       => /\ ~sheet.readonly
          /\ \A n \in Boxes : sheet'.queued[1][n] =
                IF n \in gesture.before THEN surface.painted[n] ELSE sheet.style[n]
      ]_gestureVars

\* A gesture does not outlive the document that it was begun on.
StaleGesturesEnd == []<>(~gesture.active \/ gesture.revision = sheet.revision)
=============================================================================
