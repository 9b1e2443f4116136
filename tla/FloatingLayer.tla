----------------------------- MODULE FloatingLayer -----------------------------
(***************************************************************************)
(* RichTextFloatingLayer: options and dialogs of the inline menu, placed   *)
(* beside their anchor within the part of the canvas that is free. Its     *)
(* limits change its own size, observers report the sizes late and also    *)
(* when nothing moved, and it is shown when its place has been the same    *)
(* for three frames.                                                       *)
(*                                                                         *)
(* Anchors and free parts are few; what the browser moves without telling   *)
(* any observer is left out.                                               *)
(***************************************************************************)
EXTENDS Naturals, Sequences

CONSTANTS
    Anchors,         \* where the anchor is
    FreeParts,      \* the clips of the action bar
    MaxMoves        \* changes of the geometry, and reports without any

ASSUME FloatingAssumption == Anchors # {} /\ FreeParts # {} /\ MaxMoves \in Nat

VARIABLES
    ground,         \* where the anchor is, what is free, whether an observer will report
    layer,          \* position(): what it wrote, and what it waits for
    placements      \* history: the last three placements

floatingVars == <<ground, layer, placements>>

StableFrames == 3
-----------------------------------------------------------------------------
\* The layer's size follows from the limits that were written to it.
Geometry(g, limits) == <<g.place, g.free, limits>>

\* Mutated: a report is taken for a change.
AlwaysMoved(geometry) == TRUE

HasMoved(geometry) == geometry # layer.known

\* invalidatePlacement: an equal report keeps a layer that is shown, and the frames
\* that were counted.
Report ==
    /\ ground.reports
    /\ ground' = [ground EXCEPT !.reports = FALSE]
    /\ layer' = IF HasMoved(Geometry(ground, layer.limits))
                THEN [layer EXCEPT !.known = Geometry(ground, layer.limits), !.shown = FALSE,
                                   !.pending = << >>, !.frames = 0, !.scheduled = TRUE]
                ELSE layer
    /\ UNCHANGED placements

\* Mutated: frames are counted wherever they placed it.
CountedFrames(place) == layer.frames + 1

\* Frames with an equal placement, this one included.
EqualFrames(place) == IF layer.pending = place THEN layer.frames + 1 ELSE 1

\* position: the limits are written first, and may change the size.
Frame ==
    /\ layer.scheduled
    /\ LET place == Geometry(ground, ground.free)
           frames == EqualFrames(place)
           ready == layer.shown \/ frames >= StableFrames
       IN  /\ layer' = [limits |-> ground.free, known |-> place, placed |-> place, pending |-> place,
                        frames |-> frames, shown |-> ready, scheduled |-> ~ready]
           /\ ground' = [ground EXCEPT !.reports = @ \/ layer.limits # ground.free]
           /\ placements' = Append(IF Len(placements) < StableFrames THEN placements ELSE Tail(placements), place)

\* The anchor or the free part changes, and an observer, a scroll or a resize tells it;
\* or an observer reports what did not move it.
Move ==
    /\ ground.moves < MaxMoves
    /\ \E p \in Anchors, f \in FreeParts :
         ground' = [place |-> p, free |-> f, reports |-> TRUE, moves |-> ground.moves + 1]
    /\ UNCHANGED <<layer, placements>>
-----------------------------------------------------------------------------
\* The effect places it at once.
FloatingInit ==
    /\ ground = [place |-> CHOOSE p \in Anchors : TRUE, free |-> CHOOSE f \in FreeParts : TRUE,
                 reports |-> TRUE, moves |-> 0]
    /\ layer = [limits |-> ground.free, known |-> Geometry(ground, ground.free),
                placed |-> Geometry(ground, ground.free), pending |-> Geometry(ground, ground.free),
                frames |-> 1, shown |-> FALSE, scheduled |-> TRUE]
    /\ placements = <<Geometry(ground, ground.free)>>

FloatingNext == Report \/ Frame \/ Move
-----------------------------------------------------------------------------
(* Properties *)

\* Type invariant: the refs of the effect.
FloatingTypeOK ==
    /\ ground.place \in Anchors /\ ground.free \in FreeParts
    /\ layer.limits \in FreeParts /\ layer.placed \in Anchors \X FreeParts \X FreeParts
    /\ layer.frames \in 0..StableFrames

\* A layer that is shown is where its anchor is, or is about to hear that it is not; one
\* that is hidden is about to be placed. So none is lost, and none stays beside nothing.
ShownInPlace ==
    /\ layer.shown => layer.placed = Geometry(ground, layer.limits) \/ ground.reports
    /\ ~layer.shown => layer.scheduled

\* A report alone does not hide what the user is about to press: only a change of the
\* geometry does.
HiddenWhenMoved ==
    [][layer.shown /\ ~layer'.shown => layer.placed # Geometry(ground, layer.limits)]_floatingVars

\* It is shown after three frames at one place.
ShownWhenStill ==
    [][~layer.shown /\ layer'.shown =>
           Len(placements') = StableFrames /\ \A i \in 1..StableFrames : placements'[i] = layer'.placed]_floatingVars
=============================================================================
