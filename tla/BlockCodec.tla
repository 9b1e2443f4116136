----------------------------- MODULE BlockCodec -----------------------------
(***************************************************************************)
(* The codec between a block of a stored page and the item that Puck       *)
(* edits. The editor fills in every field; the document keeps only what    *)
(* was chosen, and what a block had when it was opened, so that a page     *)
(* nobody touched is stored as it was.                                     *)
(*                                                                         *)
(* A behaviour follows one block through edits, saves and openings; a      *)
(* duplicate is followed in the place of its original. Of a field one      *)
(* tells the fallback (Plain) from what was chosen.                        *)
(***************************************************************************)
EXTENDS Naturals, FiniteSets

CONSTANTS BlockTypes,  \* those that are opened, of DOMAIN EditorFields
          MaxKept,     \* bound on the optional fields of the stored block
          MaxStrokes   \* bound on the edits

Plain == "plain"

\* What the inspector and the canvas give of each kind of block. A hero stands for
\* ImageText too.
HeroFields == {"surface", "container", "motion", "visibility", "tablet", "mobile", "layout",
               "mediaPosition", "primaryCta", "extra", "actions"}

\* The blocks whose layout came later.
FeaturesFields == {"surface", "container", "motion", "visibility", "tablet", "mobile", "layout"}

\* Lists of posts and products, with a page count.
ListingFields == {"surface", "container", "visibility", "tablet", "mobile", "pageSize"}

\* A slider has settings that are stored together.
SliderFields == {"surface", "motion", "slider"}

CardFields == {"surface", "tablet", "media"}

SectionFields == {"motion", "tablet", "mobile", "content"}

\* The envelope of the document.
PageFields == {"tokens", "shell_mode"}

EditorFields == [hero |-> HeroFields, features |-> FeaturesFields, listing |-> ListingFields,
                 slider |-> SliderFields, card |-> CardFields, section |-> SectionFields,
                 page |-> PageFields]

ASSUME BlockCodecAssumption ==
    /\ BlockTypes # {} /\ BlockTypes \subseteq DOMAIN EditorFields
    /\ MaxKept \in Nat /\ MaxStrokes \in Nat \ {0}

VARIABLES item,          \* what Puck holds of the block
          blockContext,  \* PuckAdapterContext: what the block had when it was opened
          stored,        \* the block of the document that was opened or saved last
          touched,       \* ghost: what was edited since
          strokes        \* the edits so far

codecVars == <<item, blockContext, stored, touched, strokes>>
-----------------------------------------------------------------------------
Devices == {"tablet", "mobile"}
Common == {"surface", "container"}   \* the parts of an appearance that a device may override
Children == {"extra", "actions", "media", "content"}

\* What a device overrides.
Overrides == [plain |-> {}, surface |-> {"surface"}, container |-> {"container"},
              both |-> Common]

ValuesOf(f) ==
    CASE f \in Devices -> DOMAIN Overrides
      [] f = "layout"  -> {Plain, "chosen", "split"}
      [] f = "actions" -> {Plain, "empty", "chosen"}   \* Plain: not enabled
      [] OTHER -> {Plain, "chosen"}

\* Both come from one object of the document.
Appearance(t) == Common \cap EditorFields[t]

Required(t) == {"content"} \cap EditorFields[t]

\* canonicalToPuck: what is not there gets its fallback.
ToPuck(t, c) == [f \in EditorFields[t] |-> IF f \in DOMAIN c THEN c[f] ELSE Plain]

\* collectMetadata.
Metadata(t, c, v2) ==
    [had |-> DOMAIN c, v2 |-> v2,
     initialLayout |-> IF "layout" \in EditorFields[t] THEN ToPuck(t, c).layout ELSE "none"]

\* The metadata of an instance that the context does not know.
NewMetadata(v2) ==
    [had |-> {"slots", "layout", "pageSize"}, v2 |-> v2, initialLayout |-> "none"]

\* Mutated: what equals the fallback is dropped.
KeptOfNone == {}

\* What stays when it was there, though it says nothing.
KeptIfThere == {"motion", "visibility", "slider", "extra", "media", "tokens", "shell_mode"}

\* Mutated: the container is forgotten when the rest of the appearance is as it would be.
AppearanceOfSurface(p, m) == p["surface"] # Plain \/ "surface" \in m.had

\* attachAppearance and mergeBlockContainerAppearance.
AppearanceIsWritten(p, m) ==
    \E f \in Common \cap DOMAIN p : p[f] # Plain \/ f \in m.had

\* Mutated: a block without a layout never gets one.
LayoutIfThere(t, p, m) == "layout" \in m.had

LayoutIsWritten(t, p, m) ==
    /\ t = "hero" => p["layout"] # Plain
    /\ "layout" \in m.had \/ p["layout"] # m.initialLayout

ButtonIsWritten(p) == p["primaryCta"] # Plain /\ p["actions"] = Plain

\* puckBlockToCanonical: the fields that the document gets.
WrittenFields(t, p, m) ==
    {f \in EditorFields[t] :
        CASE f \in Required(t)     -> TRUE
          [] f \in Appearance(t)   -> AppearanceIsWritten(p, m)
          [] f = "layout"          -> LayoutIsWritten(t, p, m)
          [] f = "mediaPosition"   -> p["layout"] = "split"
          [] f = "primaryCta"      -> ButtonIsWritten(p)
          [] f = "pageSize"        -> "pageSize" \in m.had
          [] OTHER                 -> \/ p[f] # Plain
                                      \/ f \in KeptIfThere \cap m.had}

\* An empty object of slots stays one.
SlotsAreWritten(t, p, m) ==
    "slots" \in m.had \/ WrittenFields(t, p, m) \cap Children # {}

Canonical(t, p, m) ==
    [f \in WrittenFields(t, p, m) \cup (IF SlotsAreWritten(t, p, m) THEN {"slots"} ELSE {}) |->
        IF f \in DOMAIN p THEN p[f] ELSE Plain]
\* Mutated: a phone takes what the tablet has.
ResolvedDownwards(p, d, part) ==
    IF part \in Overrides[p[d]] \/ (d = "mobile" /\ part \in Overrides[p["tablet"]])
    THEN "own" ELSE p[part]

\* resolveResponsiveAppearance: what a device shows of a part.
Resolved(p, d, part) == IF part \in Overrides[p[d]] THEN "own" ELSE p[part]
-----------------------------------------------------------------------------
\* The blocks that the schema lets in and an editor has written: an appearance is one
\* object, slots hold the children, a hero has a position for a split picture only, and
\* either a button of its own or slots for it. Only v2 has children.
WellFormed(t, c, v2) ==
    LET there == DOMAIN c
    IN  /\ Required(t) \subseteq there
        /\ Appearance(t) \cap there \in {{}, Appearance(t)}
        /\ there \cap Children # {} => "slots" \in there /\ v2
        /\ t = "section" => v2
        /\ \A f \in there : f \in Devices \cup {"primaryCta", "actions"} => c[f] # Plain
        /\ t = "hero" =>
             /\ "layout" \in there => c["layout"] # Plain
             /\ "mediaPosition" \in there <=> ("layout" \in there /\ c["layout"] = "split")
             /\ ~({"primaryCta", "actions"} \subseteq there)
        /\ t # "hero" /\ "layout" \in there => c["layout"] # "split"

BlockOpened(t, c, v2) ==
    /\ stored = c
    /\ item = [type |-> t, props |-> ToPuck(t, c)]
    /\ blockContext = Metadata(t, c, v2)
    /\ touched = {} /\ strokes = 0

BlockCodecInit ==
    \E t \in BlockTypes, v2 \in BOOLEAN :
    \E kept \in SUBSET (EditorFields[t] \cup IF t = "page" THEN {} ELSE {"slots"}) :
        /\ Cardinality(kept) <= MaxKept
        /\ stored \in [kept -> UNION {ValuesOf(f) : f \in EditorFields[t]}]
        /\ \A f \in kept : stored[f] \in IF f = "slots" THEN {Plain} ELSE ValuesOf(f)
        /\ WellFormed(t, stored, v2)
        /\ BlockOpened(t, stored, v2)

Stroke(f, props) ==
    /\ strokes < MaxStrokes
    /\ strokes' = strokes + 1
    /\ item' = [item EXCEPT !.props = props]
    /\ touched' = touched \cup {f}
    /\ UNCHANGED <<blockContext, stored>>

\* A field of the inspector, or the children on the canvas: those of a v2 document, the
\* actions when they are enabled, the button of the block when they are not. The shell
\* is not edited here.
EditField(f, v) ==
    /\ f \in DOMAIN item.props \ (Devices \cup {"shell_mode"})
    /\ v \in ValuesOf(f) \ {item.props[f]}
    /\ f \in Children => blockContext.v2
    /\ f = "actions" => item.props[f] # Plain /\ v # Plain
    /\ f = "primaryCta" => item.props["actions"] = Plain
    /\ f = "layout" /\ v = "split" => item.type = "hero"
    /\ Stroke(f, [item.props EXCEPT ![f] = v])

\* updatePart with a value or without, and resetResponsivePart.
SetOverrides(d, parts) ==
    /\ d \in Devices \cap DOMAIN item.props
    /\ LET before == Overrides[item.props[d]]
       IN  /\ \/ \E part \in Appearance(item.type) :
                   parts \in {before \cup {part}, before \ {part}}
              \/ parts = {}
           /\ parts # before
    /\ Stroke(d, [item.props EXCEPT ![d] =
                    CHOOSE v \in DOMAIN Overrides : Overrides[v] = parts])

\* Mutated: the slot is enabled empty.
ButtonLeftBehind(p) == [p EXCEPT !["primaryCta"] = Plain, !["actions"] = "empty"]

\* The button of the block becomes a child, in one change.
ButtonMoved(p) ==
    [p EXCEPT !["primaryCta"] = Plain,
              !["actions"] = IF p["primaryCta"] = Plain THEN "empty" ELSE "chosen"]

EnableActions ==
    /\ item.type = "hero" /\ blockContext.v2 /\ item.props["actions"] = Plain
    /\ Stroke("actions", ButtonMoved(item.props))

\* A duplicate is an instance that the context does not know.
DuplicateBlock ==
    /\ item.type # "page" /\ "duplicate" \notin touched
    /\ strokes < MaxStrokes /\ strokes' = strokes + 1
    /\ blockContext' = NewMetadata(blockContext.v2)
    /\ touched' = touched \cup {"duplicate"}
    /\ UNCHANGED <<item, stored>>

\* activateStructureEditing.
ActivateStructure ==
    /\ ~blockContext.v2
    /\ blockContext' = [blockContext EXCEPT !.v2 = TRUE]
    /\ UNCHANGED <<item, stored, touched, strokes>>

SaveAndReopen ==
    LET c == Canonical(item.type, item.props, blockContext)
    IN  /\ touched # {}
        /\ stored' = c
        /\ item' = [item EXCEPT !.props = ToPuck(item.type, c)]
        /\ blockContext' = Metadata(item.type, c, blockContext.v2)
        /\ touched' = {}
        /\ UNCHANGED strokes

BlockCodecNext ==
    \/ \E f \in DOMAIN item.props : \E v \in ValuesOf(f) : EditField(f, v)
    \/ \E d \in Devices, parts \in SUBSET Common : SetOverrides(d, parts)
    \/ EnableActions \/ DuplicateBlock \/ ActivateStructure \/ SaveAndReopen

BlockCodecSpec == BlockCodecInit /\ [][BlockCodecNext]_codecVars
-----------------------------------------------------------------------------
(* Properties *)

\* Every variable keeps its type, and what is or would be stored is what the schema
\* takes.
BlockCodecTypeOK ==
    LET t == item.type
    IN  /\ t \in BlockTypes /\ DOMAIN item.props = EditorFields[t]
        /\ \A f \in EditorFields[t] : item.props[f] \in ValuesOf(f)
        /\ touched \subseteq EditorFields[t] \cup {"duplicate"}
        /\ strokes \in 0 .. MaxStrokes
        /\ WellFormed(t, stored, blockContext.v2)
        /\ WellFormed(t, Canonical(t, item.props, blockContext), blockContext.v2)

\* Only the position of a split picture shows, and the button is the block's own or
\* that of the slot.
ButtonShown(p) ==
    IF p["actions"] = Plain THEN p["primaryCta"]
    ELSE IF p["actions"] = "empty" THEN Plain ELSE p["actions"]

LookOf(p) ==
    [f \in DOMAIN p |->
        CASE f = "mediaPosition" /\ p["layout"] # "split" -> Plain
          [] f = "primaryCta" -> ButtonShown(p)
          [] OTHER -> p[f]]

Reopened == ToPuck(item.type, Canonical(item.type, item.props, blockContext))

CountIsDropped == "duplicate" \notin touched /\ "pageSize" \notin DOMAIN stored

\* A page that is saved and opened again looks as it did: no field is left out because
\* the block did not have it, or had it and it was cleared. The page count of a block
\* that was stored without one is the exception: the code drops it again.
ScreenSurvives ==
    LET before == LookOf(item.props)
        after  == LookOf(Reopened)
    IN  \A f \in DOMAIN before :
            ~(f = "pageSize" /\ CountIsDropped) => after[f] = before[f]

\* A block that nobody touched is stored as it was opened, field by field, and also
\* when structure editing is turned on.
UntouchedIsKept ==
    touched = {} => Canonical(item.type, item.props, blockContext) = stored

\* A button that the block showed is shown by the slot that takes it over.
ComposedKeepsButton ==
    [][item.type = "hero" /\ item.props["actions"] = Plain /\ item'.props["actions"] # Plain
       => ButtonShown(item'.props) = ButtonShown(item.props)]_codecVars

\* What an override changes is seen on its device only; the other one does not inherit
\* it.
OneDeviceAtATime ==
    [][\A d, other \in Devices \cap DOMAIN item.props :
         d # other /\ item'.props[d] # item.props[d]
         => \A part \in Appearance(item.type) :
              Resolved(item'.props, other, part) = Resolved(item.props, other, part)]_codecVars
=============================================================================
