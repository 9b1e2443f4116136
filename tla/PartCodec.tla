------------------------------ MODULE PartCodec ------------------------------
(***************************************************************************)
(* What the editor of a Header and a Footer has on its canvas, and the     *)
(* documents it makes of it. A part written before there were settings for *)
(* devices opens with the ones it was shown with; until somebody changes   *)
(* them it is stored without. Whether a block had a field is looked up in  *)
(* the documents that were loaded or stored last, by the block's id, which *)
(* the canvas, its history and its presets need not have any more.         *)
(*                                                                         *)
(* Of the settings of a device one switches something on and one gives it  *)
(* a shape; density and alignment are like the second. Names, menus and    *)
(* texts are copied as they are and left out.                              *)
(***************************************************************************)
EXTENDS Naturals, Sequences

CONSTANTS MenuStyles,      \* of a header on small screens
          DefaultStyle,    \* drawer-right
          MaxPartStrokes   \* bound on the changes

ASSUME PartCodecAssumption ==
    /\ DefaultStyle \in MenuStyles /\ MenuStyles # {DefaultStyle}
    /\ MaxPartStrokes \in Nat \ {0}

VARIABLES partCanvas,   \* the blocks that Puck holds, and those of its history
          partSource,   \* the blocks of the documents loaded or stored last
          partStrokes   \* the changes so far

partVars == <<partCanvas, partSource, partStrokes>>
-----------------------------------------------------------------------------
HeaderTypes == {"announcement", "navigation"}
FooterTypes == {"simple", "columns"}
PartTypes == HeaderTypes \cup FooterTypes

\* A phone takes from the tablet what it has not of its own.
Screens == {"tablet", "mobile"}

PartSettings == {"switch", "shape"}

NoStyle == "none"

Shapes(type) ==
    CASE type = "navigation"  -> MenuStyles
      [] type \in FooterTypes -> {"one", "two", "four"}
      [] OTHER -> {}

SettingValues(type, setting) == IF setting = "switch" THEN {"on", "off"} ELSE Shapes(type)

\* The overrides of a part as the JSON text has them: the value of each setting that a
\* device has, and what comes in another order than in a document, of the settings of a
\* device or of the devices.
Settings(given, turned) == [given |-> given, turned |-> turned]

Kept(given, places) == [at \in DOMAIN given \cap places |-> given[at]]

NoOverrides == Settings([at \in {} |-> "none"], {})

\* What a part showed before it could be set.
Legacy(type, style) ==
    IF type = "announcement" THEN NoOverrides
    ELSE Settings([at \in Screens \X PartSettings |->
                       IF at[2] = "switch" THEN IF type = "navigation" THEN "off" ELSE "on"
                       ELSE IF type = "navigation" THEN style
                       ELSE IF at[1] = "tablet" THEN "two" ELSE "one"], {})

\* The settings of one device.
Of(overrides, screen) ==
    Settings(Kept(overrides.given, {screen} \X PartSettings), overrides.turned \cap {screen})

Has(overrides, screen) == \E at \in DOMAIN overrides.given : at[1] = screen

Other(screen) == IF screen = "tablet" THEN "mobile" ELSE "tablet"

\* The order in which a document has them.
InOrder(overrides) == [overrides EXCEPT !.turned = {}]

\* An item of the canvas. button "half": a label without a link or the reverse.
Part(id, type, style, button) ==
    [id |-> id, type |-> type, style |-> style, overrides |-> Legacy(type, style),
     controls |-> IF type = "navigation" THEN "all" ELSE "none", button |-> button]

\* Of a stored block one knows further which fields it has.
Block(part, had) ==
    [id |-> part.id, type |-> part.type, had |-> had, button |-> part.button,
     style |-> IF "style" \in had THEN part.style ELSE NoStyle,
     overrides |-> IF "responsive" \in had THEN InOrder(part.overrides) ELSE NoOverrides,
     controls |-> IF "controls" \in had THEN part.controls ELSE "none"]

\* Mutated: a part without settings for devices opens without any.
ToCanvasBare(b) ==
    LET style == IF b.type # "navigation" THEN NoStyle
                 ELSE IF "style" \in b.had THEN b.style ELSE DefaultStyle
    IN  [Part(b.id, b.type, style, b.button) EXCEPT !.overrides = b.overrides]

\* sitePartCanonicalToPuck.
ToCanvas(b) ==
    LET style == IF b.type # "navigation" THEN NoStyle
                 ELSE IF "style" \in b.had THEN b.style ELSE DefaultStyle
        fresh == Part(b.id, b.type, style, b.button)
    IN  [fresh EXCEPT
           !.overrides = IF "responsive" \in b.had THEN b.overrides ELSE @,
           !.controls = IF "controls" \in b.had THEN b.controls ELSE @]

\* What the source has of the block with the same id.
HadInSource(part, source) ==
    UNION {b.had : b \in {c \in source : c.id = part.id /\ c.type = part.type}}

\* Mutated: overrides that were cleared are not written.
WrittenOfPartIfAny(part, had) ==
    {f \in {"style", "responsive", "controls"} :
        CASE f = "style"      -> part.type = "navigation" /\ (f \in had \/ part.style # DefaultStyle)
          [] f = "responsive" -> part.overrides \notin {NoOverrides, Legacy(part.type, part.style)}
          [] OTHER -> part.type = "navigation" /\ (f \in had \/ part.controls # "all")}

\* A field is written when the source has it, or when leaving it out would say something
\* else.
WrittenOfPart(part, had) ==
    {f \in {"style", "responsive", "controls"} :
        CASE f = "style"      -> part.type = "navigation" /\ (f \in had \/ part.style # DefaultStyle)
          [] f = "responsive" -> /\ part.type # "announcement"
                                 /\ f \in had \/ part.overrides # Legacy(part.type, part.style)
          [] OTHER -> part.type = "navigation" /\ (f \in had \/ part.controls # "all")}

\* Half a button is none.
ToBlock(part, source) ==
    Block([part EXCEPT !.button = IF @ = "half" THEN "none" ELSE @],
          WrittenOfPart(part, HadInSource(part, source)))

\* sitePartSetPuckToCanonical.
ToDocuments(parts, source) == {ToBlock(part, source) : part \in parts}

\* assertUniqueSitePartBlocks.
Unique(parts) ==
    \A p, q \in parts : p # q =>
        /\ p.type # q.type
        /\ ~({p.type, q.type} \subseteq FooterTypes)

\* Mutated: each form of a footer counts for itself.
OccupiedByType(parts, type) == \E p \in parts : p.type = type

\* withSitePartPermissions.
Occupied(parts, type) ==
    \E p \in parts : p.type = type \/ {p.type, type} \subseteq FooterTypes

\* sitePartSetPresetToPuck: the ids of a preset are always the same.
Preset(name) ==
    CASE name = "business" ->
            {Part(1, "announcement", NoStyle, "none"), Part(1, "navigation", DefaultStyle, "whole"),
             Part(1, "columns", NoStyle, "none")}
      [] name = "minimal" ->
            {Part(2, "navigation", DefaultStyle, "none"), Part(2, "simple", NoStyle, "none")}
      [] OTHER ->
            {Part(3, "navigation", CHOOSE s \in MenuStyles : s # DefaultStyle, "none"),
             Part(3, "columns", NoStyle, "none")}
-----------------------------------------------------------------------------
\* Blocks as documents of several versions have them.
StoredHeader(style, overrides, controls, had) ==
    Block([Part(0, "navigation", style, "none") EXCEPT !.overrides = overrides, !.controls = controls], had)

StoredFooter(type, overrides, had) ==
    Block([Part(0, type, NoStyle, "none") EXCEPT !.overrides = overrides], had)

OldHeaderOverrides ==
    {Settings([at \in {<<"tablet", "switch">>} |-> "on"], {}), Legacy("navigation", DefaultStyle)}

OldFooterOverrides == {NoOverrides, Settings([at \in {<<"mobile", "shape">>} |-> "four"], {})}

StoredParts ==
    {StoredHeader(style, overrides, controls, had) :
       style \in MenuStyles, overrides \in OldHeaderOverrides, controls \in {"none", "all"},
       had \in SUBSET {"style", "responsive", "controls"}}
    \cup {StoredFooter(type, overrides, had) :
            type \in FooterTypes, overrides \in OldFooterOverrides, had \in SUBSET {"responsive"}}
    \cup {Block(Part(0, "announcement", NoStyle, "none"), {})}

PartOpened(blocks) ==
    /\ partSource = blocks
    /\ partCanvas = [past |-> <<{ToCanvas(b) : b \in blocks}>>, at |-> 1]
    /\ partStrokes = 0

PartCodecInit == \E blocks \in {{}} \cup {{b} : b \in StoredParts} : PartOpened(blocks)

Parts == partCanvas.past[partCanvas.at]

ChangeParts(parts) ==
    /\ partStrokes < MaxPartStrokes
    /\ partStrokes' = partStrokes + 1
    /\ partCanvas' = [past |-> Append(SubSeq(partCanvas.past, 1, partCanvas.at), parts),
                      at   |-> partCanvas.at + 1]
    /\ UNCHANGED partSource

ChangePart(part, changed) == changed # part /\ ChangeParts((Parts \ {part}) \cup {changed})

EditHeader(part) ==
    /\ part.type = "navigation"
    /\ \/ \E style \in MenuStyles : ChangePart(part, [part EXCEPT !.style = style])
       \/ \E button \in {"none", "half", "whole"} : ChangePart(part, [part EXCEPT !.button = button])

\* The slot of the header: one element, without which it may be inserted.
EditControls(part) ==
    /\ part.type = "navigation"
    /\ \E controls \in {"none", "all", "some"} :
           /\ part.controls = "none" => controls = "all"
           /\ ChangePart(part, [part EXCEPT !.controls = controls])

\* Mutated: the device gets the one setting only.
WithOverrideAlone(overrides, screen, setting, value) ==
    Settings([at \in (DOMAIN overrides.given \ ({screen} \X PartSettings)) \cup {<<screen, setting>>} |->
                IF at = <<screen, setting>> THEN value ELSE overrides.given[at]],
             overrides.turned \ {screen})

\* updateResponsiveValue: a new setting comes last in its device, a new device last.
WithOverride(overrides, screen, setting, value) ==
    LET given == DOMAIN overrides.given
        new == <<screen, setting>> \notin given
    IN  Settings([at \in given \cup {<<screen, setting>>} |->
                    IF at = <<screen, setting>> THEN value ELSE overrides.given[at]],
                 overrides.turned
                 \cup {s \in {screen} : new /\ setting = "switch" /\ Has(overrides, screen)}
                 \cup {s \in {"devices"} : /\ screen = "tablet" /\ ~Has(overrides, "tablet")
                                          /\ Has(overrides, "mobile")})

\* What was in another order is not when one of it is gone.
WithoutOverride(overrides, screen, setting) ==
    IF <<screen, setting>> \notin DOMAIN overrides.given THEN overrides
    ELSE LET given == DOMAIN overrides.given \ {<<screen, setting>>}
         IN  Settings(Kept(overrides.given, given),
                      overrides.turned \ ({screen} \cup
                        (IF given \cap ({screen} \X PartSettings) = {} THEN {"devices"} ELSE {})))

\* A setting of a device, or "inherit".
SetOverride(part, screen, setting) ==
    /\ part.type # "announcement"
    /\ \/ \E value \in SettingValues(part.type, setting) :
              ChangePart(part, [part EXCEPT !.overrides = WithOverride(@, screen, setting, value)])
       \/ ChangePart(part, [part EXCEPT !.overrides = WithoutOverride(@, screen, setting)])

\* resetResponsiveViewport.
ResetScreen(part, screen) ==
    ChangePart(part, [part EXCEPT !.overrides = Of(@, Other(screen))])

InsertPart(type) ==
    /\ ~Occupied(Parts, type)
    /\ ChangeParts(Parts \cup
         {Part(4 + partStrokes, type, IF type = "navigation" THEN DefaultStyle ELSE NoStyle,
               IF type = "navigation" THEN "whole" ELSE "none")})

DeletePart(part) == ChangeParts(Parts \ {part})

ApplyPreset(name) == ChangeParts(Preset(name))

\* Undo and redo.
Travel(at) ==
    /\ at \in {partCanvas.at - 1, partCanvas.at + 1} \cap DOMAIN partCanvas.past
    /\ partCanvas' = [partCanvas EXCEPT !.at = at]
    /\ UNCHANGED <<partSource, partStrokes>>

\* Puck keeps its canvas and its history.
StoreParts ==
    /\ Unique(Parts)
    /\ partSource' = ToDocuments(Parts, partSource)
    /\ UNCHANGED <<partCanvas, partStrokes>>

ReloadParts ==
    /\ partCanvas' = [past |-> <<{ToCanvas(b) : b \in partSource}>>, at |-> 1]
    /\ UNCHANGED <<partSource, partStrokes>>

PartCodecNext ==
    \/ \E part \in Parts :
           \/ EditHeader(part) \/ EditControls(part) \/ DeletePart(part)
           \/ \E screen \in Screens :
                  \/ ResetScreen(part, screen)
                  \/ \E setting \in PartSettings : SetOverride(part, screen, setting)
    \/ \E type \in PartTypes : InsertPart(type)
    \/ \E name \in {"business", "minimal", "community"} : ApplyPreset(name)
    \/ \E at \in DOMAIN partCanvas.past : Travel(at)
    \/ StoreParts \/ ReloadParts

PartCodecSpec == PartCodecInit /\ [][PartCodecNext]_partVars
-----------------------------------------------------------------------------
(* Properties *)

\* resolveHeaderPresentation and resolveFooterPresentation: a phone takes what the tablet
\* has, a tablet what the part has.
BaseOf(part, setting) ==
    IF setting = "switch" THEN "on"
    ELSE IF part.type = "navigation" THEN part.style ELSE "one"

Presented(part, screen, setting) ==
    LET given == part.overrides.given
    IN  IF <<screen, setting>> \in DOMAIN given THEN given[<<screen, setting>>]
        ELSE IF <<"tablet", setting>> \in DOMAIN given THEN given[<<"tablet", setting>>]
        ELSE BaseOf(part, setting)

Look(part) ==
    [id |-> part.id, type |-> part.type, style |-> part.style, controls |-> part.controls,
     button |-> IF part.button = "half" THEN "none" ELSE part.button,
     small |-> [at \in Screens \X PartSettings |-> Presented(part, at[1], at[2])]]

\* Every variable keeps its type, and a document has each kind of block once, with
\* controls in headers only.
PartCodecTypeOK ==
    /\ partStrokes \in 0 .. MaxPartStrokes
    /\ partCanvas.at \in DOMAIN partCanvas.past
    /\ Unique(partSource)
    /\ \A b \in partSource :
           /\ b.type \in PartTypes /\ b.button \in {"none", "whole"}
           /\ b.had \subseteq (IF b.type = "navigation" THEN {"style", "responsive", "controls"}
                               ELSE IF b.type \in FooterTypes THEN {"responsive"} ELSE {})
           /\ DOMAIN b.overrides.given \subseteq Screens \X PartSettings
           /\ \A at \in DOMAIN b.overrides.given :
                  b.overrides.given[at] \in SettingValues(b.type, at[2])
           /\ b.overrides.turned = {}

\* Whatever is inserted, applied and taken back, the canvas can be stored.
CanvasCanBeStored == Unique(Parts)

\* What the canvas shows is shown after it is stored and loaded again, on every device,
\* whether or not the source still knows the block.
PartsSurvive ==
    LET again == {ToCanvas(b) : b \in ToDocuments(Parts, partSource)}
    IN  {Look(p) : p \in Parts} = {Look(p) : p \in again}

\* A document that is opened and stored is as it was: no field is added or dropped.
OpenedIsStoredAsItWas ==
    ToDocuments({ToCanvas(b) : b \in partSource}, partSource) = partSource

\* To give a device a setting changes that setting there, and on the phone if it has none
\* of its own; no other setting of the part and no other screen.
SettingsAreAimed ==
    [][\A part \in Parts, screen \in Screens, setting \in PartSettings :
         SetOverride(part, screen, setting) =>
            \A changed \in (Parts)' : changed.id = part.id /\ changed.type = part.type =>
              \A s \in Screens, other \in PartSettings :
                 Presented(changed, s, other) # Presented(part, s, other)
                 => /\ other = setting
                    /\ s = screen \/ (screen = "tablet" /\ <<s, setting>> \notin DOMAIN part.overrides.given)
       ]_partVars
=============================================================================
