-------------------------- MODULE WorkbenchProofs ---------------------------
(***************************************************************************)
(* The tools of MCWorkbench keep what they promise. The codecs of blocks   *)
(* and of site parts, the picker of routes, the installation of site kits  *)
(* and the manager of block packs have an invariant each, as the tools of  *)
(* the canvas have in CanvasToolsProofs; the last section puts them        *)
(* together, since a step of the workbench is a step of one tool.          *)
(***************************************************************************)
EXTENDS MCWorkbench, CanvasToolsProofs
-----------------------------------------------------------------------------
(***************************************************************************)
(* The editor of a block. Storing keeps a field that was there, one that   *)
(* was touched, and one whose value is not plain; hence what is opened     *)
(* again looks as it did.                                                  *)
(***************************************************************************)

\* The fields that some block has.
AllFields == {"surface", "container", "motion", "visibility", "tablet", "mobile", "layout",
              "mediaPosition", "primaryCta", "extra", "actions", "pageSize", "slider", "media",
              "content", "tokens", "shell_mode"}

\* The props that Puck holds of a block: every field, with one of its values.
PropsTyped(t, p) ==
    /\ p = [f \in EditorFields[t] |-> p[f]]
    /\ \A f \in EditorFields[t] : p[f] \in ValuesOf(f)

\* Children are of v2 only, a split picture is of a hero, and a button is the block's or

\* that of its slot.
PropsRight(t, p, v2) ==
    /\ PropsTyped(t, p)
    /\ t = "section" => v2
    /\ \A f \in EditorFields[t] \cap Children : p[f] # Plain => v2
    /\ "layout" \in EditorFields[t] /\ t # "hero" => p["layout"] # "split"
    /\ t = "hero" => p["primaryCta"] = Plain \/ p["actions"] = Plain

\* A block of a stored document.
StoredTyped(t, c) ==
    /\ c = [f \in DOMAIN c |-> c[f]]
    /\ DOMAIN c \subseteq EditorFields[t] \cup {"slots"}
    /\ \A f \in DOMAIN c : f # "slots" => c[f] \in ValuesOf(f)
    /\ "slots" \in DOMAIN c => c["slots"] = Plain

\* A stored block has fields of its type, and what its version requires.
StoredRight(t, c, v2) == StoredTyped(t, c) /\ WellFormed(t, c, v2)

\* What is known of the fields that the block had.
HadRight(t, m) ==
    /\ m.had \cap Children # {} => m.v2
    /\ "layout" \in EditorFields[t] /\ "layout" \notin m.had => m.initialLayout = Plain

\* What the metadata of a duplicate says it had.
DuplicateHad == {"slots", "layout", "pageSize"}

\* The inductive invariant of the editor of a block.
CodecInv ==
    /\ item.type \in BlockTypes /\ item = [type |-> item.type, props |-> item.props]
    /\ blockContext = [had |-> blockContext.had, v2 |-> blockContext.v2,
                       initialLayout |-> blockContext.initialLayout]
    /\ blockContext.v2 \in BOOLEAN
    /\ PropsRight(item.type, item.props, blockContext.v2)
    /\ StoredRight(item.type, stored, blockContext.v2)
    /\ HadRight(item.type, blockContext)
    /\ touched \subseteq EditorFields[item.type] \cup {"duplicate"}
    /\ strokes \in 0 .. MaxStrokes
    /\ "duplicate" \in touched => blockContext.had = DuplicateHad
    /\ "duplicate" \notin touched =>
          /\ blockContext.had = DOMAIN stored
          /\ "layout" \in EditorFields[item.type] =>
                blockContext.initialLayout = ToPuck(item.type, stored)["layout"]
    /\ touched = {} => item.props = ToPuck(item.type, stored)

\* Which types have which fields.
LEMMA FieldsAre ==
    ASSUME NEW t \in DOMAIN EditorFields
    PROVE  /\ EditorFields[t] \subseteq AllFields
           /\ "content" \in EditorFields[t] <=> t = "section"
           /\ "layout" \in EditorFields[t] <=> t \in {"hero", "features"}
           /\ "mediaPosition" \in EditorFields[t] <=> t = "hero"
           /\ "primaryCta" \in EditorFields[t] <=> t = "hero"
           /\ "actions" \in EditorFields[t] <=> t = "hero"
           /\ "extra" \in EditorFields[t] <=> t = "hero"
           /\ "media" \in EditorFields[t] <=> t = "card"
           /\ "pageSize" \in EditorFields[t] <=> t = "listing"
<1>1. t \in {"hero", "features", "listing", "slider", "card", "section", "page"}
  BY DEF EditorFields
<1>2. CASE t = "hero"
  BY <1>2 DEF EditorFields, HeroFields, AllFields
<1>3. CASE t = "features"
  BY <1>3 DEF EditorFields, FeaturesFields, AllFields
<1>4. CASE t = "listing"
  BY <1>4 DEF EditorFields, ListingFields, AllFields
<1>5. CASE t = "slider"
  BY <1>5 DEF EditorFields, SliderFields, AllFields
<1>6. CASE t = "card"
  BY <1>6 DEF EditorFields, CardFields, AllFields
<1>7. CASE t = "section"
  BY <1>7 DEF EditorFields, SectionFields, AllFields
<1>8. CASE t = "page"
  BY <1>8 DEF EditorFields, PageFields, AllFields
<1>9. QED
  BY <1>1, <1>2, <1>3, <1>4, <1>5, <1>6, <1>7, <1>8

\* Slots are no field of an editor.
LEMMA NoSlotField ==
    ASSUME NEW t \in DOMAIN EditorFields
    PROVE  "slots" \notin EditorFields[t] /\ "duplicate" \notin EditorFields[t]
BY FieldsAre DEF AllFields

\* Each block has an editor.
LEMMA BlocksAreKnown == \A t \in BlockTypes : t \in DOMAIN EditorFields
BY BlockCodecAssumption

\* Which fields a document gets, field by field.
LEMMA WrittenIs ==
    ASSUME NEW t \in DOMAIN EditorFields, NEW p, NEW m, NEW f \in EditorFields[t]
    PROVE  /\ f = "content" => f \in WrittenFields(t, p, m)
           /\ f \in Common => (f \in WrittenFields(t, p, m) <=> AppearanceIsWritten(p, m))
           /\ f = "layout" => (f \in WrittenFields(t, p, m) <=> LayoutIsWritten(t, p, m))
           /\ f = "mediaPosition" => (f \in WrittenFields(t, p, m) <=> p["layout"] = "split")
           /\ f = "primaryCta" => (f \in WrittenFields(t, p, m) <=> ButtonIsWritten(p))
           /\ f = "pageSize" => (f \in WrittenFields(t, p, m) <=> "pageSize" \in m.had)
           /\ f \notin Common \cup {"content", "layout", "mediaPosition", "primaryCta", "pageSize"}
              => (f \in WrittenFields(t, p, m) <=> p[f] # Plain \/ f \in KeptIfThere \cap m.had)
<1>1. f \in WrittenFields(t, p, m) <=>
        CASE f \in Required(t)     -> TRUE
          [] f \in Appearance(t)   -> AppearanceIsWritten(p, m)
          [] f = "layout"          -> LayoutIsWritten(t, p, m)
          [] f = "mediaPosition"   -> p["layout"] = "split"
          [] f = "primaryCta"      -> ButtonIsWritten(p)
          [] f = "pageSize"        -> "pageSize" \in m.had
          [] OTHER                 -> \/ p[f] # Plain
                                      \/ f \in KeptIfThere \cap m.had
  BY Zenon DEF WrittenFields
<1>2. f \in Required(t) <=> f = "content"
  BY DEF Required
<1>3. f \in Appearance(t) <=> f \in Common
  BY DEF Appearance
<1>4. Common = {"surface", "container"}
  BY DEF Common
<1>5. CASE f = "content"
  BY <1>1, <1>2, <1>3, <1>4, <1>5
<1>6. CASE f \in Common
  BY <1>1, <1>2, <1>3, <1>4, <1>6
<1>7. CASE f = "layout"
  BY <1>1, <1>2, <1>3, <1>4, <1>7
<1>8. CASE f = "mediaPosition"
  BY <1>1, <1>2, <1>3, <1>4, <1>8
<1>9. CASE f = "primaryCta"
  BY <1>1, <1>2, <1>3, <1>4, <1>9
<1>10. CASE f = "pageSize"
  BY <1>1, <1>2, <1>3, <1>4, <1>10
<1>11. CASE f \notin Common \cup {"content", "layout", "mediaPosition", "primaryCta", "pageSize"}
  BY <1>1, <1>2, <1>3, <1>4, <1>11
<1>12. QED
  BY <1>5, <1>6, <1>7, <1>8, <1>9, <1>10, <1>11

\* A field on the canvas: what is stored, or the plain value.
LEMMA ToPuckIs ==
    ASSUME NEW t, NEW c, NEW f \in EditorFields[t]
    PROVE  ToPuck(t, c)[f] = IF f \in DOMAIN c THEN c[f] ELSE Plain
BY DEF ToPuck

\* The values of the fields.
LEMMA PlainIsValue ==
    ASSUME NEW f
    PROVE  /\ Plain \in ValuesOf(f)
           /\ f \notin Devices \cup {"layout", "actions"} => ValuesOf(f) = {Plain, "chosen"}
           /\ f \in Devices => ValuesOf(f) = DOMAIN Overrides
           /\ ValuesOf("layout") = {Plain, "chosen", "split"}
           /\ ValuesOf("actions") = {Plain, "empty", "chosen"}
BY DEF Devices, Overrides, Plain, ValuesOf

\* What is opened of a stored block.
LEMMA OpenedIsRight ==
    ASSUME NEW t \in DOMAIN EditorFields, NEW c, NEW v2 \in BOOLEAN, StoredRight(t, c, v2)
    PROVE  PropsRight(t, ToPuck(t, c), v2)
<1>1. PICK p : p = ToPuck(t, c)
  OBVIOUS
<1>2. p = [f \in EditorFields[t] |-> p[f]]
  BY <1>1 DEF ToPuck
<1>3. \A f \in EditorFields[t] : p[f] = IF f \in DOMAIN c THEN c[f] ELSE Plain
  BY <1>1, ToPuckIs
<1>4. \A f \in EditorFields[t] : f \in DOMAIN c => c[f] \in ValuesOf(f)
  BY NoSlotField DEF StoredRight, StoredTyped
<1>5. PropsTyped(t, p)
  BY <1>2, <1>3, <1>4, PlainIsValue DEF PropsTyped
<1>6. WellFormed(t, c, v2)
  BY DEF StoredRight
<1>7. t = "section" => v2
  BY <1>6 DEF WellFormed
<1>8. \A f \in EditorFields[t] \cap Children : p[f] # Plain => v2
  BY <1>3, <1>6 DEF WellFormed
<1>9. "layout" \in EditorFields[t] /\ t # "hero" => p["layout"] # "split"
  BY <1>3, <1>6 DEF WellFormed, Plain
<1>10. t = "hero" => p["primaryCta"] = Plain \/ p["actions"] = Plain
  BY <1>3, <1>6, FieldsAre DEF WellFormed
<1>11. QED
  BY <1>1, <1>5, <1>7, <1>8, <1>9, <1>10 DEF PropsRight

\* What is remembered of a block that is opened.
LEMMA MetadataIsRight ==
    ASSUME NEW t \in DOMAIN EditorFields, NEW c, NEW v2 \in BOOLEAN, StoredRight(t, c, v2),
           NEW m, m = Metadata(t, c, v2)
    PROVE  /\ m = [had |-> m.had, v2 |-> m.v2, initialLayout |-> m.initialLayout]
           /\ m.had = DOMAIN c /\ m.v2 = v2 /\ HadRight(t, m)
           /\ "layout" \in EditorFields[t] => m.initialLayout = ToPuck(t, c)["layout"]
BY ToPuckIs DEF Metadata, StoredRight, WellFormed, HadRight

\* What is stored: the fields that are to be written, as the screen has them.
LEMMA CanonicalIs ==
    ASSUME NEW t \in DOMAIN EditorFields, NEW p, NEW m, PropsTyped(t, p),
           NEW c, c = Canonical(t, p, m)
    PROVE  /\ c = [f \in DOMAIN c |-> c[f]]
           /\ DOMAIN c \subseteq EditorFields[t] \cup {"slots"}
           /\ \A f \in EditorFields[t] : f \in DOMAIN c <=> f \in WrittenFields(t, p, m)
           /\ \A f \in EditorFields[t] : f \in DOMAIN c => c[f] = p[f]
           /\ "slots" \in DOMAIN c <=> SlotsAreWritten(t, p, m)
           /\ "slots" \in DOMAIN c => c["slots"] = Plain
<1>1. PICK written : written = WrittenFields(t, p, m)
  OBVIOUS
<1>2. written \subseteq EditorFields[t]
  BY <1>1, Zenon DEF WrittenFields
<1>3. PICK there : there = written \cup (IF SlotsAreWritten(t, p, m) THEN {"slots"} ELSE {})
  OBVIOUS
<1>4. c = [f \in there |-> IF f \in DOMAIN p THEN p[f] ELSE Plain]
  BY <1>1, <1>3, Zenon DEF Canonical
<1>5. DOMAIN p = EditorFields[t]
  BY DEF PropsTyped
<1>6. DOMAIN c = there /\ c = [f \in DOMAIN c |-> c[f]]
  BY <1>4
<1>7. "slots" \notin EditorFields[t]
  BY NoSlotField
<1>8. \A f \in EditorFields[t] : f \in there <=> f \in written
  BY <1>3, <1>7
<1>9. "slots" \in there <=> SlotsAreWritten(t, p, m)
  BY <1>2, <1>3, <1>7
<1>10. there \subseteq EditorFields[t] \cup {"slots"}
  BY <1>2, <1>3
<1>11. \A f \in EditorFields[t] : f \in there => c[f] = p[f]
  BY <1>4, <1>5
<1>12. "slots" \in there => c["slots"] = Plain
  BY <1>4, <1>5, <1>7
<1>13. QED
  BY <1>1, <1>6, <1>8, <1>9, <1>10, <1>11, <1>12

\* The fields of the fallback's own kind.
LEMMA WrittenOthers ==
    ASSUME NEW t \in DOMAIN EditorFields, NEW p, NEW m, NEW f \in EditorFields[t]
    PROVE  /\ f \in Devices \cup {"actions"} =>
                (f \in WrittenFields(t, p, m) <=> p[f] # Plain)
           /\ f \in {"extra", "media"} =>
                (f \in WrittenFields(t, p, m) <=> p[f] # Plain \/ f \in m.had)
BY WrittenIs DEF Devices, Common, KeptIfThere

\* A layout that shows something is stored.
LEMMA LayoutIsKept ==
    ASSUME NEW t \in DOMAIN EditorFields, NEW p, NEW m, HadRight(t, m),
           "layout" \in EditorFields[t]
    PROVE  /\ "layout" \in WrittenFields(t, p, m) <=> LayoutIsWritten(t, p, m)
           /\ "layout" \notin WrittenFields(t, p, m) => p["layout"] = Plain
BY WrittenIs DEF LayoutIsWritten, HadRight

\* What would be stored is what the schema takes.
LEMMA CanonicalIsRight ==
    ASSUME NEW t \in DOMAIN EditorFields, NEW p, NEW m, NEW v2 \in BOOLEAN, m.v2 = v2,
           PropsRight(t, p, v2), HadRight(t, m), NEW c, c = Canonical(t, p, m)
    PROVE  StoredRight(t, c, v2)
<1>1. PropsTyped(t, p)
  BY DEF PropsRight
<1>2. /\ c = [f \in DOMAIN c |-> c[f]]
      /\ DOMAIN c \subseteq EditorFields[t] \cup {"slots"}
      /\ \A f \in EditorFields[t] : f \in DOMAIN c <=> f \in WrittenFields(t, p, m)
      /\ \A f \in EditorFields[t] : f \in DOMAIN c => c[f] = p[f]
      /\ "slots" \in DOMAIN c <=> SlotsAreWritten(t, p, m)
      /\ "slots" \in DOMAIN c => c["slots"] = Plain
  BY <1>1, CanonicalIs
<1>3. \A f \in DOMAIN c : f # "slots" => c[f] \in ValuesOf(f)
  BY <1>2, <1>1 DEF PropsTyped
<1>4. StoredTyped(t, c)
  BY <1>2, <1>3 DEF StoredTyped
<1>5. Required(t) \subseteq DOMAIN c
  BY <1>2, WrittenIs DEF Required
<1>6. Appearance(t) \cap DOMAIN c \in {{}, Appearance(t)}
  <2>1. \A f \in Appearance(t) : f \in EditorFields[t] /\ f \in Common
    BY DEF Appearance
  <2>2. \A f \in Appearance(t) : f \in DOMAIN c <=> AppearanceIsWritten(p, m)
    BY <1>2, <2>1, WrittenIs
  <2>3. CASE AppearanceIsWritten(p, m)
    BY <2>2, <2>3
  <2>4. CASE ~AppearanceIsWritten(p, m)
    BY <2>2, <2>4
  <2>5. QED
    BY <2>3, <2>4
<1>7. "slots" \notin Children /\ Children = {"extra", "actions", "media", "content"}
  BY DEF Children
<1>8. DOMAIN c \cap Children # {} => "slots" \in DOMAIN c /\ v2
  <2> SUFFICES ASSUME NEW f \in DOMAIN c \cap Children PROVE "slots" \in DOMAIN c /\ v2
    OBVIOUS
  <2>1. f \in EditorFields[t] /\ f \in WrittenFields(t, p, m)
    BY <1>2, <1>7
  <2>2. SlotsAreWritten(t, p, m)
    BY <2>1 DEF SlotsAreWritten
  <2>3. v2
    <3>1. CASE f = "content"
      BY <2>1, <3>1, FieldsAre DEF PropsRight
    <3>2. CASE f = "actions"
      BY <2>1, <3>2, WrittenOthers DEF PropsRight
    <3>3. CASE f \in {"extra", "media"}
      BY <2>1, <3>3, WrittenOthers DEF PropsRight, HadRight
    <3>4. QED
      BY <1>7, <3>1, <3>2, <3>3
  <2>4. QED
    BY <1>2, <2>2, <2>3
<1>9. t = "section" => v2
  BY DEF PropsRight
<1>10. \A f \in DOMAIN c : f \in Devices \cup {"primaryCta", "actions"} => c[f] # Plain
  BY <1>2, WrittenIs, WrittenOthers DEF Devices, ButtonIsWritten
<1>11. ASSUME t = "hero"
       PROVE  /\ "layout" \in DOMAIN c => c["layout"] # Plain
              /\ "mediaPosition" \in DOMAIN c <=> ("layout" \in DOMAIN c /\ c["layout"] = "split")
              /\ ~({"primaryCta", "actions"} \subseteq DOMAIN c)
  <2>1. {"layout", "mediaPosition", "primaryCta", "actions"} \subseteq EditorFields[t]
    BY <1>11, FieldsAre
  <2>2. "layout" \in DOMAIN c => LayoutIsWritten(t, p, m) /\ c["layout"] = p["layout"]
    BY <1>2, <2>1, LayoutIsKept
  <2>3. "layout" \in DOMAIN c => c["layout"] # Plain
    BY <1>11, <2>2 DEF LayoutIsWritten
  <2>4. "mediaPosition" \in DOMAIN c <=> p["layout"] = "split"
    BY <1>2, <2>1, WrittenIs
  <2>5. "layout" \notin DOMAIN c => p["layout"] = Plain
    BY <1>2, <2>1, LayoutIsKept
  <2>6. "split" # Plain
    BY DEF Plain
  <2>7. ~({"primaryCta", "actions"} \subseteq DOMAIN c)
    <3>1. "primaryCta" \in DOMAIN c => ButtonIsWritten(p)
      BY <1>2, <2>1, WrittenIs
    <3>2. "actions" \in DOMAIN c => p["actions"] # Plain
      BY <2>1, <1>2, WrittenOthers
    <3>3. QED
      BY <3>1, <3>2 DEF ButtonIsWritten
  <2>8. QED
    BY <2>2, <2>3, <2>4, <2>5, <2>6, <2>7
<1>12. t # "hero" /\ "layout" \in DOMAIN c => c["layout"] # "split"
  BY <1>2 DEF PropsRight
<1>13. WellFormed(t, c, v2)
  BY <1>5, <1>6, <1>8, <1>9, <1>10, <1>11, <1>12 DEF WellFormed
<1>14. QED
  BY <1>4, <1>13 DEF StoredRight

\* A block that was opened is stored as it was.
LEMMA OpenedIsStored ==
    ASSUME NEW t \in DOMAIN EditorFields, NEW c, NEW v2 \in BOOLEAN, StoredRight(t, c, v2),
           NEW p, p = ToPuck(t, c), NEW m, m.had = DOMAIN c,
           "layout" \in EditorFields[t] => m.initialLayout = p["layout"]
    PROVE  Canonical(t, p, m) = c
<1>1. PropsRight(t, p, v2)
  BY OpenedIsRight
<1>2. \A f \in EditorFields[t] : p[f] = IF f \in DOMAIN c THEN c[f] ELSE Plain
  BY ToPuckIs
<1>3. StoredTyped(t, c) /\ WellFormed(t, c, v2)
  BY DEF StoredRight
<1>4. PICK d : d = Canonical(t, p, m)
  OBVIOUS
<1>5. /\ d = [f \in DOMAIN d |-> d[f]]
      /\ DOMAIN d \subseteq EditorFields[t] \cup {"slots"}
      /\ \A f \in EditorFields[t] : f \in DOMAIN d <=> f \in WrittenFields(t, p, m)
      /\ \A f \in EditorFields[t] : f \in DOMAIN d => d[f] = p[f]
      /\ "slots" \in DOMAIN d <=> SlotsAreWritten(t, p, m)
      /\ "slots" \in DOMAIN d => d["slots"] = Plain
  BY <1>1, <1>4, CanonicalIs DEF PropsRight
<1>6. ASSUME NEW f \in EditorFields[t] PROVE f \in WrittenFields(t, p, m) <=> f \in DOMAIN c
  <2>1. CASE f = "content"
    BY <1>3, <2>1, WrittenIs DEF WellFormed, Required
  <2>2. CASE f \in Common
    <3>1. f \in WrittenFields(t, p, m) <=> AppearanceIsWritten(p, m)
      BY <2>2, WrittenIs
    <3>2. \A g \in Common \cap EditorFields[t] : g \in DOMAIN c <=> f \in DOMAIN c
      BY <1>3, <2>2 DEF WellFormed, Appearance
    <3>3. DOMAIN p = EditorFields[t]
      BY <1>1 DEF PropsRight, PropsTyped
    <3>4. AppearanceIsWritten(p, m) <=> f \in DOMAIN c
      BY <2>2, <3>3, <1>2, <3>2 DEF AppearanceIsWritten
    <3>5. QED
      BY <3>1, <3>4
  <2>3. CASE f = "layout"
    BY <2>3, <1>2, <1>3, WrittenIs DEF LayoutIsWritten, WellFormed
  <2>4. CASE f = "mediaPosition"
    BY <2>4, <1>3, <1>2, FieldsAre, WrittenIs DEF WellFormed, Plain
  <2>5. CASE f = "primaryCta"
    BY <2>5, <1>3, <1>2, FieldsAre, WrittenIs DEF ButtonIsWritten, WellFormed
  <2>6. CASE f = "pageSize"
    BY <2>6, WrittenIs
  <2>7. CASE f \notin Common \cup {"content", "layout", "mediaPosition", "primaryCta", "pageSize"}
    BY <2>7, <1>3, <1>2, WrittenIs, FieldsAre DEF AllFields, Devices, KeptIfThere, Common,
       WellFormed
  <2>8. QED
    BY <2>1, <2>2, <2>3, <2>4, <2>5, <2>6, <2>7
<1>7. SlotsAreWritten(t, p, m) <=> "slots" \in DOMAIN c
  <2>1. WrittenFields(t, p, m) \subseteq EditorFields[t]
    BY Zenon DEF WrittenFields
  <2>2. DOMAIN c \cap Children # {} => "slots" \in DOMAIN c
    BY <1>3 DEF WellFormed
  <2>3. WrittenFields(t, p, m) \cap Children # {} => "slots" \in DOMAIN c
    BY <1>6, <2>1, <2>2
  <2>4. QED
    BY <2>3 DEF SlotsAreWritten
<1>8. DOMAIN d = DOMAIN c
  BY <1>3, <1>5, <1>6, <1>7 DEF StoredTyped
<1>9. \A f \in DOMAIN d : d[f] = c[f]
  BY <1>3, <1>5, <1>8, <1>2 DEF StoredTyped
<1>10. c = [f \in DOMAIN c |-> c[f]]
  BY <1>3 DEF StoredTyped
<1>11. d = c
  BY <1>5, <1>8, <1>9, <1>10
<1>12. QED
  BY <1>4, <1>11

\* What the invariant says, in fields.
LEMMA CodecFields ==
    ASSUME CodecInv
    PROVE  /\ item.type \in DOMAIN EditorFields /\ blockContext.v2 \in BOOLEAN
           /\ PropsRight(item.type, item.props, blockContext.v2)
           /\ PropsTyped(item.type, item.props) /\ DOMAIN item.props = EditorFields[item.type]
           /\ StoredRight(item.type, stored, blockContext.v2) /\ HadRight(item.type, blockContext)
           /\ strokes \in 0 .. MaxStrokes
BY BlocksAreKnown DEF CodecInv, PropsRight, PropsTyped

\* A page that is saved and opened again, field by field.
LEMMA ReopenedIs ==
    ASSUME CodecInv, NEW f \in EditorFields[item.type]
    PROVE  Reopened[f] = IF f \in WrittenFields(item.type, item.props, blockContext)
                         THEN item.props[f] ELSE Plain
BY CodecFields, CanonicalIs, ToPuckIs DEF Reopened

\* What a screen shows of each field.
LEMMA LookIs ==
    ASSUME NEW p, NEW f \in DOMAIN p
    PROVE  /\ f = "primaryCta" => LookOf(p)[f] = ButtonShown(p)
           /\ f = "mediaPosition" => LookOf(p)[f] = IF p["layout"] # "split" THEN Plain ELSE p[f]
           /\ f \notin {"primaryCta", "mediaPosition"} => LookOf(p)[f] = p[f]
<1>1. LookOf(p)[f] = CASE f = "mediaPosition" /\ p["layout"] # "split" -> Plain
                       [] f = "primaryCta" -> ButtonShown(p)
                       [] OTHER -> p[f]
  BY Zenon DEF LookOf
<1>2. CASE f = "primaryCta"
  BY <1>1, <1>2
<1>3. CASE f = "mediaPosition"
  BY <1>1, <1>3
<1>4. CASE f \notin {"primaryCta", "mediaPosition"}
  BY <1>1, <1>4
<1>5. QED
  BY <1>2, <1>3, <1>4

\* What is stored and opened again shows what the screen showed.
LEMMA ScreenIsKept == CodecInv => ScreenSurvives
<1> SUFFICES ASSUME CodecInv PROVE ScreenSurvives
  OBVIOUS
<1> DEFINE t == item.type
           p == item.props
           m == blockContext
           after == Reopened
<1>1. /\ t \in DOMAIN EditorFields /\ PropsRight(t, p, m.v2) /\ DOMAIN p = EditorFields[t]
      /\ HadRight(t, m)
  BY CodecFields
<1>2. DOMAIN after = EditorFields[t]
  BY DEF Reopened, ToPuck
<1>3. DOMAIN LookOf(p) = EditorFields[t]
  BY <1>1 DEF LookOf
<1>4. SUFFICES ASSUME NEW f \in EditorFields[t], ~(f = "pageSize" /\ CountIsDropped)
               PROVE  LookOf(after)[f] = LookOf(p)[f]
  BY <1>3, Zenon DEF ScreenSurvives
<1>5. \A g \in EditorFields[t] :
         after[g] = IF g \in WrittenFields(t, p, m) THEN p[g] ELSE Plain
  BY ReopenedIs
<1>6. /\ f = "primaryCta" => LookOf(p)[f] = ButtonShown(p)
      /\ f = "mediaPosition" => LookOf(p)[f] = IF p["layout"] # "split" THEN Plain ELSE p[f]
      /\ f \notin {"primaryCta", "mediaPosition"} => LookOf(p)[f] = p[f]
  BY <1>1, LookIs
<1>7. /\ f = "primaryCta" => LookOf(after)[f] = ButtonShown(after)
      /\ f = "mediaPosition" => LookOf(after)[f] = IF after["layout"] # "split" THEN Plain ELSE after[f]
      /\ f \notin {"primaryCta", "mediaPosition"} => LookOf(after)[f] = after[f]
  BY <1>2, LookIs
<1>8. "layout" \in EditorFields[t] => after["layout"] = p["layout"]
  BY <1>1, <1>5, LayoutIsKept
<1> HIDE DEF t, p, m, after
<1>9. CASE f = "content"
  BY <1>1, <1>5, <1>6, <1>7, <1>9, WrittenIs
<1>10. CASE f \in Common
  BY <1>1, <1>10, <1>5, <1>6, <1>7, WrittenIs DEF AppearanceIsWritten, Common
<1>11. CASE f = "layout"
  BY <1>6, <1>7, <1>8, <1>11
<1>12. CASE f = "mediaPosition"
  BY <1>1, <1>12, <1>5, <1>6, <1>7, <1>8, FieldsAre, WrittenIs
<1>13. CASE f = "primaryCta"
  <2>1. t = "hero" /\ "actions" \in EditorFields[t]
    BY <1>1, <1>13, FieldsAre
  <2>2. "actions" \in WrittenFields(t, p, m) <=> p["actions"] # Plain
    BY <1>1, <2>1, WrittenOthers
  <2>3. after["actions"] = p["actions"]
    BY <1>5, <2>1, <2>2
  <2>4. f \in WrittenFields(t, p, m) <=> p["primaryCta"] # Plain /\ p["actions"] = Plain
    BY <1>1, <1>13, WrittenIs DEF ButtonIsWritten
  <2>5. p["actions"] = Plain => after["primaryCta"] = p["primaryCta"]
    BY <1>5, <1>13, <2>4
  <2>6. ButtonShown(after) = ButtonShown(p)
    BY <2>3, <2>5 DEF ButtonShown
  <2>7. QED
    BY <1>6, <1>7, <1>13, <2>6
<1>14. CASE f = "pageSize"
  <2>1. f \in WrittenFields(t, p, m) <=> "pageSize" \in m.had
    BY <1>1, <1>14, WrittenIs
  <2>2. ~CountIsDropped => "pageSize" \in m.had
    BY DEF m, CodecInv, CountIsDropped, DuplicateHad
  <2>3. QED
    BY <1>4, <1>5, <1>6, <1>7, <1>14, <2>1, <2>2
<1>15. CASE f \notin Common \cup {"content", "layout", "mediaPosition", "primaryCta", "pageSize"}
  BY <1>1, <1>15, <1>5, <1>6, <1>7, WrittenIs
<1>16. QED
  BY <1>9, <1>10, <1>11, <1>12, <1>13, <1>14, <1>15

\* What the invariant says of a block that is edited.
LEMMA CodecIsRight == CodecInv => BlockCodecTypeOK /\ ScreenSurvives /\ UntouchedIsKept
<1> SUFFICES ASSUME CodecInv PROVE BlockCodecTypeOK /\ UntouchedIsKept
  BY ScreenIsKept
<1>1. PICK c : c = Canonical(item.type, item.props, blockContext)
  OBVIOUS
<1>2. StoredRight(item.type, c, blockContext.v2)
  BY <1>1, CodecFields, CanonicalIsRight
<1>3. BlockCodecTypeOK
  BY <1>1, <1>2, CodecFields DEF BlockCodecTypeOK, CodecInv, StoredRight, PropsTyped
<1>4. UntouchedIsKept
  BY CodecFields, OpenedIsStored DEF UntouchedIsKept, CodecInv
<1>5. QED
  BY <1>3, <1>4

\* A block that is opened.
LEMMA CodecOpens ==
    ASSUME NEW t \in BlockTypes, NEW c, NEW v2 \in BOOLEAN, StoredRight(t, c, v2),
           BlockOpened(t, c, v2)
    PROVE  CodecInv
BY BlocksAreKnown, OpenedIsRight, MetadataIsRight, BlockCodecAssumption DEF BlockOpened, CodecInv

\* A block that is opened.
LEMMA CodecStarts == BlockCodecInit => CodecInv
BY CodecOpens DEF BlockCodecInit, StoredRight, StoredTyped

\* An edit.
LEMMA StrokeKeeps ==
    ASSUME CodecInv, NEW f \in EditorFields[item.type], NEW props,
           PropsRight(item.type, props, blockContext.v2), Stroke(f, props)
    PROVE  CodecInv' /\ item'.type = item.type /\ item'.props = props
<1>1. /\ item' = [item EXCEPT !.props = props] /\ touched' = touched \cup {f}
      /\ strokes < MaxStrokes /\ strokes' = strokes + 1 /\ UNCHANGED <<blockContext, stored>>
  BY DEF Stroke
<1>2. /\ item'.type = item.type /\ item'.props = props
      /\ item' = [type |-> item'.type, props |-> item'.props]
  BY <1>1 DEF CodecInv
<1>3. strokes' \in 0 .. MaxStrokes
  BY <1>1, CodecFields, BlockCodecAssumption
<1>4. "duplicate" \in touched' <=> "duplicate" \in touched
  BY <1>1, CodecFields, NoSlotField
<1>5. touched' # {}
  BY <1>1
<1>6. QED
  BY <1>1, <1>2, <1>3, <1>4, <1>5 DEF CodecInv

\* What an edit of a field gives.
LEMMA FieldStands ==
    ASSUME CodecInv, NEW f \in EditorFields[item.type], NEW v \in ValuesOf(f),
           f \in Children => blockContext.v2,
           f = "actions" => item.props[f] # Plain,
           f = "primaryCta" => item.props["actions"] = Plain,
           f = "layout" /\ v = "split" => item.type = "hero",
           NEW props, props = [item.props EXCEPT ![f] = v]
    PROVE  PropsRight(item.type, props, blockContext.v2)
<1>1. /\ item.type \in DOMAIN EditorFields /\ PropsTyped(item.type, item.props)
      /\ PropsRight(item.type, item.props, blockContext.v2)
  BY CodecFields
<1>2. /\ props = [g \in EditorFields[item.type] |-> props[g]] /\ props[f] = v
      /\ \A g \in EditorFields[item.type] : g # f => props[g] = item.props[g]
  BY <1>1 DEF PropsTyped
<1>3. PropsTyped(item.type, props)
  BY <1>1, <1>2 DEF PropsTyped
<1>4. \A g \in EditorFields[item.type] \cap Children : props[g] # Plain => blockContext.v2
  BY <1>1, <1>2 DEF PropsRight
<1>5. item.type = "section" => blockContext.v2
  BY <1>1 DEF PropsRight
<1>6. "layout" \in EditorFields[item.type] /\ item.type # "hero" => props["layout"] # "split"
  BY <1>1, <1>2 DEF PropsRight
<1>7. ASSUME item.type = "hero" PROVE props["primaryCta"] = Plain \/ props["actions"] = Plain
  BY <1>1, <1>7, <1>2, FieldsAre DEF PropsRight
<1>8. QED
  BY <1>3, <1>4, <1>5, <1>6, <1>7 DEF PropsRight

\* The bodies of the action properties.
ButtonStays ==
    item.type = "hero" /\ item.props["actions"] = Plain /\ item'.props["actions"] # Plain
    => ButtonShown(item'.props) = ButtonShown(item.props)

\* What an override changes is seen on its device only.
DeviceStays ==
    \A d, other \in Devices \cap DOMAIN item.props :
        d # other /\ item'.props[d] # item.props[d]
        => \A part \in Appearance(item.type) :
             Resolved(item'.props, other, part) = Resolved(item.props, other, part)

\* A field is edited.
LEMMA EditFieldKeeps ==
    ASSUME CodecInv, NEW f, NEW v, EditField(f, v)
    PROVE  CodecInv' /\ ButtonStays /\ DeviceStays
<1>1. /\ f \in DOMAIN item.props \ (Devices \cup {"shell_mode"})
      /\ v \in ValuesOf(f) \ {item.props[f]}
      /\ f \in Children => blockContext.v2
      /\ f = "actions" => item.props[f] # Plain /\ v # Plain
      /\ f = "primaryCta" => item.props["actions"] = Plain
      /\ f = "layout" /\ v = "split" => item.type = "hero"
      /\ Stroke(f, [item.props EXCEPT ![f] = v])
  BY DEF EditField
<1>2. PICK props : props = [item.props EXCEPT ![f] = v]
  OBVIOUS
<1>3. f \in EditorFields[item.type] /\ v \in ValuesOf(f)
  BY <1>1, CodecFields
<1>4. PropsRight(item.type, props, blockContext.v2)
  BY <1>1, <1>2, <1>3, FieldStands
<1>5. CodecInv' /\ item'.type = item.type /\ item'.props = props
  BY <1>1, <1>2, <1>3, <1>4, StrokeKeeps
<1>6. \A g \in EditorFields[item.type] : g # f => props[g] = item.props[g]
  BY <1>2, CodecFields DEF PropsTyped
<1>7. ButtonStays
  BY <1>1, <1>5, <1>6, CodecFields, FieldsAre DEF ButtonStays
<1>8. DeviceStays
  BY <1>1, <1>5, <1>6, CodecFields DEF DeviceStays
<1>9. QED
  BY <1>5, <1>7, <1>8

\* Each set of overridden parts has a value.
LEMMA OverridesAreNamed ==
    ASSUME NEW parts \in SUBSET Common
    PROVE  (CHOOSE v \in DOMAIN Overrides : Overrides[v] = parts) \in DOMAIN Overrides
<1>1. \E v \in DOMAIN Overrides : Overrides[v] = parts
  BY DEF Overrides, Common
<1>2. QED
  BY <1>1

\* The parts that a device overrides are set.
LEMMA SetOverridesKeeps ==
    ASSUME CodecInv, NEW d \in Devices, NEW parts \in SUBSET Common, SetOverrides(d, parts)
    PROVE  CodecInv' /\ ButtonStays /\ DeviceStays
<1>1. PICK v : v = CHOOSE w \in DOMAIN Overrides : Overrides[w] = parts
  OBVIOUS
<1>2. PICK props : props = [item.props EXCEPT ![d] = v]
  OBVIOUS
<1>3. d \in EditorFields[item.type] /\ Stroke(d, props)
  BY <1>1, <1>2, CodecFields DEF SetOverrides
<1>4. d \notin Children \cup {"actions", "primaryCta", "layout"}
  BY DEF Devices, Children
<1>5. v \in ValuesOf(d)
  BY <1>1, OverridesAreNamed, PlainIsValue
<1>6. PropsRight(item.type, props, blockContext.v2)
  BY <1>2, <1>3, <1>4, <1>5, FieldStands
<1>7. CodecInv' /\ item'.type = item.type /\ item'.props = props
  BY <1>3, <1>6, StrokeKeeps
<1>8. \A g \in EditorFields[item.type] : g # d => props[g] = item.props[g]
  BY <1>2, CodecFields DEF PropsTyped
<1>9. ButtonStays
  BY <1>4, <1>7, <1>8, CodecFields, FieldsAre DEF ButtonStays
<1>10. DeviceStays
  BY <1>7, <1>8, CodecFields DEF DeviceStays, Appearance, Common, Devices, Resolved
<1>11. QED
  BY <1>7, <1>9, <1>10

\* The slot of the actions takes the button over.
LEMMA EnableActionsKeeps == CodecInv /\ EnableActions => CodecInv' /\ ButtonStays /\ DeviceStays
<1> SUFFICES ASSUME CodecInv, EnableActions PROVE CodecInv' /\ ButtonStays /\ DeviceStays
  OBVIOUS
<1>1. /\ item.type = "hero" /\ blockContext.v2 /\ item.props["actions"] = Plain
      /\ Stroke("actions", ButtonMoved(item.props))
  BY DEF EnableActions
<1>2. {"primaryCta", "actions"} \subseteq EditorFields[item.type]
  BY <1>1, CodecFields, FieldsAre
<1>3. PICK action \in {"empty", "chosen"} :
        action = IF item.props["primaryCta"] = Plain THEN "empty" ELSE "chosen"
  OBVIOUS
<1>4. PICK props : props = ButtonMoved(item.props)
  OBVIOUS
<1>5. PICK first : first = [item.props EXCEPT !["primaryCta"] = Plain]
  OBVIOUS
<1>6. props = [first EXCEPT !["actions"] = action]
  BY <1>3, <1>4, <1>5 DEF ButtonMoved
<1>7. /\ props = [g \in EditorFields[item.type] |-> props[g]]
      /\ props["primaryCta"] = Plain /\ props["actions"] = action
      /\ \A g \in EditorFields[item.type] : g \notin {"primaryCta", "actions"} => props[g] = item.props[g]
  BY <1>2, <1>5, <1>6, CodecFields DEF PropsTyped
<1>8. PropsTyped(item.type, props)
  BY <1>7, CodecFields, PlainIsValue DEF PropsTyped
<1>9. "layout" \notin {"primaryCta", "actions"}
  OBVIOUS
<1>10. PropsRight(item.type, props, blockContext.v2)
  BY <1>1, <1>7, <1>8 DEF PropsRight
<1>11. CodecInv' /\ item'.type = item.type /\ item'.props = props
  BY <1>2, <1>1, <1>4, <1>10, StrokeKeeps
<1>12. ButtonStays
  <2>1. item.props["primaryCta"] \in {Plain, "chosen"}
    BY <1>2, CodecFields, PlainIsValue DEF PropsTyped, Devices
  <2>2. ButtonShown(item.props) = item.props["primaryCta"]
    BY <1>1 DEF ButtonShown
  <2>3. ButtonShown(props) = item.props["primaryCta"]
    BY <1>3, <1>7, <2>1 DEF ButtonShown, Plain
  <2>4. QED
    BY <1>11, <2>2, <2>3 DEF ButtonStays
<1>13. DeviceStays
  BY <1>7, <1>11, CodecFields DEF Devices, DeviceStays
<1>14. QED
  BY <1>11, <1>12, <1>13

\* The block on the screen stays as it is.
LEMMA SameProps == UNCHANGED item => ButtonStays /\ DeviceStays
BY DEF ButtonStays, DeviceStays

\* The block is duplicated.
LEMMA DuplicateBlockKeeps == CodecInv /\ DuplicateBlock => CodecInv' /\ ButtonStays /\ DeviceStays
BY CodecFields, BlockCodecAssumption, SameProps DEF DuplicateBlock, NewMetadata, DuplicateHad,
   HadRight, Children, CodecInv

\* The structure of the page is activated.
LEMMA ActivateStructureKeeps ==
    CodecInv /\ ActivateStructure => CodecInv' /\ ButtonStays /\ DeviceStays
<1> SUFFICES ASSUME CodecInv, ActivateStructure PROVE CodecInv' /\ ButtonStays /\ DeviceStays
  OBVIOUS
<1>1. PICK on \in BOOLEAN : on = TRUE
  BY Zenon
<1>2. /\ blockContext' = [blockContext EXCEPT !.v2 = on]
      /\ UNCHANGED <<item, stored, touched, strokes>>
  BY <1>1, Zenon DEF ActivateStructure
<1>3. /\ blockContext' = [had |-> blockContext'.had, v2 |-> blockContext'.v2,
                          initialLayout |-> blockContext'.initialLayout]
      /\ blockContext'.had = blockContext.had /\ blockContext'.v2 = on
      /\ blockContext'.initialLayout = blockContext.initialLayout
  BY <1>2 DEF CodecInv
<1>4. HadRight(item.type, blockContext')
  BY <1>1, <1>3, CodecFields DEF HadRight
<1>5. PropsRight(item.type, item.props, on)
  BY <1>1, CodecFields DEF PropsRight
<1>6. StoredRight(item.type, stored, on)
  BY <1>1, CodecFields DEF StoredRight, WellFormed
<1>7. CodecInv'
  BY <1>2, <1>3, <1>4, <1>5, <1>6 DEF CodecInv
<1>8. QED
  BY <1>2, <1>7, SameProps

\* The block is stored and opened again.
LEMMA SaveAndReopenKeeps == CodecInv /\ SaveAndReopen => CodecInv' /\ ButtonStays /\ DeviceStays
<1> SUFFICES ASSUME CodecInv, SaveAndReopen PROVE CodecInv' /\ ButtonStays /\ DeviceStays
  OBVIOUS
<1>1. PICK c : c = Canonical(item.type, item.props, blockContext)
  OBVIOUS
<1>2. PICK t : t = item.type
  OBVIOUS
<1>3. PICK v2 : v2 = blockContext.v2
  OBVIOUS
<1>4. /\ stored' = c /\ item' = [item EXCEPT !.props = ToPuck(t, c)]
      /\ blockContext' = Metadata(t, c, v2) /\ touched' = {} /\ UNCHANGED strokes
  BY <1>1, <1>2, <1>3 DEF SaveAndReopen
<1>5. t \in DOMAIN EditorFields /\ v2 \in BOOLEAN /\ t \in BlockTypes
  BY <1>2, <1>3, CodecFields DEF CodecInv
<1>6. StoredRight(t, c, v2)
  BY <1>1, <1>2, <1>3, CodecFields, CanonicalIsRight
<1>7. PICK p : p = ToPuck(t, c)
  OBVIOUS
<1>8. PropsRight(t, p, v2)
  BY <1>5, <1>6, <1>7, OpenedIsRight
<1>9. item'.type = t /\ item'.props = p /\ item' = [type |-> item'.type, props |-> item'.props]
  BY <1>2, <1>4, <1>7 DEF CodecInv
<1>10. PICK m : m = Metadata(t, c, v2)
  OBVIOUS
<1>11. /\ m = [had |-> m.had, v2 |-> m.v2, initialLayout |-> m.initialLayout]
       /\ m.had = DOMAIN c /\ m.v2 = v2 /\ HadRight(t, m)
       /\ "layout" \in EditorFields[t] => m.initialLayout = ToPuck(t, c)["layout"]
  BY <1>5, <1>6, <1>10, MetadataIsRight
<1>12. strokes' \in 0 .. MaxStrokes
  BY <1>4, CodecFields
<1>13. CodecInv'
  BY <1>4, <1>5, <1>6, <1>7, <1>8, <1>9, <1>10, <1>11, <1>12 DEF CodecInv
<1>14. p = Reopened
  BY <1>1, <1>2, <1>7 DEF Reopened
<1>15. ASSUME NEW f \in EditorFields[t], f \in Devices \cup {"actions"}
       PROVE  p[f] = item.props[f]
  BY <1>5, <1>15, <1>2, <1>14, WrittenOthers, ReopenedIs
<1>16. ButtonStays
  BY <1>2, <1>5, <1>9, <1>15, FieldsAre DEF ButtonStays
<1>17. DeviceStays
  BY <1>2, <1>9, <1>15, CodecFields DEF DeviceStays
<1>18. QED
  BY <1>13, <1>16, <1>17

\* Every step keeps the editor of a block sound.
LEMMA CodecKept ==
    CodecInv /\ [BlockCodecNext]_codecVars => CodecInv' /\ ButtonStays /\ DeviceStays
<1> SUFFICES ASSUME CodecInv, [BlockCodecNext]_codecVars
             PROVE  CodecInv' /\ ButtonStays /\ DeviceStays
  OBVIOUS
<1>1. ASSUME NEW f, NEW v, EditField(f, v) PROVE CodecInv' /\ ButtonStays /\ DeviceStays
  BY <1>1, EditFieldKeeps
<1>2. ASSUME NEW d \in Devices, NEW parts \in SUBSET Common, SetOverrides(d, parts)
      PROVE  CodecInv' /\ ButtonStays /\ DeviceStays
  BY <1>2, SetOverridesKeeps
<1>3. ASSUME UNCHANGED codecVars PROVE CodecInv' /\ ButtonStays /\ DeviceStays
  BY <1>3, SameProps DEF codecVars, CodecInv
<1>4. QED
  BY <1>1, <1>2, <1>3, EnableActionsKeeps, DuplicateBlockKeeps, ActivateStructureKeeps,
     SaveAndReopenKeeps DEF BlockCodecNext
-----------------------------------------------------------------------------
(***************************************************************************)
(* The editors of site parts. Each part on the canvas has an id of its     *)
(* own, the stored ones are well formed, and what is written of a part     *)
(* depends on the stored block with its id.                                *)
(***************************************************************************)

\* What an override is for: a screen and a setting.
OverridePlaces == Screens \X PartSettings

\* The values of the settings.
PlaceValues == {"on", "off", "one", "two", "four"} \cup MenuStyles

\* The settings that may be given.
Givens == UNION {[D -> PlaceValues] : D \in SUBSET OverridePlaces}

\* The overrides a part of a type may have.
OverridesFor(type) ==
    {ovr \in [given : Givens, turned : SUBSET {"tablet", "mobile", "devices"}] :
        /\ type = "announcement" => ovr.given = [at \in {} |-> "none"] /\ ovr.turned = {}
        /\ \A at \in DOMAIN ovr.given : ovr.given[at] \in SettingValues(type, at[2])}

\* All overrides, in the order of the document or not.
AllOverrides == [given : Givens, turned : SUBSET {"tablet", "mobile", "devices"}]

\* What the canvas may have.
CanvasParts ==
    {p \in [id : Nat, type : PartTypes, style : MenuStyles \cup {NoStyle}, overrides : AllOverrides,
            controls : {"none", "all", "some"}, button : {"none", "half", "whole"}] :
        /\ p.overrides \in OverridesFor(p.type)
        /\ p.type = "navigation" => p.style \in MenuStyles
        /\ p.type # "navigation" => p.style = NoStyle /\ p.controls = "none"}

\* What documents may have.
FieldsFor(type) ==
    IF type = "navigation" THEN {"style", "responsive", "controls"}
    ELSE IF type \in FooterTypes THEN {"responsive"} ELSE {}

\* The blocks of a site part as they are stored.
StoredBlocks ==
    {b \in [id : Nat, type : PartTypes, had : SUBSET {"style", "responsive", "controls"},
            button : {"none", "whole"}, style : MenuStyles \cup {NoStyle},
            overrides : AllOverrides, controls : {"none", "all", "some"}] :
        /\ b.had \subseteq FieldsFor(b.type)
        /\ b.overrides \in OverridesFor(b.type) /\ b.overrides.turned = {}
        /\ IF "style" \in b.had THEN b.style \in MenuStyles ELSE b.style = NoStyle
        /\ "responsive" \notin b.had => b.overrides = NoOverrides
        /\ "controls" \notin b.had => b.controls = "none"}

\* The inductive invariant of the editor of site parts.
PartInv ==
    /\ partStrokes \in 0 .. MaxPartStrokes
    /\ partCanvas \in [past : Seq({parts \in SUBSET CanvasParts : Unique(parts)}), at : Nat]
    /\ partCanvas.at \in DOMAIN partCanvas.past
    /\ partSource \in SUBSET StoredBlocks /\ Unique(partSource)

\* The types of parts, the screens and the settings.
LEMMA TypesAre ==
    /\ PartTypes = {"announcement", "navigation", "simple", "columns"}
    /\ FooterTypes = {"simple", "columns"}
    /\ Screens = {"tablet", "mobile"} /\ PartSettings = {"switch", "shape"}
BY DEF PartTypes, HeaderTypes, FooterTypes, Screens, PartSettings

\* What it takes to be given settings.
LEMMA GivensAre ==
    ASSUME NEW f
    PROVE  f \in Givens <=> /\ f = [at \in DOMAIN f |-> f[at]] /\ DOMAIN f \subseteq OverridePlaces
                            /\ \A at \in DOMAIN f : f[at] \in PlaceValues
<1>1. ASSUME f \in Givens
      PROVE  /\ f = [at \in DOMAIN f |-> f[at]] /\ DOMAIN f \subseteq OverridePlaces
             /\ \A at \in DOMAIN f : f[at] \in PlaceValues
  BY <1>1 DEF Givens
<1>2. ASSUME f = [at \in DOMAIN f |-> f[at]], DOMAIN f \subseteq OverridePlaces,
             \A at \in DOMAIN f : f[at] \in PlaceValues
      PROVE  f \in Givens
  BY <1>2 DEF Givens
<1>3. QED
  BY <1>1, <1>2

\* Each setting has one of the values.
LEMMA ValuesAre ==
    ASSUME NEW type \in PartTypes, NEW setting \in PartSettings
    PROVE  SettingValues(type, setting) \subseteq PlaceValues
<1>1. Shapes(type) \subseteq PlaceValues
  <2>1. CASE type = "navigation"
    BY <2>1 DEF Shapes, FooterTypes, PlaceValues
  <2>2. CASE type \in FooterTypes
    BY <2>2 DEF FooterTypes, Shapes, PlaceValues
  <2>3. CASE type = "announcement"
    BY <2>3 DEF FooterTypes, Shapes
  <2>4. QED
    BY <2>1, <2>2, <2>3, TypesAre
<1>2. QED
  BY <1>1, TypesAre DEF SettingValues, PlaceValues

\* The overrides of a type from their parts.
LEMMA OverridesAre ==
    ASSUME NEW type \in PartTypes, type # "announcement", NEW given, NEW turned,
           given = [at \in DOMAIN given |-> given[at]], DOMAIN given \subseteq OverridePlaces,
           \A at \in DOMAIN given : given[at] \in SettingValues(type, at[2]),
           turned \subseteq {"tablet", "mobile", "devices"}
    PROVE  Settings(given, turned) \in OverridesFor(type)
<1>1. \A at \in DOMAIN given : given[at] \in PlaceValues
  BY ValuesAre DEF OverridePlaces
<1>2. given \in Givens
  BY <1>1, GivensAre
<1>3. PICK ovr : ovr = Settings(given, turned)
  OBVIOUS
<1>4. ovr \in [given : Givens, turned : SUBSET {"tablet", "mobile", "devices"}]
      /\ ovr.given = given /\ ovr.turned = turned
  BY <1>2, <1>3 DEF Settings
<1>5. ovr \in OverridesFor(type)
  BY <1>4 DEF OverridesFor
<1>6. QED
  BY <1>3, <1>5

\* No override.
LEMMA NoneAre ==
    ASSUME NEW type \in PartTypes
    PROVE  /\ NoOverrides \in OverridesFor(type)
           /\ NoOverrides.given = [at \in {} |-> "none"] /\ NoOverrides.turned = {}
BY GivensAre DEF NoOverrides, Settings, OverridesFor

\* The overrides that an old document stands for.
LEMMA LegacyStands ==
    ASSUME NEW type \in PartTypes, NEW style, type = "navigation" => style \in MenuStyles
    PROVE  Legacy(type, style) \in OverridesFor(type) /\ Legacy(type, style).turned = {}
<1>1. CASE type = "announcement"
  BY <1>1, NoneAre DEF Legacy
<1>2. CASE type # "announcement"
  <2>1. PICK given : given = [at \in Screens \X PartSettings |->
                       IF at[2] = "switch" THEN IF type = "navigation" THEN "off" ELSE "on"
                       ELSE IF type = "navigation" THEN style
                       ELSE IF at[1] = "tablet" THEN "two" ELSE "one"]
    OBVIOUS
  <2>2. Legacy(type, style) = Settings(given, {})
    BY <1>2, <2>1 DEF Legacy
  <2>3. DOMAIN given = OverridePlaces /\ given = [at \in DOMAIN given |-> given[at]]
    BY <2>1 DEF OverridePlaces
  <2>4. ASSUME NEW at \in DOMAIN given PROVE given[at] \in SettingValues(type, at[2])
    <3>1. at[2] \in PartSettings /\ at \in Screens \X PartSettings
      BY <2>3 DEF OverridePlaces
    <3>2. CASE at[2] = "switch"
      BY <2>1, <3>1, <3>2 DEF SettingValues
    <3>3. CASE at[2] # "switch" /\ type = "navigation"
      BY <3>3, <2>1, <3>1 DEF Shapes, FooterTypes, SettingValues
    <3>4. CASE at[2] # "switch" /\ type # "navigation"
      BY <1>2, <3>4, <2>1, <3>1, TypesAre DEF Shapes, SettingValues
    <3>5. QED
      BY <3>2, <3>3, <3>4
  <2>5. Settings(given, {}) \in OverridesFor(type)
    BY <1>2, <2>3, <2>4, OverridesAre
  <2>6. Settings(given, {}).turned = {}
    BY DEF Settings
  <2>7. QED
    BY <2>2, <2>5, <2>6
<1>3. QED
  BY <1>1, <1>2

\* An item of the canvas as it is opened or inserted.
LEMMA PartIs ==
    ASSUME NEW id \in Nat, NEW type \in PartTypes, NEW style, NEW button \in {"none", "half", "whole"},
           type = "navigation" => style \in MenuStyles, type # "navigation" => style = NoStyle
    PROVE  /\ Part(id, type, style, button) \in CanvasParts
           /\ Part(id, type, style, button).id = id
           /\ Part(id, type, style, button).type = type
BY LegacyStands DEF OverridesFor, AllOverrides, Part, CanvasParts

\* The fields of an item of the canvas, and of a stored block.
LEMMA PartFields ==
    ASSUME NEW p \in CanvasParts
    PROVE  /\ p = [id |-> p.id, type |-> p.type, style |-> p.style, overrides |-> p.overrides,
                   controls |-> p.controls, button |-> p.button]
           /\ p.id \in Nat /\ p.type \in PartTypes /\ p.controls \in {"none", "all", "some"}
           /\ p.button \in {"none", "half", "whole"}
           /\ p.overrides \in AllOverrides /\ p.overrides \in OverridesFor(p.type)
           /\ p.type = "navigation" => p.style \in MenuStyles
           /\ p.type # "navigation" => p.style = NoStyle /\ p.controls = "none"
BY DEF CanvasParts

\* The fields of a stored block.
LEMMA BlockFields ==
    ASSUME NEW b \in StoredBlocks
    PROVE  /\ b = [id |-> b.id, type |-> b.type, had |-> b.had, button |-> b.button, style |-> b.style,
                   overrides |-> b.overrides, controls |-> b.controls]
           /\ b.id \in Nat /\ b.type \in PartTypes /\ b.controls \in {"none", "all", "some"}
           /\ b.button \in {"none", "whole"} /\ b.had \subseteq FieldsFor(b.type)
           /\ b.overrides \in AllOverrides /\ b.overrides \in OverridesFor(b.type)
           /\ b.overrides.turned = {}
           /\ "style" \in b.had => b.style \in MenuStyles
           /\ "style" \notin b.had => b.style = NoStyle
           /\ "responsive" \notin b.had => b.overrides = NoOverrides
           /\ "controls" \notin b.had => b.controls = "none"
BY DEF StoredBlocks

\* The fields of overrides.
LEMMA OverrideFields ==
    ASSUME NEW type, NEW ovr \in OverridesFor(type)
    PROVE  /\ ovr = Settings(ovr.given, ovr.turned)
           /\ ovr.given = [at \in DOMAIN ovr.given |-> ovr.given[at]]
           /\ DOMAIN ovr.given \subseteq OverridePlaces
           /\ ovr.turned \subseteq {"tablet", "mobile", "devices"}
           /\ \A at \in DOMAIN ovr.given : ovr.given[at] \in SettingValues(type, at[2])
           /\ type = "announcement" => ovr = NoOverrides
BY GivensAre DEF OverridesFor, Settings, NoOverrides

\* What opening a block gives.
LEMMA ToCanvasIs ==
    ASSUME NEW b \in StoredBlocks
    PROVE  /\ ToCanvas(b) \in CanvasParts
           /\ ToCanvas(b).id = b.id /\ ToCanvas(b).type = b.type /\ ToCanvas(b).button = b.button
           /\ ToCanvas(b).style = IF b.type # "navigation" THEN NoStyle
                                  ELSE IF "style" \in b.had THEN b.style ELSE DefaultStyle
           /\ ToCanvas(b).overrides = IF "responsive" \in b.had THEN b.overrides
                                      ELSE Legacy(b.type, ToCanvas(b).style)
           /\ ToCanvas(b).controls = IF "controls" \in b.had THEN b.controls
                                     ELSE IF b.type = "navigation" THEN "all" ELSE "none"
<1>1. PICK style : style = IF b.type # "navigation" THEN NoStyle
                           ELSE IF "style" \in b.had THEN b.style ELSE DefaultStyle
  OBVIOUS
<1>2. /\ b.type = "navigation" => style \in MenuStyles
      /\ b.type # "navigation" => style = NoStyle
  BY <1>1, BlockFields, PartCodecAssumption
<1>3. PICK fresh : fresh = Part(b.id, b.type, style, b.button)
  OBVIOUS
<1>4. fresh \in CanvasParts
  BY <1>2, <1>3, BlockFields, PartIs
<1>5. /\ fresh.id = b.id /\ fresh.type = b.type /\ fresh.button = b.button /\ fresh.style = style
      /\ fresh.overrides = Legacy(b.type, style)
      /\ fresh.controls = IF b.type = "navigation" THEN "all" ELSE "none"
  BY <1>3 DEF Part
<1>6. PICK ovr : ovr = IF "responsive" \in b.had THEN b.overrides ELSE fresh.overrides
  OBVIOUS
<1>7. PICK controls : controls = IF "controls" \in b.had THEN b.controls ELSE fresh.controls
  OBVIOUS
<1>8. PICK p : p = ToCanvas(b)
  OBVIOUS
<1>9. p = [fresh EXCEPT !.overrides = ovr, !.controls = controls]
  BY <1>1, <1>3, <1>6, <1>7, <1>8 DEF ToCanvas
<1>10. fresh = [id |-> fresh.id, type |-> fresh.type, style |-> fresh.style, overrides |-> fresh.overrides,
                controls |-> fresh.controls, button |-> fresh.button]
  BY <1>4, PartFields
<1>11. p = [id |-> b.id, type |-> b.type, style |-> style, overrides |-> ovr,
            controls |-> controls, button |-> b.button]
  BY <1>5, <1>9, <1>10
<1>12. ovr \in AllOverrides /\ ovr \in OverridesFor(b.type)
  BY <1>4, <1>5, <1>6, BlockFields, PartFields
<1>13. /\ controls \in {"none", "all", "some"}
       /\ b.type # "navigation" => controls = "none"
  BY <1>5, <1>7, BlockFields DEF FieldsFor
<1>14. p \in CanvasParts
  BY <1>2, <1>11, <1>12, <1>13, BlockFields DEF CanvasParts
<1>15. /\ p.id = b.id /\ p.type = b.type /\ p.button = b.button /\ p.style = style
       /\ p.overrides = ovr /\ p.controls = controls
  BY <1>11
<1>16. QED
  BY <1>1, <1>5, <1>6, <1>7, <1>8, <1>14, <1>15

\* What storing an item of the canvas gives.
LEMMA WrittenPartIs ==
    ASSUME NEW p \in CanvasParts, NEW had
    PROVE  /\ WrittenOfPart(p, had) \subseteq FieldsFor(p.type)
           /\ "style" \in WrittenOfPart(p, had)
              <=> p.type = "navigation" /\ ("style" \in had \/ p.style # DefaultStyle)
           /\ "responsive" \in WrittenOfPart(p, had)
              <=> p.type # "announcement" /\ ("responsive" \in had \/ p.overrides # Legacy(p.type, p.style))
           /\ "controls" \in WrittenOfPart(p, had)
              <=> p.type = "navigation" /\ ("controls" \in had \/ p.controls # "all")
BY PartFields, TypesAre DEF WrittenOfPart, FieldsFor

\* What is stored of a part of the canvas, in fields.
LEMMA ToBlockIs ==
    ASSUME NEW p \in CanvasParts, NEW src, NEW had, had = WrittenOfPart(p, HadInSource(p, src))
    PROVE  /\ ToBlock(p, src) \in StoredBlocks
           /\ ToBlock(p, src).id = p.id /\ ToBlock(p, src).type = p.type
           /\ ToBlock(p, src).had = had
           /\ ToBlock(p, src).button = IF p.button = "half" THEN "none" ELSE p.button
           /\ ToBlock(p, src).style = IF "style" \in had THEN p.style ELSE NoStyle
           /\ ToBlock(p, src).overrides = IF "responsive" \in had THEN InOrder(p.overrides)
                                          ELSE NoOverrides
           /\ ToBlock(p, src).controls = IF "controls" \in had THEN p.controls ELSE "none"
<1>1. PICK button : button = IF p.button = "half" THEN "none" ELSE p.button
  OBVIOUS
<1>2. PICK q : q = [p EXCEPT !.button = button]
  OBVIOUS
<1>3. /\ q.id = p.id /\ q.type = p.type /\ q.button = button /\ q.style = p.style
      /\ q.overrides = p.overrides /\ q.controls = p.controls
  BY <1>2, PartFields
<1>4. PICK b : b = ToBlock(p, src)
  OBVIOUS
<1>5. b = Block(q, had)
  BY <1>1, <1>2, <1>4 DEF ToBlock
<1>6. PICK style : style = IF "style" \in had THEN p.style ELSE NoStyle
  OBVIOUS
<1>7. PICK ovr : ovr = IF "responsive" \in had THEN InOrder(p.overrides) ELSE NoOverrides
  OBVIOUS
<1>8. PICK controls : controls = IF "controls" \in had THEN p.controls ELSE "none"
  OBVIOUS
<1>9. b = [id |-> p.id, type |-> p.type, had |-> had, button |-> button, style |-> style,
           overrides |-> ovr, controls |-> controls]
  BY <1>3, <1>5, <1>6, <1>7, <1>8 DEF Block
<1>10. had \subseteq FieldsFor(p.type) /\ ("style" \in had => p.type = "navigation")
  BY WrittenPartIs
<1>11. had \subseteq {"style", "responsive", "controls"}
  BY <1>10 DEF FieldsFor
<1>12. ovr \in OverridesFor(p.type) /\ ovr \in AllOverrides /\ ovr.turned = {}
  <2>1. CASE "responsive" \notin had
    BY <1>7, <2>1, NoneAre, PartFields DEF OverridesFor, AllOverrides
  <2>2. CASE "responsive" \in had
    BY <1>7, <2>2, PartFields DEF OverridesFor, InOrder, AllOverrides
  <2>3. QED
    BY <2>1, <2>2
<1>13. style \in MenuStyles \cup {NoStyle} /\ ("style" \in had => style \in MenuStyles)
       /\ ("style" \notin had => style = NoStyle)
  BY <1>6, <1>10, PartFields
<1>14. b \in StoredBlocks
  BY <1>1, <1>8, <1>9, <1>11, <1>12, <1>13, <1>7, <1>10, PartFields DEF StoredBlocks
<1>15. /\ b.id = p.id /\ b.type = p.type /\ b.had = had /\ b.button = button /\ b.style = style
       /\ b.overrides = ovr /\ b.controls = controls
  BY <1>9
<1>16. QED
  BY <1>1, <1>4, <1>6, <1>7, <1>8, <1>14, <1>15

\* A part looks the same after it is stored and loaded.
LEMMA LookSurvives ==
    ASSUME NEW p \in CanvasParts, NEW src
    PROVE  Look(ToCanvas(ToBlock(p, src))) = Look(p)
<1>1. PICK had : had = WrittenOfPart(p, HadInSource(p, src))
  OBVIOUS
<1>2. PICK b : b = ToBlock(p, src)
  OBVIOUS
<1>3. /\ b \in StoredBlocks /\ b.id = p.id /\ b.type = p.type /\ b.had = had
      /\ b.button = IF p.button = "half" THEN "none" ELSE p.button
      /\ b.style = IF "style" \in had THEN p.style ELSE NoStyle
      /\ b.overrides = IF "responsive" \in had THEN InOrder(p.overrides) ELSE NoOverrides
      /\ b.controls = IF "controls" \in had THEN p.controls ELSE "none"
  BY <1>1, <1>2, ToBlockIs
<1>4. PICK q : q = ToCanvas(b)
  OBVIOUS
<1>5. /\ q \in CanvasParts /\ q.id = b.id /\ q.type = b.type /\ q.button = b.button
      /\ q.style = IF b.type # "navigation" THEN NoStyle
                   ELSE IF "style" \in b.had THEN b.style ELSE DefaultStyle
      /\ q.overrides = IF "responsive" \in b.had THEN b.overrides ELSE Legacy(b.type, q.style)
      /\ q.controls = IF "controls" \in b.had THEN b.controls
                      ELSE IF b.type = "navigation" THEN "all" ELSE "none"
  BY <1>3, <1>4, ToCanvasIs
<1>6. q.style = p.style
  BY <1>1, <1>3, <1>5, WrittenPartIs, PartFields
<1>7. q.controls = p.controls
  BY <1>1, <1>3, <1>5, WrittenPartIs, PartFields
<1>8. q.overrides.given = p.overrides.given
  <2>1. "responsive" \in had <=> p.type # "announcement"
           /\ ("responsive" \in HadInSource(p, src) \/ p.overrides # Legacy(p.type, p.style))
    BY <1>1, WrittenPartIs
  <2>2. CASE "responsive" \in had
    BY <1>3, <1>5, <2>2, PartFields, OverrideFields DEF Settings, InOrder
  <2>3. CASE "responsive" \notin had
    <3>1. q.overrides = Legacy(p.type, p.style)
      BY <1>3, <1>5, <1>6, <2>3
    <3>2. CASE p.type = "announcement"
      <4>1. p.overrides = NoOverrides
        BY <3>2, PartFields, OverrideFields
      <4>2. Legacy(p.type, p.style) = NoOverrides
        BY <3>2 DEF Legacy
      <4>3. QED
        BY <3>1, <4>1, <4>2
    <3>3. CASE p.type # "announcement"
      BY <2>1, <2>3, <3>1, <3>3
    <3>4. QED
      BY <3>2, <3>3
  <2>4. QED
    BY <2>2, <2>3
<1>9. \A screen, setting : Presented(q, screen, setting) = Presented(p, screen, setting)
  BY <1>3, <1>5, <1>6, <1>8 DEF Presented, BaseOf
<1>10. (IF q.button = "half" THEN "none" ELSE q.button) = (IF p.button = "half" THEN "none" ELSE p.button)
  BY <1>3, <1>5
<1>11. q.id = p.id /\ q.type = p.type
  BY <1>3, <1>5
<1>12. [at \in Screens \X PartSettings |-> Presented(q, at[1], at[2])]
       = [at \in Screens \X PartSettings |-> Presented(p, at[1], at[2])]
  BY <1>9
<1>13. Look(q) = Look(p)
  BY <1>6, <1>7, <1>10, <1>11, <1>12 DEF Look
<1>14. QED
  BY <1>2, <1>4, <1>13

\* A block that is opened and stored is as it was.
LEMMA BlockIsKept ==
    ASSUME NEW src \in SUBSET StoredBlocks, Unique(src), NEW b \in src
    PROVE  ToBlock(ToCanvas(b), src) = b
<1>1. PICK p : p = ToCanvas(b)
  OBVIOUS
<1>2. b \in StoredBlocks
  OBVIOUS
<1>3. /\ p \in CanvasParts /\ p.id = b.id /\ p.type = b.type /\ p.button = b.button
      /\ p.style = IF b.type # "navigation" THEN NoStyle
                   ELSE IF "style" \in b.had THEN b.style ELSE DefaultStyle
      /\ p.overrides = IF "responsive" \in b.had THEN b.overrides ELSE Legacy(b.type, p.style)
      /\ p.controls = IF "controls" \in b.had THEN b.controls
                      ELSE IF b.type = "navigation" THEN "all" ELSE "none"
  BY <1>1, <1>2, ToCanvasIs
<1>4. HadInSource(p, src) = b.had
  BY <1>3 DEF Unique, HadInSource
<1>5. PICK had : had = WrittenOfPart(p, HadInSource(p, src))
  OBVIOUS
<1>6. had = b.had
  BY <1>2, <1>3, <1>5, <1>4, BlockFields, WrittenPartIs, TypesAre DEF FieldsFor
<1>7. PICK c : c = ToBlock(p, src)
  OBVIOUS
<1>8. /\ c \in StoredBlocks /\ c.id = p.id /\ c.type = p.type /\ c.had = had
      /\ c.button = IF p.button = "half" THEN "none" ELSE p.button
      /\ c.style = IF "style" \in had THEN p.style ELSE NoStyle
      /\ c.overrides = IF "responsive" \in had THEN InOrder(p.overrides) ELSE NoOverrides
      /\ c.controls = IF "controls" \in had THEN p.controls ELSE "none"
  BY <1>3, <1>5, <1>7, ToBlockIs
<1>9. c.button = b.button
  BY <1>2, <1>3, <1>8, BlockFields
<1>10. c.style = b.style
  BY <1>2, <1>3, <1>6, <1>8, BlockFields DEF FieldsFor
<1>11. c.overrides = b.overrides
  <2>1. CASE "responsive" \notin b.had
    BY <1>2, <1>6, <1>8, <2>1, BlockFields
  <2>2. CASE "responsive" \in b.had
    <3>1. c.overrides = InOrder(b.overrides)
      BY <1>3, <1>6, <1>8, <2>2
    <3>2. b.overrides = [given |-> b.overrides.given, turned |-> b.overrides.turned]
          /\ b.overrides.turned = {}
      BY <1>2, BlockFields, OverrideFields DEF Settings
    <3>3. InOrder(b.overrides) = b.overrides
      BY <3>2 DEF InOrder
    <3>4. QED
      BY <3>1, <3>3
  <2>3. QED
    BY <2>1, <2>2
<1>12. c.controls = b.controls
  BY <1>2, <1>3, <1>6, <1>8, BlockFields
<1>13. c.id = b.id /\ c.type = b.type /\ c.had = b.had
  BY <1>3, <1>6, <1>8
<1>14. c = b
  BY <1>8, <1>2, <1>9, <1>10, <1>11, <1>12, <1>13, BlockFields
<1>15. QED
  BY <1>1, <1>7, <1>14

\* A setting that a device is given.
LEMMA WithStands ==
    ASSUME NEW type \in PartTypes, type # "announcement", NEW ovr \in OverridesFor(type),
           NEW screen \in Screens, NEW setting \in PartSettings, NEW value \in SettingValues(type, setting),
           NEW place, place = <<screen, setting>>
    PROVE  /\ WithOverride(ovr, screen, setting, value) \in OverridesFor(type)
           /\ \A at : at # place =>
                /\ at \in DOMAIN WithOverride(ovr, screen, setting, value).given <=> at \in DOMAIN ovr.given
                /\ at \in DOMAIN ovr.given =>
                     WithOverride(ovr, screen, setting, value).given[at] = ovr.given[at]
<1>1. /\ DOMAIN ovr.given \subseteq OverridePlaces /\ ovr.turned \subseteq {"tablet", "mobile", "devices"}
      /\ \A at \in DOMAIN ovr.given : ovr.given[at] \in SettingValues(type, at[2])
  BY OverrideFields
<1>2. PICK given : given = [at \in DOMAIN ovr.given \cup {place} |->
                              IF at = place THEN value ELSE ovr.given[at]]
  OBVIOUS
<1>3. PICK turned : turned = ovr.turned
          \cup {s \in {screen} : place \notin DOMAIN ovr.given /\ setting = "switch" /\ Has(ovr, screen)}
          \cup {s \in {"devices"} : screen = "tablet" /\ ~Has(ovr, "tablet") /\ Has(ovr, "mobile")}
  OBVIOUS
<1>4. WithOverride(ovr, screen, setting, value) = Settings(given, turned)
  BY <1>2, <1>3 DEF WithOverride
<1>5. turned \subseteq {"tablet", "mobile", "devices"}
  BY <1>1, <1>3, TypesAre
<1>6. place \in OverridePlaces /\ place[2] = setting
  BY DEF OverridePlaces
<1>7. /\ given = [at \in DOMAIN given |-> given[at]] /\ DOMAIN given \subseteq OverridePlaces
      /\ \A at \in DOMAIN given : given[at] \in SettingValues(type, at[2])
  <2>1. DOMAIN given = DOMAIN ovr.given \cup {place}
    BY <1>2
  <2>2. given = [at \in DOMAIN given |-> given[at]]
    BY <1>2
  <2>3. ASSUME NEW at \in DOMAIN given PROVE given[at] \in SettingValues(type, at[2])
    <3>1. CASE at = place
      BY <1>2, <2>1, <3>1, <1>6
    <3>2. CASE at # place
      BY <1>2, <2>1, <3>2, <1>1
    <3>3. QED
      BY <3>1, <3>2
  <2>4. QED
    BY <1>1, <1>6, <2>1, <2>2, <2>3
<1>8. Settings(given, turned) \in OverridesFor(type)
  BY <1>5, <1>7, OverridesAre
<1>9. Settings(given, turned).given = given
  BY DEF Settings
<1>10. \A at : at # place => /\ at \in DOMAIN given <=> at \in DOMAIN ovr.given
                             /\ at \in DOMAIN ovr.given => given[at] = ovr.given[at]
  BY <1>2
<1>11. QED
  BY <1>4, <1>8, <1>9, <1>10

\* Settings that are left out.
LEMMA KeptStands ==
    ASSUME NEW type \in PartTypes, NEW ovr \in OverridesFor(type), NEW places,
           NEW turned \in SUBSET ovr.turned
    PROVE  Settings(Kept(ovr.given, places), turned) \in OverridesFor(type)
<1>1. /\ ovr.given = [at \in DOMAIN ovr.given |-> ovr.given[at]]
      /\ DOMAIN ovr.given \subseteq OverridePlaces /\ ovr.turned \subseteq {"tablet", "mobile", "devices"}
      /\ \A at \in DOMAIN ovr.given : ovr.given[at] \in SettingValues(type, at[2])
  BY OverrideFields
<1>2. PICK given : given = Kept(ovr.given, places)
  OBVIOUS
<1>3. /\ DOMAIN given = DOMAIN ovr.given \cap places
      /\ given = [at \in DOMAIN given |-> given[at]]
      /\ \A at \in DOMAIN given : given[at] = ovr.given[at]
  BY <1>2 DEF Kept
<1>4. CASE type = "announcement"
  <2>1. ovr = NoOverrides
    BY <1>4, OverrideFields
  <2>2. ovr.given = [at \in {} |-> "none"] /\ ovr.turned = {}
    BY <2>1, NoneAre
  <2>3. DOMAIN ovr.given = {}
    BY <2>2
  <2>4. given = [at \in {} |-> "none"]
    BY <1>3, <2>3
  <2>5. turned = {}
    BY <2>2
  <2>6. Settings(given, turned) = NoOverrides
    BY <2>4, <2>5 DEF NoOverrides
  <2>7. QED
    BY <1>2, <2>6, NoneAre
<1>5. CASE type # "announcement"
  BY <1>1, <1>3, <1>5, <1>2, OverridesAre
<1>6. QED
  BY <1>4, <1>5

\* Taking an override away leaves the others.
LEMMA WithoutStands ==
    ASSUME NEW type \in PartTypes, NEW ovr \in OverridesFor(type),
           NEW screen, NEW setting, NEW place, place = <<screen, setting>>
    PROVE  /\ WithoutOverride(ovr, screen, setting) \in OverridesFor(type)
           /\ \A at : at # place =>
                /\ at \in DOMAIN WithoutOverride(ovr, screen, setting).given <=> at \in DOMAIN ovr.given
                /\ at \in DOMAIN ovr.given =>
                     WithoutOverride(ovr, screen, setting).given[at] = ovr.given[at]
<1>1. CASE place \notin DOMAIN ovr.given
  BY <1>1 DEF WithoutOverride
<1>2. CASE place \in DOMAIN ovr.given
  BY <1>2, KeptStands DEF WithoutOverride, Settings, Kept
<1>3. QED
  BY <1>1, <1>2

\* The overrides of one screen.
LEMMA OfStands ==
    ASSUME NEW type \in PartTypes, NEW ovr \in OverridesFor(type), NEW screen
    PROVE  Of(ovr, screen) \in OverridesFor(type)
BY KeptStands DEF Of

\* Where another setting of a device is seen.
LEMMA SeenThere ==
    ASSUME NEW p, NEW q, q.type = p.type, q.style = p.style, NEW screen \in Screens,
           NEW setting \in PartSettings, NEW place, place = <<screen, setting>>,
           \A at : at # place =>
                /\ at \in DOMAIN q.overrides.given <=> at \in DOMAIN p.overrides.given
                /\ at \in DOMAIN p.overrides.given => q.overrides.given[at] = p.overrides.given[at],
           NEW s \in Screens, NEW other \in PartSettings,
           Presented(q, s, other) # Presented(p, s, other)
    PROVE  /\ other = setting
           /\ s = screen \/ (screen = "tablet" /\ <<s, setting>> \notin DOMAIN p.overrides.given)
<1>1. BaseOf(q, other) = BaseOf(p, other)
  BY DEF BaseOf
<1>2. ~(<<s, other>> # place /\ <<"tablet", other>> # place)
  BY <1>1 DEF Presented
<1>3. ~(<<s, other>> # place /\ <<s, other>> \in DOMAIN p.overrides.given)
  BY DEF Presented
<1>4. CASE <<s, other>> = place
  BY <1>4
<1>5. CASE <<s, other>> # place
  BY <1>2, <1>5, <1>3
<1>6. QED
  BY <1>4, <1>5

\* A new canvas in the history.
LEMMA PartsFields ==
    ASSUME PartInv
    PROVE  /\ partCanvas.past \in Seq({parts \in SUBSET CanvasParts : Unique(parts)})
           /\ partCanvas.at \in 1 .. Len(partCanvas.past)
           /\ Parts \in SUBSET CanvasParts /\ Unique(Parts)
           /\ partSource \in SUBSET StoredBlocks /\ Unique(partSource)
           /\ partStrokes \in 0 .. MaxPartStrokes
           /\ partCanvas = [past |-> partCanvas.past, at |-> partCanvas.at]
BY DEF PartInv, Parts

\* The canvas shows other parts, and the history records it.
LEMMA PartsChange ==
    ASSUME PartInv, NEW parts \in SUBSET CanvasParts, Unique(parts), ChangeParts(parts)
    PROVE  PartInv' /\ (Parts)' = parts
<1>1. PICK all : all = {x \in SUBSET CanvasParts : Unique(x)}
  OBVIOUS
<1>2. parts \in all
  BY <1>1
<1>3. PICK past : past = partCanvas.past
  OBVIOUS
<1>4. PICK at : at = partCanvas.at
  OBVIOUS
<1>5. past \in Seq(all) /\ at \in 1 .. Len(past)
  BY <1>1, <1>3, <1>4, PartsFields
<1>6. PICK first : first = SubSeq(past, 1, at)
  OBVIOUS
<1>7. first \in Seq(all) /\ Len(first) = at
  BY <1>5, <1>6
<1>8. PICK next : next = Append(first, parts)
  OBVIOUS
<1>9. next \in Seq(all) /\ Len(next) = at + 1 /\ next[at + 1] = parts
  BY <1>2, <1>5, <1>7, <1>8
<1>10. partCanvas' = [past |-> next, at |-> at + 1] /\ partSource' = partSource
       /\ partStrokes' = partStrokes + 1 /\ partStrokes < MaxPartStrokes
  BY <1>3, <1>4, <1>6, <1>8 DEF ChangeParts
<1>11. partCanvas'.past = next /\ partCanvas'.at = at + 1
  BY <1>10
<1>12. at + 1 \in DOMAIN next /\ at + 1 \in Nat
  BY <1>5, <1>9
<1>13. partCanvas' \in [past : Seq(all), at : Nat]
  BY <1>9, <1>10, <1>12
<1>14. partStrokes' \in 0 .. MaxPartStrokes
  BY <1>10, PartsFields, PartCodecAssumption
<1>15. partSource' \in SUBSET StoredBlocks /\ Unique(partSource')
  BY <1>10, PartsFields
<1>16. PartInv'
  BY <1>1, <1>11, <1>12, <1>13, <1>14, <1>15 DEF PartInv
<1>17. (Parts)' = parts
  BY <1>9, <1>11 DEF Parts
<1>18. QED
  BY <1>16, <1>17

\* One part is changed.
LEMMA OnePartChanges ==
    ASSUME PartInv, NEW part \in Parts, NEW changed \in CanvasParts, changed.type = part.type,
           ChangePart(part, changed)
    PROVE  PartInv' /\ (Parts)' = (Parts \ {part}) \cup {changed}
BY PartsFields, PartsChange DEF Unique, ChangePart

\* What the invariant says of the editor of site parts.
LEMMA PartsAreRight ==
    PartInv => PartCodecTypeOK /\ CanvasCanBeStored /\ PartsSurvive /\ OpenedIsStoredAsItWas
<1>1. SUFFICES ASSUME PartInv
               PROVE  PartCodecTypeOK /\ CanvasCanBeStored /\ PartsSurvive /\ OpenedIsStoredAsItWas
  OBVIOUS
<1>2. /\ Parts \in SUBSET CanvasParts /\ Unique(Parts)
      /\ partSource \in SUBSET StoredBlocks /\ Unique(partSource)
  BY <1>1, PartsFields
<1>3. PartCodecTypeOK
  <2>1. ASSUME NEW b \in partSource
        PROVE  /\ b.type \in PartTypes /\ b.button \in {"none", "whole"}
               /\ b.had \subseteq FieldsFor(b.type)
               /\ DOMAIN b.overrides.given \subseteq Screens \X PartSettings
               /\ \A at \in DOMAIN b.overrides.given :
                      b.overrides.given[at] \in SettingValues(b.type, at[2])
               /\ b.overrides.turned = {}
    BY <1>2, BlockFields, OverrideFields DEF OverridePlaces
  <2>2. partStrokes \in 0 .. MaxPartStrokes /\ partCanvas.at \in DOMAIN partCanvas.past
    BY <1>1 DEF PartInv
  <2>3. QED
    BY <1>2, <2>1, <2>2 DEF PartCodecTypeOK, FieldsFor
<1>4. PartsSurvive
  BY <1>2, LookSurvives DEF ToDocuments, PartsSurvive
<1>5. OpenedIsStoredAsItWas
  BY <1>2, BlockIsKept DEF ToDocuments, OpenedIsStoredAsItWas
<1>6. QED
  BY <1>2, <1>3, <1>4, <1>5 DEF CanvasCanBeStored

\* Documents that are opened.
LEMMA OpenedStands ==
    ASSUME NEW src \in SUBSET StoredBlocks, Unique(src)
    PROVE  {ToCanvas(b) : b \in src} \in SUBSET CanvasParts /\ Unique({ToCanvas(b) : b \in src})
BY ToCanvasIs DEF Unique

\* The canvas of parts that were stored.
LEMMA PartsOpen ==
    ASSUME NEW src \in SUBSET StoredBlocks, Unique(src), NEW past, NEW canvas,
           past = <<{ToCanvas(b) : b \in src}>>, canvas = [past |-> past, at |-> 1]
    PROVE  /\ canvas \in [past : Seq({parts \in SUBSET CanvasParts : Unique(parts)}), at : Nat]
           /\ canvas.at \in DOMAIN canvas.past
BY OpenedStands

\* What the model stores at first is what can be stored.
LEMMA StoredPartsStand == StoredParts \subseteq StoredBlocks
<1>1. ASSUME NEW style, NEW controls \in {"none", "all"}, NEW ovr, NEW type \in PartTypes,
             type = "navigation" => style \in MenuStyles,
             type # "navigation" => style = NoStyle /\ controls = "none",
             ovr \in OverridesFor(type), ovr.turned = {},
             NEW had, had \subseteq FieldsFor(type), NEW p,
             p.id = 0, p.type = type, p.style = style, p.button = "none", p.overrides = ovr,
             p.controls = controls
      PROVE  Block(p, had) \in StoredBlocks
  <2>1. PICK b : b = Block(p, had)
    OBVIOUS
  <2>2. PICK st : st = IF "style" \in had THEN style ELSE NoStyle
    OBVIOUS
  <2>3. PICK ov : ov = IF "responsive" \in had THEN InOrder(ovr) ELSE NoOverrides
    OBVIOUS
  <2>4. PICK ct : ct = IF "controls" \in had THEN controls ELSE "none"
    OBVIOUS
  <2>5. b = [id |-> 0, type |-> type, had |-> had, button |-> "none", style |-> st, overrides |-> ov,
             controls |-> ct]
    BY <1>1, <2>1, <2>2, <2>3, <2>4 DEF Block
  <2>6. ovr = [given |-> ovr.given, turned |-> ovr.turned]
    BY <1>1, OverrideFields DEF Settings
  <2>7. InOrder(ovr) = ovr
    BY <1>1, <2>6 DEF InOrder
  <2>8. ov \in OverridesFor(type) /\ ov \in AllOverrides /\ ov.turned = {}
    BY <1>1, <2>3, <2>7, NoneAre DEF OverridesFor, AllOverrides
  <2>9. had \subseteq {"style", "responsive", "controls"} /\ ("style" \in had => type = "navigation")
    BY <1>1 DEF FieldsFor
  <2>10. st \in MenuStyles \cup {NoStyle} /\ ("style" \in had => st \in MenuStyles)
         /\ ("style" \notin had => st = NoStyle)
    BY <1>1, <2>2, <2>9
  <2>11. b \in [id : Nat, type : PartTypes, had : SUBSET {"style", "responsive", "controls"},
                button : {"none", "whole"}, style : MenuStyles \cup {NoStyle},
                overrides : AllOverrides, controls : {"none", "all", "some"}]
    BY <2>4, <2>5, <2>8, <2>9, <2>10
  <2>12. b.had = had /\ b.type = type /\ b.overrides = ov /\ b.style = st /\ b.controls = ct
    BY <2>5
  <2>13. b \in StoredBlocks
    BY <1>1, <2>3, <2>4, <2>8, <2>10, <2>11, <2>12 DEF StoredBlocks
  <2>14. QED
    BY <2>1, <2>13
<1>2. ASSUME NEW ovr \in OverridesFor("navigation"), ovr.turned = {}, NEW style \in MenuStyles,
             NEW controls \in {"none", "all"}, NEW had \in SUBSET {"style", "responsive", "controls"}
      PROVE  Block([Part(0, "navigation", style, "none") EXCEPT !.overrides = ovr, !.controls = controls],
                   had) \in StoredBlocks
  <2>1. PICK p : p = [Part(0, "navigation", style, "none") EXCEPT !.overrides = ovr, !.controls = controls]
    OBVIOUS
  <2>2. /\ p.id = 0 /\ p.type = "navigation" /\ p.style = style /\ p.button = "none"
        /\ p.overrides = ovr /\ p.controls = controls
    BY <2>1 DEF Part
  <2>3. had \subseteq FieldsFor("navigation") /\ "navigation" \in PartTypes
    BY TypesAre DEF FieldsFor
  <2>4. PICK type : type = "navigation"
    OBVIOUS
  <2>5. Block(p, had) \in StoredBlocks
    BY <1>1, <1>2, <2>2, <2>3, <2>4
  <2>6. QED
    BY <2>1, <2>5
<1>3. ASSUME NEW type \in FooterTypes, NEW ovr \in OverridesFor(type), ovr.turned = {},
             NEW had \in SUBSET {"responsive"}
      PROVE  Block([Part(0, type, NoStyle, "none") EXCEPT !.overrides = ovr], had) \in StoredBlocks
  BY <1>1, <1>3, TypesAre DEF Part, FieldsFor
<1>4. Block(Part(0, "announcement", NoStyle, "none"), {}) \in StoredBlocks
  <2>1. PICK p : p = Part(0, "announcement", NoStyle, "none")
    OBVIOUS
  <2>2. PICK type : type = "announcement"
    OBVIOUS
  <2>3. PICK ovr : ovr = NoOverrides
    OBVIOUS
  <2>4. type # "navigation" /\ type \in PartTypes
    BY <2>2, TypesAre
  <2>5. ovr \in OverridesFor(type) /\ ovr.turned = {}
    BY <2>3, <2>4, NoneAre
  <2>6. Legacy(type, NoStyle) = ovr
    BY <2>2, <2>3 DEF Legacy
  <2>7. p.id = 0 /\ p.type = type /\ p.style = NoStyle /\ p.button = "none" /\ p.overrides = ovr
        /\ p.controls = "none"
    BY <2>1, <2>2, <2>4, <2>6 DEF Part
  <2>8. PICK controls \in {"none", "all"} : controls = "none"
    OBVIOUS
  <2>9. PICK style : style = NoStyle
    OBVIOUS
  <2>10. PICK had : had = {}
    OBVIOUS
  <2>11. had \subseteq FieldsFor(type)
    BY <2>10
  <2>12. Block(p, had) \in StoredBlocks
    BY <1>1, <2>4, <2>5, <2>7, <2>8, <2>9, <2>11
  <2>13. QED
    BY <2>1, <2>10, <2>12
<1>5. /\ Settings([at \in {<<"tablet", "switch">>} |-> "on"], {}) \in OverridesFor("navigation")
      /\ Settings([at \in {<<"tablet", "switch">>} |-> "on"], {}).turned = {}
  BY TypesAre, OverridesAre DEF OverridePlaces, SettingValues, Settings
<1>6. Legacy("navigation", DefaultStyle) \in OverridesFor("navigation")
      /\ Legacy("navigation", DefaultStyle).turned = {}
  BY LegacyStands, PartCodecAssumption, TypesAre
<1>7. ASSUME NEW type \in FooterTypes
      PROVE  /\ NoOverrides \in OverridesFor(type) /\ NoOverrides.turned = {}
             /\ Settings([at \in {<<"mobile", "shape">>} |-> "four"], {}) \in OverridesFor(type)
             /\ Settings([at \in {<<"mobile", "shape">>} |-> "four"], {}).turned = {}
  BY TypesAre, OverridesAre, NoneAre DEF OverridePlaces, Shapes, SettingValues, Settings
<1>8. SUFFICES ASSUME NEW b \in StoredParts PROVE b \in StoredBlocks
  OBVIOUS
<1>9. \/ b = Block(Part(0, "announcement", NoStyle, "none"), {})
      \/ \E style \in MenuStyles, ovr \in OldHeaderOverrides, controls \in {"none", "all"},
            had \in SUBSET {"style", "responsive", "controls"} : b = StoredHeader(style, ovr, controls, had)
      \/ \E type \in FooterTypes, ovr \in OldFooterOverrides, had \in SUBSET {"responsive"} :
            b = StoredFooter(type, ovr, had)
  BY <1>8 DEF StoredParts
<1>10. ASSUME NEW style \in MenuStyles, NEW ovr \in OldHeaderOverrides, NEW controls \in {"none", "all"},
              NEW had \in SUBSET {"style", "responsive", "controls"}
       PROVE  StoredHeader(style, ovr, controls, had) \in StoredBlocks
  BY <1>2, <1>5, <1>6 DEF StoredHeader, OldHeaderOverrides
<1>11. ASSUME NEW type \in FooterTypes, NEW ovr \in OldFooterOverrides, NEW had \in SUBSET {"responsive"}
       PROVE  StoredFooter(type, ovr, had) \in StoredBlocks
  BY <1>3, <1>7 DEF StoredFooter, OldFooterOverrides
<1>12. QED
  BY <1>4, <1>9, <1>10, <1>11

\* An editor that opens stored parts is sound.
LEMMA PartsAreOpened ==
    ASSUME NEW src \in SUBSET StoredBlocks, Unique(src), PartOpened(src)
    PROVE  PartInv
<1>1. PICK past : past = <<{ToCanvas(b) : b \in src}>>
  OBVIOUS
<1>2. partCanvas = [past |-> past, at |-> 1] /\ partSource = src /\ partStrokes = 0
  BY <1>1 DEF PartOpened
<1>3. /\ partCanvas \in [past : Seq({parts \in SUBSET CanvasParts : Unique(parts)}), at : Nat]
      /\ partCanvas.at \in DOMAIN partCanvas.past
  BY <1>1, <1>2, PartsOpen
<1>4. partStrokes \in 0 .. MaxPartStrokes
  BY <1>2, PartCodecAssumption
<1>5. QED
  BY <1>2, <1>3, <1>4 DEF PartInv

\* The editor starts with parts that were stored, or with none.
LEMMA PartsStart == PartCodecInit \/ PartOpened({}) => PartInv
BY StoredPartsStand, PartsAreOpened DEF PartCodecInit, Unique

\* The body of SettingsAreAimed.
AimedSetting ==
    \A part \in Parts, screen \in Screens, setting \in PartSettings :
         SetOverride(part, screen, setting) =>
            \A changed \in (Parts)' : changed.id = part.id /\ changed.type = part.type =>
              \A s \in Screens, other \in PartSettings :
                 Presented(changed, s, other) # Presented(part, s, other)
                 => /\ other = setting
                    /\ s = screen \/ (screen = "tablet" /\ <<s, setting>> \notin DOMAIN part.overrides.given)

\* Other overrides for a part of the canvas.
LEMMA OverridesChange ==
    ASSUME PartInv, NEW part \in Parts, NEW ovr \in OverridesFor(part.type), NEW changed,
           changed = [part EXCEPT !.overrides = ovr], ChangePart(part, changed)
    PROVE  /\ PartInv' /\ (Parts)' = (Parts \ {part}) \cup {changed}
           /\ changed.type = part.type /\ changed.style = part.style /\ changed.overrides = ovr
BY PartsFields, PartFields, OnePartChanges DEF OverridesFor, AllOverrides, CanvasParts

\* An override of one part is set: of its others nothing changes.
LEMMA SetOverrideChanges ==
    ASSUME PartInv, NEW part \in Parts, NEW screen \in Screens, NEW setting \in PartSettings,
           SetOverride(part, screen, setting)
    PROVE  /\ PartInv'
           /\ \E changed : /\ (Parts)' = (Parts \ {part}) \cup {changed}
                           /\ changed.type = part.type /\ changed.style = part.style
                           /\ \A at : at # <<screen, setting>> =>
                                /\ at \in DOMAIN changed.overrides.given <=> at \in DOMAIN part.overrides.given
                                /\ at \in DOMAIN part.overrides.given =>
                                     changed.overrides.given[at] = part.overrides.given[at]
<1>1. part \in CanvasParts
  BY PartsFields
<1>2. /\ part.type \in PartTypes /\ part.overrides \in OverridesFor(part.type)
      /\ part.type # "announcement"
  BY <1>1, PartFields DEF SetOverride
<1>3. PICK place : place = <<screen, setting>>
  OBVIOUS
<1>4. \/ \E value \in SettingValues(part.type, setting) :
            ChangePart(part, [part EXCEPT !.overrides = WithOverride(part.overrides, screen, setting, value)])
      \/ ChangePart(part, [part EXCEPT !.overrides = WithoutOverride(part.overrides, screen, setting)])
  BY DEF SetOverride
<1>5. \E ovr \in OverridesFor(part.type) :
         /\ ChangePart(part, [part EXCEPT !.overrides = ovr])
         /\ \A at : at # place =>
              /\ at \in DOMAIN ovr.given <=> at \in DOMAIN part.overrides.given
              /\ at \in DOMAIN part.overrides.given => ovr.given[at] = part.overrides.given[at]
  <2>1. ASSUME NEW value \in SettingValues(part.type, setting),
               ChangePart(part, [part EXCEPT !.overrides = WithOverride(part.overrides, screen, setting, value)])
        PROVE  \E ovr \in OverridesFor(part.type) :
                 /\ ChangePart(part, [part EXCEPT !.overrides = ovr])
                 /\ \A at : at # place =>
                      /\ at \in DOMAIN ovr.given <=> at \in DOMAIN part.overrides.given
                      /\ at \in DOMAIN part.overrides.given => ovr.given[at] = part.overrides.given[at]
    <3>1. PICK ovr : ovr = WithOverride(part.overrides, screen, setting, value)
      OBVIOUS
    <3>2. /\ ovr \in OverridesFor(part.type)
          /\ \A at : at # place =>
               /\ at \in DOMAIN ovr.given <=> at \in DOMAIN part.overrides.given
               /\ at \in DOMAIN part.overrides.given => ovr.given[at] = part.overrides.given[at]
      BY <1>2, <1>3, <3>1, WithStands
    <3>3. ChangePart(part, [part EXCEPT !.overrides = ovr])
      BY <2>1, <3>1
    <3>4. QED
      BY <3>2, <3>3
  <2>2. ASSUME ChangePart(part, [part EXCEPT !.overrides = WithoutOverride(part.overrides, screen, setting)])
        PROVE  \E ovr \in OverridesFor(part.type) :
                 /\ ChangePart(part, [part EXCEPT !.overrides = ovr])
                 /\ \A at : at # place =>
                      /\ at \in DOMAIN ovr.given <=> at \in DOMAIN part.overrides.given
                      /\ at \in DOMAIN part.overrides.given => ovr.given[at] = part.overrides.given[at]
    <3>1. PICK ovr : ovr = WithoutOverride(part.overrides, screen, setting)
      OBVIOUS
    <3>2. /\ ovr \in OverridesFor(part.type)
          /\ \A at : at # place =>
               /\ at \in DOMAIN ovr.given <=> at \in DOMAIN part.overrides.given
               /\ at \in DOMAIN part.overrides.given => ovr.given[at] = part.overrides.given[at]
      BY <1>2, <1>3, <3>1, WithoutStands
    <3>3. ChangePart(part, [part EXCEPT !.overrides = ovr])
      BY <2>2, <3>1
    <3>4. QED
      BY <3>2, <3>3
  <2>3. QED
    BY <1>4, <2>1, <2>2
<1>6. PICK ovr \in OverridesFor(part.type) :
         /\ ChangePart(part, [part EXCEPT !.overrides = ovr])
         /\ \A at : at # place =>
              /\ at \in DOMAIN ovr.given <=> at \in DOMAIN part.overrides.given
              /\ at \in DOMAIN part.overrides.given => ovr.given[at] = part.overrides.given[at]
  BY <1>5
<1>7. PICK changed : changed = [part EXCEPT !.overrides = ovr]
  OBVIOUS
<1>8. ChangePart(part, changed)
  BY <1>6, <1>7
<1>9. /\ PartInv' /\ (Parts)' = (Parts \ {part}) \cup {changed}
      /\ changed.type = part.type /\ changed.style = part.style /\ changed.overrides = ovr
  BY <1>7, <1>8, OverridesChange
<1>10. \A at : at # <<screen, setting>> =>
              /\ at \in DOMAIN changed.overrides.given <=> at \in DOMAIN part.overrides.given
              /\ at \in DOMAIN part.overrides.given => changed.overrides.given[at] = part.overrides.given[at]
  BY <1>3, <1>6, <1>9
<1>11. QED
  BY <1>9, <1>10

\* Setting an override is seen on the screen that it is for.
LEMMA PartsAimed ==
    ASSUME PartInv
    PROVE  AimedSetting
<1>1. SUFFICES ASSUME NEW part \in Parts, NEW screen \in Screens, NEW setting \in PartSettings,
                      SetOverride(part, screen, setting),
                      NEW changed \in (Parts)', changed.id = part.id, changed.type = part.type,
                      NEW s \in Screens, NEW other \in PartSettings,
                      Presented(changed, s, other) # Presented(part, s, other)
               PROVE  /\ other = setting
                      /\ s = screen \/ (screen = "tablet" /\ <<s, setting>> \notin DOMAIN part.overrides.given)
  BY DEF AimedSetting
<1>2. PICK q : /\ (Parts)' = (Parts \ {part}) \cup {q}
               /\ q.type = part.type /\ q.style = part.style
               /\ \A at : at # <<screen, setting>> =>
                    /\ at \in DOMAIN q.overrides.given <=> at \in DOMAIN part.overrides.given
                    /\ at \in DOMAIN part.overrides.given => q.overrides.given[at] = part.overrides.given[at]
  BY <1>1, SetOverrideChanges
<1>3. changed = q
  BY <1>1, <1>2, PartsFields DEF Unique
<1>4. PICK place : place = <<screen, setting>>
  OBVIOUS
<1>5. Presented(q, s, other) # Presented(part, s, other)
  BY <1>1, <1>3
<1>6. QED
  BY <1>1, <1>2, <1>4, <1>5, SeenThere

\* The header is edited.
LEMMA EditHeaderKeeps ==
    ASSUME PartInv, NEW part \in Parts, EditHeader(part)
    PROVE  PartInv'
<1>1. part \in CanvasParts /\ part.type = "navigation"
  BY PartsFields DEF EditHeader
<1>2. part = [id |-> part.id, type |-> part.type, style |-> part.style, overrides |-> part.overrides,
              controls |-> part.controls, button |-> part.button]
      /\ part.overrides \in AllOverrides /\ part.overrides \in OverridesFor(part.type)
  BY <1>1, PartFields
<1>3. ASSUME NEW style \in MenuStyles, ChangePart(part, [part EXCEPT !.style = style]) PROVE PartInv'
  BY <1>2, <1>1, <1>3, PartFields, OnePartChanges DEF CanvasParts
<1>4. ASSUME NEW button \in {"none", "half", "whole"}, ChangePart(part, [part EXCEPT !.button = button])
      PROVE  PartInv'
  BY <1>2, <1>1, <1>4, PartFields, OnePartChanges DEF CanvasParts
<1>5. QED
  BY <1>3, <1>4 DEF EditHeader

\* The controls of a part are edited.
LEMMA EditControlsKeeps ==
    ASSUME PartInv, NEW part \in Parts, EditControls(part)
    PROVE  PartInv'
BY PartsFields, PartFields, OnePartChanges DEF EditControls, CanvasParts

\* The overrides of a screen are reset.
LEMMA ResetScreenKeeps ==
    ASSUME PartInv, NEW part \in Parts, NEW screen \in Screens, ResetScreen(part, screen)
    PROVE  PartInv'
BY PartsFields, PartFields, OfStands, OverridesChange DEF ResetScreen

\* A part is deleted.
LEMMA DeletePartKeeps ==
    ASSUME PartInv, NEW part \in Parts, DeletePart(part)
    PROVE  PartInv'
BY PartsFields, PartsChange DEF Unique, DeletePart

\* A part is inserted.
LEMMA InsertPartKeeps ==
    ASSUME PartInv, NEW type \in PartTypes, InsertPart(type)
    PROVE  PartInv'
<1>1. PICK style : style = IF type = "navigation" THEN DefaultStyle ELSE NoStyle
  OBVIOUS
<1>2. PICK button : button = IF type = "navigation" THEN "whole" ELSE "none"
  OBVIOUS
<1>3. PICK id : id = 4 + partStrokes
  OBVIOUS
<1>4. PICK new : new = Part(id, type, style, button)
  OBVIOUS
<1>5. id \in Nat
  BY <1>3, PartsFields, PartCodecAssumption
<1>6. button \in {"none", "half", "whole"} /\ (type = "navigation" => style \in MenuStyles)
      /\ (type # "navigation" => style = NoStyle)
  BY <1>1, <1>2, PartCodecAssumption
<1>7. new \in CanvasParts /\ new.type = type
  BY <1>4, <1>5, <1>6, PartIs
<1>8. PICK parts : parts = Parts \cup {new}
  OBVIOUS
<1>9. ~Occupied(Parts, type) /\ ChangeParts(parts)
  BY <1>1, <1>2, <1>3, <1>4, <1>8 DEF InsertPart
<1>10. parts \in SUBSET CanvasParts
  BY <1>7, <1>8, PartsFields
<1>11. Unique(parts)
  BY <1>9, <1>7, <1>8, PartsFields DEF Occupied, Unique
<1>12. QED
  BY <1>9, <1>10, <1>11, PartsChange

\* A preset is applied.
LEMMA ApplyPresetKeeps ==
    ASSUME PartInv, NEW name \in {"business", "minimal", "community"}, ApplyPreset(name)
    PROVE  PartInv'
<1>1. /\ "announcement" \in PartTypes /\ "navigation" \in PartTypes
      /\ "columns" \in PartTypes /\ "simple" \in PartTypes
  BY TypesAre
<1>2. \A id \in {1, 2, 3} : id \in Nat
  OBVIOUS
<1>3. ASSUME NEW id \in {1, 2, 3}, NEW type \in PartTypes, type # "navigation"
      PROVE  Part(id, type, NoStyle, "none") \in CanvasParts
             /\ Part(id, type, NoStyle, "none").type = type
  BY <1>2, <1>3, PartIs
<1>4. ASSUME NEW id \in {1, 2, 3}, NEW style \in MenuStyles, NEW button \in {"none", "whole"}
      PROVE  Part(id, "navigation", style, button) \in CanvasParts
             /\ Part(id, "navigation", style, button).type = "navigation"
  BY <1>1, <1>2, PartIs
<1>5. ASSUME NEW a \in CanvasParts, NEW b \in CanvasParts, a.type = "navigation",
             b.type \in FooterTypes
      PROVE  {a, b} \in SUBSET CanvasParts /\ Unique({a, b})
  BY <1>5, TypesAre DEF Unique
<1>6. ASSUME name = "business" PROVE Preset(name) \in SUBSET CanvasParts /\ Unique(Preset(name))
  BY <1>6, <1>1, <1>3, <1>4, PartCodecAssumption, TypesAre DEF Preset, Unique
<1>7. ASSUME name = "minimal" PROVE Preset(name) \in SUBSET CanvasParts /\ Unique(Preset(name))
  BY <1>7, <1>4, <1>1, <1>3, <1>5, PartCodecAssumption, TypesAre DEF Preset
<1>8. ASSUME name = "community" PROVE Preset(name) \in SUBSET CanvasParts /\ Unique(Preset(name))
  BY <1>8, <1>4, <1>1, <1>3, <1>5, PartCodecAssumption, TypesAre DEF Preset
<1>9. PICK parts : parts = Preset(name)
  OBVIOUS
<1>10. parts \in SUBSET CanvasParts /\ Unique(parts) /\ ChangeParts(parts)
  BY <1>6, <1>7, <1>8, <1>9 DEF ApplyPreset
<1>11. QED
  BY <1>10, PartsChange

\* The history is travelled.
LEMMA TravelKeeps ==
    ASSUME PartInv, NEW at \in DOMAIN partCanvas.past, Travel(at)
    PROVE  PartInv'
BY PartsFields DEF Travel, PartInv

\* The parts are stored.
LEMMA StorePartsKeeps ==
    ASSUME PartInv, StoreParts
    PROVE  PartInv'
BY PartsFields, ToBlockIs DEF StoreParts, ToDocuments, Unique, PartInv

\* The parts are loaded again.
LEMMA ReloadPartsKeeps ==
    ASSUME PartInv, ReloadParts
    PROVE  PartInv'
BY PartsFields, PartsOpen DEF ReloadParts, PartInv

\* Every step keeps the editor of site parts sound.
LEMMA PartsKept == PartInv /\ [PartCodecNext]_partVars => PartInv' /\ AimedSetting
<1>1. SUFFICES ASSUME PartInv, [PartCodecNext]_partVars PROVE PartInv' /\ AimedSetting
  OBVIOUS
<1>2. ASSUME UNCHANGED partVars PROVE PartInv'
  BY <1>2, <1>1 DEF partVars, PartInv
<1>3. ASSUME PartCodecNext PROVE PartInv'
  <2>1. ASSUME NEW part \in Parts, EditHeader(part) PROVE PartInv'
    BY <1>1, <2>1, EditHeaderKeeps
  <2>2. ASSUME NEW part \in Parts, EditControls(part) PROVE PartInv'
    BY <1>1, <2>2, EditControlsKeeps
  <2>3. ASSUME NEW part \in Parts, DeletePart(part) PROVE PartInv'
    BY <1>1, <2>3, DeletePartKeeps
  <2>4. ASSUME NEW part \in Parts, NEW screen \in Screens, ResetScreen(part, screen) PROVE PartInv'
    BY <1>1, <2>4, ResetScreenKeeps
  <2>5. ASSUME NEW part \in Parts, NEW screen \in Screens, NEW setting \in PartSettings,
               SetOverride(part, screen, setting)
        PROVE  PartInv'
    BY <1>1, <2>5, SetOverrideChanges
  <2>6. ASSUME NEW type \in PartTypes, InsertPart(type) PROVE PartInv'
    BY <1>1, <2>6, InsertPartKeeps
  <2>7. ASSUME NEW name \in {"business", "minimal", "community"}, ApplyPreset(name) PROVE PartInv'
    BY <1>1, <2>7, ApplyPresetKeeps
  <2>8. ASSUME NEW at \in DOMAIN partCanvas.past, Travel(at) PROVE PartInv'
    BY <1>1, <2>8, TravelKeeps
  <2>9. StoreParts => PartInv'
    BY <1>1, StorePartsKeeps
  <2>10. ReloadParts => PartInv'
    BY <1>1, ReloadPartsKeeps
  <2>11. QED
    BY <1>3, <2>1, <2>2, <2>3, <2>4, <2>5, <2>6, <2>7, <2>8, <2>9, <2>10 DEF PartCodecNext
<1>4. AimedSetting
  BY <1>1, PartsAimed
<1>5. QED
  BY <1>1, <1>2, <1>3, <1>4
-----------------------------------------------------------------------------
(***************************************************************************)
(* The picker of routes. What is waited for was asked for; a picker whose  *)
(* effects have run misses no target, and each value was given for the     *)
(* route that is selected.                                                 *)
(***************************************************************************)

\* The effects of a picker.
Effects == {"catalog", "page", "targets"}

\* The states of a picker.
Pickers ==
    [place : {"field", "canvas"}, open : BOOLEAN, readOnly : BOOLEAN, catalog : BOOLEAN, attempted : BOOLEAN,
     loading : BOOLEAN, failed : BOOLEAN, selected : Routes \cup {NoRoute}, values : [Parameters -> 0..2],
     pages : BOOLEAN, targets : [TargetSources -> {"unknown", "empty", "some"}], waiting : SUBSET TargetSources,
     due : SUBSET Effects, work : Nat]

\* The variables have their types.
PickerTypes ==
    /\ routePicker \in Pickers
    /\ routeCalls \in [RouteCalls -> Nat]
    /\ routeHistory.asked \in [RouteCalls -> Nat]
    /\ routeHistory.givenFor \in [Parameters -> Routes \cup {NoRoute}]
    /\ DOMAIN routeHistory = {"asked", "givenFor", "link"}

\* What was asked for is attempted, on its way or known.
AsksStand(p, asked) ==
    /\ asked["catalog"] <= 1
    /\ ~p.attempted => asked["catalog"] = 0
    /\ \A s \in TargetSources :
          asked[s] <= 1 /\ (p.targets[s] = "unknown" /\ s \notin p.waiting => asked[s] = 0)

\* What is waited for was asked for, and is on its way.
CallsStand(p, calls) ==
    /\ p.loading => calls["catalog"] > 0
    /\ \A s \in p.waiting : calls[s] > 0

\* The sources whose values a picker needs, and those it would ask for.
NeededBy(p) == TargetSources \cap (IF p.selected = NoRoute THEN {} ELSE Range(SourcesOf[p.selected]))

\* The targets that are needed and that nobody asked for.
MissedBy(p) == {s \in NeededBy(p) : p.targets[s] = "unknown" /\ s \notin p.waiting}

\* Unless the effect is due, no target is missed.
EffectsStand(p) == "targets" \notin p.due => MissedBy(p) = {}

\* A value that is given was given for the route that is selected.
ValuesStand(p, given) == \A q \in Parameters : p.values[q] # 0 => given[q] = p.selected

\* A picker of the canvas that is gone has asked for nothing.
GoneStands(p, asked) ==
    p.place = "canvas" /\ ~p.open => p.selected = NoRoute /\ \A c \in RouteCalls : asked[c] = 0

\* The inductive invariant of the picker.
PickerInv ==
    /\ PickerTypes
    /\ AsksStand(routePicker, routeHistory.asked)
    /\ CallsStand(routePicker, routeCalls)
    /\ EffectsStand(routePicker)
    /\ ValuesStand(routePicker, routeHistory.givenFor)
    /\ GoneStands(routePicker, routeHistory.asked)

\* A picker that is mounted.
LEMMA FreshIsTyped ==
    ASSUME NEW place \in {"field", "canvas"}, NEW open \in BOOLEAN
    PROVE  FreshPicker(place, open) \in Pickers
BY DEF FreshPicker, Pickers, Effects, TargetSources

\* At first nothing was asked for and nothing entered.
LEMMA NothingIsTyped ==
    /\ NoRequests \in [RouteCalls -> Nat]
    /\ NothingEntered.asked \in [RouteCalls -> Nat]
    /\ NothingEntered.givenFor \in [Parameters -> Routes \cup {NoRoute}]
    /\ DOMAIN NothingEntered = {"asked", "givenFor", "link"}
    /\ \A c \in RouteCalls : NoRequests[c] = 0 /\ NothingEntered.asked[c] = 0
BY DEF NoRequests, NothingEntered

\* A picker that is opened at its place.
LEMMA PickerStarts ==
    ASSUME NEW place \in {"field", "canvas"}, RoutePickerOpened(place)
    PROVE  PickerInv
<1> DEFINE p == FreshPicker(place, FALSE)
<1>1. routePicker = p /\ routeCalls = NoRequests /\ routeHistory = NothingEntered
  BY DEF RoutePickerOpened
<1>2. p \in Pickers
  BY FreshIsTyped
<1>3. PickerTypes
  BY <1>1, <1>2, NothingIsTyped DEF PickerTypes
<1>4. /\ "catalog" \in RouteCalls /\ TargetSources \subseteq RouteCalls
      /\ p.waiting = {} /\ ~p.loading /\ "targets" \in p.due /\ p.values = [q \in Parameters |-> 0]
  BY DEF RouteCalls, FreshPicker
<1>5. AsksStand(p, NothingEntered.asked)
  <2>1. \A c \in RouteCalls : NothingEntered.asked[c] = 0
    BY NothingIsTyped
  <2>2. QED
    <3>1. NothingEntered.asked["catalog"] = 0 /\ \A s \in TargetSources : NothingEntered.asked[s] = 0
      BY <1>4, <2>1
    <3> HIDE DEF p
    <3>2. QED
      BY <3>1 DEF AsksStand
<1>6. CallsStand(p, NoRequests)
  BY <1>4 DEF CallsStand
<1>7. EffectsStand(p)
  BY <1>4 DEF EffectsStand
<1>8. ValuesStand(p, NothingEntered.givenFor)
  BY <1>4 DEF ValuesStand
<1>9. GoneStands(p, NothingEntered.asked)
  BY NothingIsTyped DEF FreshPicker, GoneStands
<1>10. QED
  BY <1>1, <1>3, <1>5, <1>6, <1>7, <1>8, <1>9 DEF PickerInv

\* A render changes nothing but which effects are due, and a picker whose targets need no

\* effect is one whose selection and targets did not change.
LEMMA RendersAs ==
    ASSUME PickerTypes, NEW p \in Pickers, Renders(p)
    PROVE  /\ routePicker' \in Pickers
           /\ routePicker'.selected = p.selected /\ routePicker'.targets = p.targets
           /\ routePicker'.waiting = p.waiting /\ routePicker'.values = p.values
           /\ routePicker'.attempted = p.attempted /\ routePicker'.loading = p.loading
           /\ routePicker'.open = p.open /\ routePicker'.place = p.place
           /\ "targets" \notin routePicker'.due =>
                 /\ p.selected = routePicker.selected /\ p.targets = routePicker.targets
                 /\ p.waiting = routePicker.waiting
BY DEF Effects, Renders, Depends, Pickers

\* So a render keeps what does not depend on the effects, and owes none when no target

\* was missed before.
LEMMA RendersWell ==
    ASSUME PickerTypes, NEW p \in Pickers, Renders(p),
           p.selected = routePicker.selected /\ p.targets = routePicker.targets
              /\ p.waiting = routePicker.waiting => MissedBy(routePicker) = {}
    PROVE  EffectsStand(routePicker')
BY RendersAs DEF EffectsStand, MissedBy, NeededBy

\* A picker whose effects have run misses nothing.
LEMMA NothingMissed ==
    ASSUME PickerInv, routePicker.due = {}
    PROVE  MissedBy(routePicker) = {}
BY DEF PickerInv, EffectsStand

\* A step that renders, and leaves what was asked for and what is on its way.
LEMMA RenderKeeps ==
    ASSUME PickerInv, NEW p \in Pickers, Renders(p), routePicker.due = {},
           p.attempted = routePicker.attempted, p.targets = routePicker.targets,
           p.waiting = routePicker.waiting, p.loading => routePicker.loading,
           routeCalls' = routeCalls, routeHistory'.asked = routeHistory.asked,
           routeHistory'.givenFor \in [Parameters -> Routes \cup {NoRoute}],
           DOMAIN routeHistory' = {"asked", "givenFor", "link"},
           ValuesStand(p, routeHistory'.givenFor), GoneStands(p, routeHistory'.asked)
    PROVE  PickerInv'
BY RendersAs, RendersWell, NothingMissed DEF PickerInv, PickerTypes, AsksStand, CallsStand,
   ValuesStand, GoneStands

\* The effects run: what is missing is asked for.
LEMMA RunEffectsKeeps == ASSUME PickerInv, RunEffects PROVE PickerInv'
<1>1. PickerTypes
  BY DEF PickerInv
<1>2. PICK catalog \in BOOLEAN : catalog <=> "catalog" \in routePicker.due /\ CatalogMissing
  OBVIOUS
<1>3. PICK targets \in SUBSET TargetSources :
        targets = IF "targets" \in routePicker.due THEN TargetsMissing ELSE {}
  BY DEF TargetsMissing
<1>4. PICK asks \in SUBSET RouteCalls :
        asks = targets \cup {c \in {"catalog"} : catalog}
                       \cup {c \in {"page"} : "page" \in routePicker.due /\ PagesMissing}
  BY <1>3 DEF RouteCalls
<1> DEFINE p == [routePicker EXCEPT !.attempted = @ \/ catalog, !.loading = @ \/ catalog,
                                    !.failed = @ /\ ~catalog, !.waiting = @ \cup targets]
           More(count) == [c \in RouteCalls |-> IF c \in asks THEN count[c] + 1 ELSE count[c]]
<1>5. Renders(p) /\ routeCalls' = More(routeCalls) /\ routeHistory' = [routeHistory EXCEPT !.asked = More(@)]
  <2>1. catalog = ("catalog" \in routePicker.due /\ CatalogMissing)
    BY <1>2
  <2>2. QED
    BY <1>3, <1>4, <2>1, Zenon DEF RunEffects
<1>6. p \in Pickers
  BY <1>1 DEF PickerTypes, Pickers
<1>7. /\ p.attempted = (routePicker.attempted \/ catalog) /\ p.loading = (routePicker.loading \/ catalog)
      /\ p.waiting = routePicker.waiting \cup targets /\ p.selected = routePicker.selected
      /\ p.targets = routePicker.targets /\ p.values = routePicker.values
      /\ p.open = routePicker.open /\ p.place = routePicker.place
  BY <1>1 DEF PickerTypes, Pickers
<1>8. /\ routePicker' \in Pickers
      /\ routePicker'.selected = p.selected /\ routePicker'.targets = p.targets
      /\ routePicker'.waiting = p.waiting /\ routePicker'.values = p.values
      /\ routePicker'.attempted = p.attempted /\ routePicker'.loading = p.loading
      /\ routePicker'.open = p.open /\ routePicker'.place = p.place
  BY <1>1, <1>5, <1>6, RendersAs
<1>9. ASSUME NEW count \in [RouteCalls -> Nat]
      PROVE  /\ More(count) \in [RouteCalls -> Nat]
             /\ \A c \in RouteCalls : More(count)[c] = IF c \in asks THEN count[c] + 1 ELSE count[c]
  OBVIOUS
<1>10. /\ routeHistory'.asked = More(routeHistory.asked) /\ routeHistory'.givenFor = routeHistory.givenFor
       /\ DOMAIN routeHistory' = {"asked", "givenFor", "link"}
  BY <1>1, <1>5 DEF PickerTypes
<1>11. routeHistory.asked \in [RouteCalls -> Nat] /\ routeCalls \in [RouteCalls -> Nat]
  BY <1>1 DEF PickerTypes
<1>12. "catalog" \in RouteCalls /\ TargetSources \subseteq RouteCalls /\ "catalog" \notin TargetSources
       /\ "page" \notin TargetSources
  BY DEF RouteCalls, TargetSources
<1>13. /\ "catalog" \in asks <=> catalog
       /\ \A s \in TargetSources : s \in asks <=> s \in targets
  BY <1>3, <1>4, <1>12
<1>14. \A s \in targets : routePicker.targets[s] = "unknown" /\ s \notin routePicker.waiting
  BY <1>3 DEF TargetsMissing
<1>15. catalog => ~routePicker.attempted
  BY <1>2 DEF CatalogMissing
<1> DEFINE asked == routeHistory.asked
<1> HIDE DEF p, More, asked
<1>16. PickerTypes'
  BY <1>5, <1>9, <1>10, <1>11, <1>8, <1>1 DEF PickerTypes
<1>17. AsksStand(routePicker', routeHistory'.asked)
  <2>1. \A c \in RouteCalls : routeHistory'.asked[c] = IF c \in asks THEN routeHistory.asked[c] + 1 ELSE routeHistory.asked[c]
    BY <1>9, <1>10, <1>11
  <2>2. AsksStand(routePicker, routeHistory.asked)
    BY DEF PickerInv
  <2>3. routeHistory'.asked["catalog"] <= 1
        /\ (~routePicker'.attempted => routeHistory'.asked["catalog"] = 0)
    <3>1. PICK n \in Nat : n = routeHistory.asked["catalog"]
      BY <1>11, <1>12
    <3>2. n <= 1 /\ (~routePicker.attempted => n = 0)
      BY <2>2, <3>1 DEF AsksStand
    <3>3. routeHistory'.asked["catalog"] = IF catalog THEN n + 1 ELSE n
      BY <2>1, <3>1, <1>12, <1>13
    <3>4. routePicker'.attempted = (routePicker.attempted \/ catalog)
      BY <1>7, <1>8
    <3>5. PICK m \in Nat : m = routeHistory'.asked["catalog"] /\ m = IF catalog THEN n + 1 ELSE n
      BY <3>3
    <3>6. m <= 1 /\ (~(routePicker.attempted \/ catalog) => m = 0)
      BY <1>15, <3>2, <3>5
    <3>7. QED
      BY <3>4, <3>5, <3>6
  <2>4. ASSUME NEW s \in TargetSources
        PROVE  /\ routeHistory'.asked[s] <= 1
               /\ routePicker'.targets[s] = "unknown" /\ s \notin routePicker'.waiting => routeHistory'.asked[s] = 0
    BY <2>1, <2>2, <1>7, <1>8, <1>11, <1>12, <1>13, <1>14 DEF AsksStand
  <2>5. QED
    BY <2>3, <2>4 DEF AsksStand
<1>18. CallsStand(routePicker', routeCalls')
  <2>1. \A c \in RouteCalls : routeCalls'[c] = IF c \in asks THEN routeCalls[c] + 1 ELSE routeCalls[c]
    BY <1>5, <1>9, <1>11
  <2>2. CallsStand(routePicker, routeCalls)
    BY DEF PickerInv
  <2>3. routePicker'.loading => routeCalls'["catalog"] > 0
    BY <2>1, <2>2, <1>7, <1>8, <1>11, <1>12, <1>13 DEF CallsStand
  <2>4. ASSUME NEW s \in routePicker'.waiting PROVE routeCalls'[s] > 0
    BY <1>7, <1>8, <2>1, <2>2, <1>11, <1>12, <1>13 DEF Pickers, CallsStand
  <2>5. QED
    BY <2>3, <2>4 DEF CallsStand
<1>19. EffectsStand(routePicker')
  <2>1. p.waiting = routePicker.waiting => MissedBy(routePicker) = {}
    <3>1. CASE "targets" \in routePicker.due
      BY <1>3, <3>1, <1>7, <1>14 DEF TargetsMissing, MissedBy, NeededBy, SourcesOfSelected
    <3>2. CASE "targets" \notin routePicker.due
      BY <3>2 DEF PickerInv, EffectsStand
    <3>3. QED
      BY <3>1, <3>2
  <2>2. QED
    BY <2>1, <1>1, <1>5, <1>6, RendersWell
<1>20. ValuesStand(routePicker', routeHistory'.givenFor)
  BY <1>7, <1>8, <1>10 DEF PickerInv, ValuesStand
<1>21. GoneStands(routePicker', routeHistory'.asked)
  BY <1>7, <1>8, <1>2, <1>3, <1>4, <1>9, <1>10, <1>11 DEF GoneStands, PickerInv, SourcesOfSelected,
     CatalogMissing, TargetsMissing, PagesMissing
<1>22. QED
  BY <1>16, <1>17, <1>18, <1>19, <1>20, <1>21 DEF PickerInv

\* An answer to c: one request less, and what it tells of c only.
LEMMA AnswerKeeps ==
    ASSUME PickerInv, NEW c \in RouteCalls, Answered(c), NEW p \in Pickers, Renders(p),
           p.attempted = routePicker.attempted, p.selected = routePicker.selected,
           p.values = routePicker.values, p.open = routePicker.open, p.place = routePicker.place,
           p.loading => routePicker.loading /\ c # "catalog",
           p.waiting = routePicker.waiting \ {c},
           \A s \in TargetSources : IF s = c THEN p.targets[s] # "unknown" ELSE p.targets[s] = routePicker.targets[s]
    PROVE  PickerInv'
<1>1. PickerTypes
  BY DEF PickerInv
<1>2. routePicker.due = {} /\ routeCalls' = [routeCalls EXCEPT ![c] = @ - 1] /\ routeCalls[c] > 0
      /\ routeHistory' = routeHistory
  BY DEF Answered
<1>3. /\ routePicker' \in Pickers
      /\ routePicker'.selected = p.selected /\ routePicker'.targets = p.targets
      /\ routePicker'.waiting = p.waiting /\ routePicker'.values = p.values
      /\ routePicker'.attempted = p.attempted /\ routePicker'.loading = p.loading
  BY <1>1, RendersAs
<1>4. /\ routeCalls \in [RouteCalls -> Nat] /\ routeCalls' \in [RouteCalls -> Nat]
      /\ \A d \in RouteCalls \ {c} : routeCalls'[d] = routeCalls[d]
  BY <1>1, <1>2 DEF PickerTypes
<1>5. PickerTypes'
  BY <1>1, <1>2, <1>3, <1>4 DEF PickerTypes
<1>6. AsksStand(routePicker', routeHistory'.asked)
  BY <1>2, <1>3 DEF PickerInv, AsksStand
<1>7. CallsStand(routePicker', routeCalls')
  BY <1>1, <1>3, <1>4 DEF RouteCalls, PickerTypes, Pickers, PickerInv, CallsStand
<1>8. EffectsStand(routePicker')
  BY <1>1, <1>2, RendersWell, NothingMissed
<1>9. ValuesStand(routePicker', routeHistory'.givenFor)
  BY <1>2, <1>3 DEF PickerInv, ValuesStand
<1>10. GoneStands(routePicker', routeHistory'.asked)
  BY <1>1, <1>2, RendersAs DEF PickerInv, GoneStands
<1>11. QED
  BY <1>5, <1>6, <1>7, <1>8, <1>9, <1>10 DEF PickerInv

\* An answer arrives: the catalog, the pages or targets.
LEMMA AnswersKeep ==
    ASSUME PickerInv, CatalogAnswers \/ PagesAnswer \/ \E s \in TargetSources : TargetsAnswer(s)
    PROVE  PickerInv'
<1>1. routePicker \in Pickers
  BY DEF PickerInv, PickerTypes
<1>2. routePicker.waiting \subseteq TargetSources
  BY <1>1 DEF Pickers
<1>3. ASSUME CatalogAnswers PROVE PickerInv'
  <2>1. PICK ok \in BOOLEAN : Renders([routePicker EXCEPT !.catalog = ok, !.failed = ~ok, !.loading = FALSE])
    BY <1>3 DEF CatalogAnswers
  <2>2. PICK p : p = [routePicker EXCEPT !.catalog = ok, !.failed = ~ok, !.loading = FALSE]
    OBVIOUS
  <2>3. /\ p \in Pickers /\ ~p.loading /\ p.attempted = routePicker.attempted /\ p.selected = routePicker.selected
        /\ p.values = routePicker.values /\ p.open = routePicker.open /\ p.place = routePicker.place
        /\ p.waiting = routePicker.waiting /\ p.targets = routePicker.targets
    BY <1>1, <2>2 DEF Pickers
  <2>4. "catalog" \in RouteCalls /\ "catalog" \notin TargetSources
    BY DEF RouteCalls, TargetSources
  <2>5. p.waiting = routePicker.waiting \ {"catalog"}
    BY <1>2, <2>3, <2>4
  <2>6. Answered("catalog") /\ Renders(p)
    BY <1>3, <2>1, <2>2 DEF CatalogAnswers
  <2>7. \A s \in TargetSources : s # "catalog" /\ p.targets[s] = routePicker.targets[s]
    BY <2>3, <2>4
  <2>8. QED
    BY <2>3, <2>4, <2>5, <2>6, <2>7, AnswerKeeps
<1>4. ASSUME PagesAnswer PROVE PickerInv'
  <2>1. PICK some \in BOOLEAN : Renders([routePicker EXCEPT !.pages = IF some THEN TRUE ELSE @])
    BY <1>4 DEF PagesAnswer
  <2>2. PICK p : p = [routePicker EXCEPT !.pages = IF some THEN TRUE ELSE @]
    OBVIOUS
  <2>3. /\ p \in Pickers /\ p.loading = routePicker.loading
        /\ p.attempted = routePicker.attempted /\ p.selected = routePicker.selected
        /\ p.values = routePicker.values /\ p.open = routePicker.open /\ p.place = routePicker.place
        /\ p.waiting = routePicker.waiting /\ p.targets = routePicker.targets
    BY <1>1, <2>2 DEF Pickers
  <2>4. "page" \in RouteCalls /\ "page" \notin TargetSources /\ "page" # "catalog"
    BY DEF RouteCalls, TargetSources
  <2>5. p.waiting = routePicker.waiting \ {"page"}
    BY <1>2, <2>3, <2>4
  <2>6. Answered("page") /\ Renders(p)
    BY <1>4, <2>1, <2>2 DEF PagesAnswer
  <2>7. \A s \in TargetSources : s # "page" /\ p.targets[s] = routePicker.targets[s]
    BY <2>3, <2>4
  <2>8. QED
    BY <2>3, <2>4, <2>5, <2>6, <2>7, AnswerKeeps
<1>5. ASSUME NEW s \in TargetSources, TargetsAnswer(s) PROVE PickerInv'
  <2>1. PICK answer \in {"some", "empty", "failure"} :
          Renders([routePicker EXCEPT !.targets[s] = TargetsOf(answer), !.waiting = @ \ {s}])
    BY <1>5 DEF TargetsAnswer
  <2>2. PICK told \in {"some", "empty"} : told = TargetsOf(answer)
    BY DEF TargetsOf
  <2>3. PICK targets \in [TargetSources -> {"unknown", "empty", "some"}] :
          targets = [routePicker.targets EXCEPT ![s] = told]
    BY <1>1 DEF Pickers
  <2>4. PICK p : p = [routePicker EXCEPT !.targets = targets, !.waiting = @ \ {s}]
    OBVIOUS
  <2>5. Renders(p) /\ Answered(s)
    BY <1>1, <2>2, <2>3, <2>4, <1>5, <2>1 DEF Pickers, TargetsAnswer
  <2>6. /\ p \in Pickers /\ p.loading = routePicker.loading
        /\ p.attempted = routePicker.attempted /\ p.selected = routePicker.selected
        /\ p.values = routePicker.values /\ p.open = routePicker.open /\ p.place = routePicker.place
        /\ p.waiting = routePicker.waiting \ {s} /\ p.targets = targets
    BY <1>1, <2>4 DEF Pickers
  <2>7. s \in RouteCalls /\ s # "catalog"
    BY DEF RouteCalls, TargetSources
  <2>8. routePicker.targets \in [TargetSources -> {"unknown", "empty", "some"}]
    BY <1>1 DEF Pickers
  <2>9. \A q \in TargetSources : IF q = s THEN p.targets[q] # "unknown" ELSE p.targets[q] = routePicker.targets[q]
    BY <2>2, <2>3, <2>6, <2>8
  <2>10. QED
    BY <2>5, <2>6, <2>7, <2>9, AnswerKeeps
<1>6. QED
  BY <1>3, <1>4, <1>5

\* A picker after an act of the user.
LEMMA WorkedIsTyped == ASSUME PickerInv PROVE Worked \in Pickers
BY DEF PickerInv, PickerTypes, Pickers, Worked

\* A step of the user on a picker that is dismissed: it is gone, or closed.
LEMMA DismissedKeeps ==
    ASSUME PickerInv, Works, Dismissed(Worked),
           routeHistory'.asked = Forgotten(routeHistory).asked,
           routeHistory'.givenFor = Forgotten(routeHistory).givenFor,
           DOMAIN routeHistory' = {"asked", "givenFor", "link"}
    PROVE  PickerInv'
<1>1. PickerTypes /\ routePicker \in Pickers
  BY DEF PickerInv, PickerTypes
<1>2. PICK w \in Pickers : w = Worked
  BY WorkedIsTyped
<1>3. /\ w.place = routePicker.place /\ w.attempted = routePicker.attempted /\ w.targets = routePicker.targets
      /\ w.waiting = routePicker.waiting /\ w.loading = routePicker.loading /\ w.values = routePicker.values
      /\ w.selected = routePicker.selected /\ w.place = routePicker.place /\ w.open = routePicker.open
  BY <1>1, <1>2 DEF Worked, Pickers
<1>4. CASE routePicker.place = "canvas"
  <2>1. routePicker' = [FreshPicker("canvas", FALSE) EXCEPT !.work = w.work, !.due = {}] /\ routeCalls' = NoRequests
    BY <1>2, <1>3, <1>4 DEF Dismissed
  <2>2. PICK p \in Pickers : p = FreshPicker("canvas", FALSE)
    BY FreshIsTyped
  <2>3. /\ p.waiting = {} /\ p.loading = FALSE /\ p.selected = NoRoute /\ p.values = [q \in Parameters |-> 0]
    BY <2>2 DEF FreshPicker
  <2>4. w.work \in Nat
    BY DEF Pickers
  <2>5. /\ routePicker' \in Pickers /\ routePicker'.waiting = {} /\ routePicker'.loading = FALSE
        /\ routePicker'.selected = NoRoute /\ routePicker'.values = [q \in Parameters |-> 0]
    BY <2>1, <2>2, <2>3, <2>4 DEF Pickers
  <2>6. /\ routeHistory'.asked = NothingEntered.asked /\ routeHistory'.givenFor = NothingEntered.givenFor
        /\ DOMAIN routeHistory' = {"asked", "givenFor", "link"}
    BY <1>4, NothingIsTyped DEF Forgotten
  <2>7. PickerTypes'
    BY <2>1, <2>5, <2>6, NothingIsTyped DEF PickerTypes
  <2>8. AsksStand(routePicker', routeHistory'.asked)
    <3>1. \A c \in RouteCalls : NothingEntered.asked[c] = 0
      BY NothingIsTyped
    <3>2. "catalog" \in RouteCalls /\ TargetSources \subseteq RouteCalls
      BY DEF RouteCalls
    <3>3. QED
      BY <2>6, <3>1, <3>2 DEF AsksStand
  <2>9. CallsStand(routePicker', routeCalls')
    BY <2>5 DEF CallsStand
  <2>10. EffectsStand(routePicker')
    BY <2>5 DEF EffectsStand, MissedBy, NeededBy
  <2>11. ValuesStand(routePicker', routeHistory'.givenFor)
    BY <2>5 DEF ValuesStand
  <2>12. GoneStands(routePicker', routeHistory'.asked)
    BY <2>5, <2>6, NothingIsTyped DEF GoneStands
  <2>13. QED
    BY <2>7, <2>8, <2>9, <2>10, <2>11, <2>12 DEF PickerInv
<1>5. CASE routePicker.place # "canvas"
  <2>1. Renders([w EXCEPT !.open = FALSE]) /\ routeCalls' = routeCalls
    BY <1>2, <1>3, <1>5 DEF Dismissed
  <2>2. PICK p : p = [w EXCEPT !.open = FALSE]
    OBVIOUS
  <2>3. /\ p \in Pickers /\ p.attempted = w.attempted /\ p.targets = w.targets
        /\ p.waiting = w.waiting /\ p.loading = w.loading /\ p.values = w.values /\ p.selected = w.selected
    BY <2>2 DEF Pickers
  <2>4. /\ routeHistory'.asked = routeHistory.asked /\ routeHistory'.givenFor = routeHistory.givenFor
        /\ DOMAIN routeHistory' = {"asked", "givenFor", "link"}
    BY <1>1, <1>5 DEF Forgotten, PickerTypes
  <2>5. ValuesStand(p, routeHistory'.givenFor) /\ routeHistory'.givenFor \in [Parameters -> Routes \cup {NoRoute}]
    BY <1>1, <1>3, <2>3, <2>4 DEF PickerInv, ValuesStand, PickerTypes
  <2>6. Renders(p) /\ routePicker.due = {} /\ GoneStands(p, routeHistory'.asked)
    BY <1>3, <1>5, <2>2, <2>1 DEF Pickers, Works, GoneStands
  <2>7. QED
    BY <1>3, <2>1, <2>3, <2>4, <2>5, <2>6, RenderKeeps
<1>6. QED
  BY <1>4, <1>5

\* The picker is opened.
LEMMA OpenRoutesKeeps == ASSUME PickerInv, OpenRoutes PROVE PickerInv'
<1>1. PickerTypes /\ routePicker \in Pickers
  BY DEF PickerInv, PickerTypes
<1>2. PICK w \in Pickers : w = Worked
  BY WorkedIsTyped
<1>3. /\ w.attempted = routePicker.attempted /\ w.targets = routePicker.targets
      /\ w.waiting = routePicker.waiting /\ w.loading = routePicker.loading /\ w.values = routePicker.values
      /\ w.selected = routePicker.selected /\ w.place = routePicker.place /\ w.open = routePicker.open
  BY <1>1, <1>2 DEF Worked, Pickers
<1>4. routeCalls' = routeCalls /\ routeHistory' = routeHistory /\ routePicker.due = {}
  BY DEF OpenRoutes, Works
<1>5. CASE routePicker.place = "canvas"
  <2>1. routePicker' = [FreshPicker("canvas", TRUE) EXCEPT !.work = w.work]
    BY <1>2, <1>5 DEF OpenRoutes
  <2>2. PICK p \in Pickers : p = FreshPicker("canvas", TRUE)
    BY FreshIsTyped
  <2>3. /\ p.waiting = {} /\ p.loading = FALSE /\ p.values = [q \in Parameters |-> 0] /\ "targets" \in p.due
        /\ p.attempted = FALSE /\ p.targets = [s \in TargetSources |-> "unknown"]
    BY <2>2 DEF FreshPicker
  <2>4. w.work \in Nat
    BY DEF Pickers
  <2>5. /\ routePicker' \in Pickers /\ routePicker'.waiting = {} /\ routePicker'.loading = FALSE
        /\ routePicker'.values = [q \in Parameters |-> 0] /\ "targets" \in routePicker'.due
    BY <2>1, <2>2, <2>3, <2>4 DEF Pickers
  <2>6. \A c \in RouteCalls : routeHistory'.asked[c] = 0
    BY <1>4, <1>5 DEF OpenRoutes, PickerInv, GoneStands
  <2>7. "catalog" \in RouteCalls /\ TargetSources \subseteq RouteCalls
    BY DEF RouteCalls
  <2>8. PickerTypes'
    BY <1>1, <1>4, <2>5 DEF PickerTypes
  <2>9. AsksStand(routePicker', routeHistory'.asked)
    BY <2>6, <2>7 DEF AsksStand
  <2>10. CallsStand(routePicker', routeCalls') /\ EffectsStand(routePicker')
    BY <2>5 DEF CallsStand, EffectsStand
  <2>11. ValuesStand(routePicker', routeHistory'.givenFor)
    BY <2>5 DEF ValuesStand
  <2>12. GoneStands(routePicker', routeHistory'.asked)
    <3>1. routePicker'.open
      BY <2>2, <2>1 DEF FreshPicker, Pickers
    <3>2. QED
      BY <3>1 DEF GoneStands
  <2>13. QED
    BY <2>8, <2>9, <2>10, <2>11, <2>12 DEF PickerInv
<1>6. CASE routePicker.place # "canvas"
  <2>1. Renders([w EXCEPT !.open = TRUE])
    BY <1>2, <1>6 DEF OpenRoutes
  <2>2. PICK p : p = [w EXCEPT !.open = TRUE]
    OBVIOUS
  <2>3. /\ p \in Pickers /\ p.attempted = w.attempted /\ p.targets = w.targets
        /\ p.waiting = w.waiting /\ p.loading = w.loading /\ p.values = w.values /\ p.selected = w.selected
    BY <2>2 DEF Pickers
  <2>4. ValuesStand(p, routeHistory'.givenFor) /\ routeHistory'.givenFor \in [Parameters -> Routes \cup {NoRoute}]
        /\ DOMAIN routeHistory' = {"asked", "givenFor", "link"}
    BY <1>1, <1>3, <1>4, <2>3 DEF PickerInv, ValuesStand, PickerTypes
  <2>5. GoneStands(p, routeHistory'.asked)
    BY <1>3, <1>6, <2>2 DEF GoneStands, Pickers
  <2>6. QED
    BY <1>3, <1>4, <2>1, <2>2, <2>3, <2>4, <2>5, RenderKeeps
<1>7. QED
  BY <1>5, <1>6

\* The user closes it, links a route, chooses one, or gives a value.
LEMMA UserKeeps ==
    ASSUME PickerInv,
           CloseRoutes \/ LinkRoute \/ ToggleReadOnly \/ (\E r \in Routes : ChooseRoute(r))
              \/ (\E q \in Parameters : GiveValue(q))
    PROVE  PickerInv'
<1>1. PickerTypes /\ routePicker \in Pickers
  BY DEF PickerInv, PickerTypes
<1>2. PICK w \in Pickers : w = Worked
  BY WorkedIsTyped
<1>3. /\ w.attempted = routePicker.attempted /\ w.targets = routePicker.targets
      /\ w.waiting = routePicker.waiting /\ w.loading = routePicker.loading /\ w.values = routePicker.values
      /\ w.selected = routePicker.selected /\ w.place = routePicker.place /\ w.open = routePicker.open
  BY <1>1, <1>2 DEF Worked, Pickers
<1>4. ValuesStand(routePicker, routeHistory.givenFor) /\ GoneStands(routePicker, routeHistory.asked)
  BY DEF PickerInv
<1>5. /\ routeHistory.givenFor \in [Parameters -> Routes \cup {NoRoute}]
      /\ DOMAIN routeHistory = {"asked", "givenFor", "link"}
  BY <1>1 DEF PickerTypes
<1>6. DOMAIN Forgotten(routeHistory) = {"asked", "givenFor", "link"}
  BY <1>5 DEF Forgotten, NothingEntered
<1>7. ASSUME CloseRoutes PROVE PickerInv'
  BY <1>7, <1>6, DismissedKeeps DEF CloseRoutes
<1>8. ASSUME LinkRoute PROVE PickerInv'
  <2>1. PICK link : routeHistory' = [Forgotten(routeHistory) EXCEPT !.link = link]
    BY <1>8 DEF LinkRoute
  <2>2. QED
    BY <1>6, <2>1, <1>8, DismissedKeeps DEF LinkRoute
<1>9. ASSUME ToggleReadOnly PROVE PickerInv'
  <2>1. Renders([w EXCEPT !.readOnly = ~@]) /\ routeCalls' = routeCalls /\ routeHistory' = routeHistory
        /\ routePicker.due = {}
    BY <1>2, <1>9 DEF ToggleReadOnly, Works
  <2>2. PICK p : p = [w EXCEPT !.readOnly = ~@]
    OBVIOUS
  <2>3. /\ p \in Pickers /\ p.attempted = w.attempted /\ p.targets = w.targets
        /\ p.waiting = w.waiting /\ p.loading = w.loading /\ p.values = w.values /\ p.selected = w.selected
        /\ p.place = w.place /\ p.open = w.open
    BY <2>2 DEF Pickers
  <2>4. ValuesStand(p, routeHistory'.givenFor) /\ GoneStands(p, routeHistory'.asked)
    BY <1>3, <1>4, <2>1, <2>3 DEF ValuesStand, GoneStands
  <2>5. QED
    BY <1>3, <1>5, <2>1, <2>2, <2>3, <2>4, RenderKeeps
<1>10. ASSUME NEW r \in Routes, ChooseRoute(r) PROVE PickerInv'
  <2>1. CASE DOMAIN SourcesOf[r] = {}
    BY <1>10, <2>1, <1>6, DismissedKeeps DEF ChooseRoute
  <2>2. CASE DOMAIN SourcesOf[r] # {}
    <3>1. Renders([w EXCEPT !.selected = r, !.values = Emptied(@)]) /\ routeCalls' = routeCalls
          /\ routeHistory' = routeHistory /\ routePicker.due = {} /\ routePicker.open
      BY <1>2, <1>10, <2>2 DEF ChooseRoute, Works
    <3>2. PICK empty \in [Parameters -> 0..2] : empty = Emptied(w.values) /\ \A q \in Parameters : empty[q] = 0
      <4>1. Emptied(w.values) = [q \in Parameters |-> 0] /\ 0 \in 0..2
        BY DEF Emptied
      <4>2. Emptied(w.values) \in [Parameters -> 0..2] /\ \A q \in Parameters : Emptied(w.values)[q] = 0
        BY <4>1
      <4>3. QED
        BY <4>2
    <3>3. PICK p : p = [w EXCEPT !.selected = r, !.values = empty]
      OBVIOUS
    <3>4. [w EXCEPT !.selected = r, !.values = Emptied(@)] = p
      BY <3>2, <3>3 DEF Pickers
    <3>5. /\ p \in Pickers /\ p.attempted = w.attempted /\ p.targets = w.targets
          /\ p.waiting = w.waiting /\ p.loading = w.loading /\ p.values = empty
          /\ p.place = w.place /\ p.open = w.open
      BY <3>3 DEF Pickers
    <3>6. ValuesStand(p, routeHistory'.givenFor) /\ GoneStands(p, routeHistory'.asked)
      BY <1>3, <3>1, <3>2, <3>5 DEF ValuesStand, GoneStands
    <3>7. Renders(p)
      BY <3>1, <3>4
    <3>8. QED
      BY <1>3, <1>5, <3>1, <3>5, <3>6, <3>7, RenderKeeps
  <2>3. QED
    BY <2>1, <2>2
<1>11. ASSUME NEW q \in Parameters, GiveValue(q) PROVE PickerInv'
  <2>1. PICK v \in Offers(SourcesOf[routePicker.selected][q]) : Renders([w EXCEPT !.values[q] = v])
    BY <1>2, <1>11 DEF GiveValue
  <2>2. v \in 0..2
    BY DEF Offers
  <2>3. PICK values \in [Parameters -> 0..2] :
          values = [w.values EXCEPT ![q] = v] /\ \A o \in Parameters \ {q} : values[o] = w.values[o]
    <3>1. w.values \in [Parameters -> 0..2]
      BY DEF Pickers
    <3>2. QED
      BY <2>2, <3>1
  <2>4. PICK p : p = [w EXCEPT !.values = values]
    OBVIOUS
  <2>5. [w EXCEPT !.values[q] = v] = p
    BY <2>3, <2>4 DEF Pickers
  <2>6. /\ p \in Pickers /\ p.attempted = w.attempted /\ p.targets = w.targets
        /\ p.waiting = w.waiting /\ p.loading = w.loading /\ p.values = values /\ p.selected = w.selected
        /\ p.place = w.place /\ p.open = w.open
    BY <2>4 DEF Pickers
  <2>7. /\ routePicker.selected \in Routes \cup {NoRoute} /\ routePicker.due = {} /\ routePicker.open
        /\ routeCalls' = routeCalls
        /\ routeHistory' = [routeHistory EXCEPT !.givenFor[q] = routePicker.selected]
    BY <1>11, <1>1 DEF GiveValue, Works, Pickers
  <2>8. PICK given \in [Parameters -> Routes \cup {NoRoute}] :
          /\ given = [routeHistory.givenFor EXCEPT ![q] = routePicker.selected]
          /\ given[q] = routePicker.selected /\ \A o \in Parameters \ {q} : given[o] = routeHistory.givenFor[o]
    BY <1>5, <2>7
  <2>9. routeHistory'.givenFor = given /\ routeHistory'.asked = routeHistory.asked
        /\ DOMAIN routeHistory' = {"asked", "givenFor", "link"}
    BY <1>5, <2>7, <2>8
  <2>10. ValuesStand(p, routeHistory'.givenFor)
    BY <1>3, <1>4, <2>3, <2>6, <2>8, <2>9 DEF ValuesStand
  <2>11. GoneStands(p, routeHistory'.asked) /\ Renders(p)
    BY <1>3, <2>1, <2>5, <2>6, <2>7 DEF GoneStands
  <2>12. QED
    BY <1>3, <2>6, <2>7, <2>9, <2>10, <2>11, RenderKeeps
<1>12. QED
  BY <1>7, <1>8, <1>9, <1>10, <1>11

\* Every step keeps the picker sound.
LEMMA PickerKept == PickerInv /\ [RoutePickerNext]_routePickerVars => PickerInv'
BY RunEffectsKeeps, AnswersKeep, OpenRoutesKeeps, UserKeeps DEF routePickerVars, PickerInv,
   PickerTypes, RoutePickerNext

\* What the invariant says of the picker.
LEMMA PickerIsRight ==
    PickerInv => RoutePickerTypeOK /\ AskedOnce /\ SaysWhatItKnows /\ ValuesOfThisRoute
<1> SUFFICES ASSUME PickerInv PROVE RoutePickerTypeOK /\ AskedOnce /\ SaysWhatItKnows /\ ValuesOfThisRoute
  OBVIOUS
<1>1. RoutePickerTypeOK
  BY DEF PickerInv, PickerTypes, Pickers, RoutePickerTypeOK
<1>2. AskedOnce
  BY DEF RouteCalls, PickerInv, AsksStand, AskedOnce
<1>3. SaysWhatItKnows
  BY DEF PickerInv, CallsStand, EffectsStand, MissedBy, NeededBy, SourcesOfSelected, SaysWhatItKnows
<1>4. ValuesOfThisRoute
  BY DEF PickerInv, ValuesStand, ValuesOfThisRoute
<1>5. QED
  BY <1>1, <1>2, <1>3, <1>4
-----------------------------------------------------------------------------
(***************************************************************************)
(* The installation of site kits. A request has one number; a post that    *)
(* may still install is of the request that the tab has stored, until the  *)
(* server knows it.                                                        *)
(***************************************************************************)

\* The requests of an installation, and what was answered.
KitPosts == [request : 1..MaxRequests, address : Addresses, version : 1..MaxKitReleases, no : Nat,
             answer : {"none", "receipt", "rejected", "failed"}, heard : BOOLEAN]

\* The states of the dialog.
KitDialogs ==
    [open : BOOLEAN, catalog : {"loading", "here", "failed"}, selected : BOOLEAN,
     preview : [version : 0..MaxKitReleases, can : BOOLEAN], busy : {"no", "checking", "installing"},
     pending : KitInputs \cup {NoKit}, receipt : 0..MaxRequests \cup {NoKit}, address : Addresses]

\* The variables have their types.
KitTypes ==
    /\ kitVersion \in 1..MaxKitReleases
    /\ kitTaken \subseteq Addresses /\ kitSites \subseteq KitInputs /\ kitPosts \subseteq KitPosts
    /\ kitStored \in KitInputs \cup {NoKit} \cup [receipt : 1..MaxRequests]
    /\ kitDialog \in KitDialogs
    /\ kitNumbers \in [request : Nat, post : Nat]

\* What is stored, sent and installed under one identity is one request.
KitRequests == {InputOf(m) : m \in kitPosts} \cup kitSites \cup (KitInputs \cap {kitStored})

\* Requests with one number are one request.
RequestsAgree ==
    \A i \in KitRequests :
        /\ i.request <= kitNumbers.request /\ i.version <= kitVersion
        /\ \A j \in KitRequests : i.request = j.request => i = j

\* What may not be installed any more.
KitDead(i) == i.version < kitVersion \/ (RowOf(i) = {} /\ ~Free(i.address))

\* A post that may still install is of the request that the tab has stored.
PostsStand ==
    \A m \in kitPosts :
        /\ m.request \in kitKnown \/ kitStored = InputOf(m) \/ KitDead(m)
        /\ m.answer = "rejected" => KitDead(m)

\* The dialog waits for what the tab has stored.
DialogStands ==
    /\ kitDialog.pending = IF kitDialog.open /\ kitStored \in KitInputs THEN kitStored ELSE NoKit
    /\ kitDialog.preview.version <= kitVersion
    /\ kitDialog.preview.can => kitDialog.preview.version >= 1

\* A dialog that is installing hears one post, of the request that is stored.
HeardStand ==
    /\ \A m \in kitPosts : m.heard =>
          /\ kitDialog.open /\ kitDialog.busy = "installing" /\ kitStored = InputOf(m)
          /\ \A n \in kitPosts : n.heard => n = m
    /\ kitDialog.busy = "installing" => \E m \in kitPosts : m.heard

\* The inductive invariant of the installation of site kits.
KitInv == KitTypes /\ RequestsAgree /\ PostsStand /\ DialogStands /\ HeardStand /\ NoSiteIsForgotten

\* What the types say, in fields.
LEMMA KitTypeFacts ==
    ASSUME KitTypes
    PROVE /\ kitVersion \in 1..MaxKitReleases /\ kitVersion \in Nat
          /\ kitTaken \subseteq Addresses /\ kitSites \subseteq KitInputs /\ kitPosts \subseteq KitPosts
          /\ kitStored \in KitInputs \cup {NoKit} \cup [receipt : 1..MaxRequests]
          /\ kitDialog \in KitDialogs /\ kitDialog.preview.version \in Nat
          /\ kitDialog.busy \in {"no", "checking", "installing"}
          /\ kitDialog.pending \in KitInputs \cup {NoKit}
          /\ kitNumbers.request \in Nat /\ kitNumbers.post \in Nat
BY SiteKitAssumption DEF KitTypes, KitDialogs

\* A post is of a request.
LEMMA PostIsARequest ==
    ASSUME NEW m \in KitPosts
    PROVE /\ InputOf(m) \in KitInputs
          /\ InputOf(m).request = m.request /\ InputOf(m).address = m.address
          /\ InputOf(m).version = m.version
          /\ m.request \in Nat /\ m.version \in Nat /\ m.version \in 1..MaxKitReleases
BY SiteKitAssumption DEF InputOf, KitInputs, KitPosts

\* A request has its type.
LEMMA RequestIsTyped ==
    ASSUME NEW i \in KitInputs
    PROVE i.request \in Nat /\ i.version \in Nat /\ i.address \in Addresses /\ i.request \in 1..MaxRequests
BY SiteKitAssumption DEF KitInputs

\* Requests with the same fields are the same.
LEMMA SameRequest ==
    ASSUME NEW i \in KitInputs, NEW j \in KitInputs,
           i.request = j.request, i.address = j.address, i.version = j.version
    PROVE i = j
BY DEF KitInputs

\* A receipt is no request.
LEMMA NotInstalledYet == \A r \in [receipt : 1..MaxRequests] : r \notin KitInputs
BY DEF KitInputs

\* Nothing is no request.
LEMMA NothingIsNoRequest == NoKit \notin KitInputs
BY SiteKitAssumption DEF KitInputs

\* The dialog when it is opened, and when it is closed.
LEMMA OpenedIsTyped ==
    ASSUME KitTypes
    PROVE /\ OpenedDialog \in KitDialogs /\ ClosedDialog \in KitDialogs
          /\ OpenedDialog.pending = IF kitStored \in KitInputs THEN kitStored ELSE NoKit
          /\ OpenedDialog.open /\ OpenedDialog.busy = "no" /\ OpenedDialog.preview = NoPreview
          /\ ~ClosedDialog.open /\ ClosedDialog.busy = "no" /\ ClosedDialog.preview = NoPreview
          /\ ClosedDialog.pending = NoKit
  <1> DEFINE first == CHOOSE a \in Addresses : TRUE
  <1>1. first \in Addresses
    BY SiteKitAssumption
  <1>2. NoPreview \in [version : 0..MaxKitReleases, can : BOOLEAN]
    BY SiteKitAssumption DEF NoPreview
  <1>3. PICK p \in KitInputs \cup {NoKit} : p = IF kitStored \in KitInputs THEN kitStored ELSE NoKit
    OBVIOUS
  <1>4. PICK r \in 0..MaxRequests \cup {NoKit} :
            r = IF kitStored # NoKit /\ kitStored \notin KitInputs THEN kitStored.receipt ELSE NoKit
    <2>1. kitStored # NoKit /\ kitStored \notin KitInputs => kitStored \in [receipt : 1..MaxRequests]
      BY KitTypeFacts
    <2>2. kitStored # NoKit /\ kitStored \notin KitInputs => kitStored.receipt \in 0..MaxRequests
      BY <2>1, SiteKitAssumption
    <2>. QED
      BY <2>2
  <1>5. PICK a \in Addresses : a = IF kitStored \in KitInputs THEN kitStored.address ELSE first
    BY <1>1, RequestIsTyped
  <1>6. OpenedDialog = [open |-> TRUE, catalog |-> "loading", selected |-> FALSE, preview |-> NoPreview,
                        busy |-> "no", pending |-> p, receipt |-> r, address |-> a]
    BY <1>3, <1>4, <1>5 DEF OpenedDialog
  <1>7. OpenedDialog \in KitDialogs
    BY <1>2, <1>6 DEF KitDialogs
  <1>8. ClosedDialog = [OpenedDialog EXCEPT !.open = FALSE, !.pending = NoKit, !.receipt = NoKit, !.address = first]
    BY DEF ClosedDialog
  <1> HIDE DEF first
  <1>9. ClosedDialog \in KitDialogs
    BY <1>1, <1>7, <1>8 DEF KitDialogs
  <1>. QED
    BY <1>3, <1>6, <1>7, <1>8, <1>9 DEF KitDialogs

\* Nothing is installed and nothing asked for.
LEMMA KitsStart ==
    ASSUME SiteKitsInit
    PROVE KitInv
  <1> USE DEF SiteKitsInit
  <1>1. KitTypes
    <2>1. kitStored \in KitInputs \cup {NoKit} \cup [receipt : 1..MaxRequests]
      OBVIOUS
    <2>2. kitDialog \in KitDialogs
      <3>1. kitStored = NoKit
        OBVIOUS
      <3>2. NoPreview \in [version : 0..MaxKitReleases, can : BOOLEAN]
        BY SiteKitAssumption DEF NoPreview
      <3>3. PICK first \in Addresses : first = CHOOSE a \in Addresses : TRUE
        BY SiteKitAssumption
      <3>4. OpenedDialog = [open |-> TRUE, catalog |-> "loading", selected |-> FALSE, preview |-> NoPreview,
                            busy |-> "no", pending |-> NoKit, receipt |-> NoKit, address |-> first]
        BY <3>1, <3>3, NothingIsNoRequest DEF OpenedDialog
      <3>5. OpenedDialog \in KitDialogs
        BY <3>2, <3>4 DEF KitDialogs
      <3>. QED
        BY <3>3, <3>5 DEF KitDialogs, ClosedDialog
    <2>3. 1 \in 1..MaxKitReleases
      BY SiteKitAssumption
    <2>. QED
      BY <2>1, <2>2, <2>3 DEF KitTypes
  <1>2. KitRequests = {}
    BY NothingIsNoRequest DEF KitRequests
  <1>3. DialogStands /\ HeardStand
    BY <1>1, OpenedIsTyped, NothingIsNoRequest DEF DialogStands, HeardStand, NoPreview
  <1>. QED
    BY <1>1, <1>2, <1>3 DEF KitInv, RequestsAgree, PostsStand, NoSiteIsForgotten

\* Requests that become fewer agree as before.
LEMMA FewerRequests ==
    ASSUME KitTypes, RequestsAgree, KitRequests' \subseteq KitRequests,
           kitNumbers'.request \in Nat, kitNumbers'.request >= kitNumbers.request,
           kitVersion' \in Nat, kitVersion' >= kitVersion
    PROVE RequestsAgree'
BY KitTypeFacts, PostIsARequest, RequestIsTyped DEF KitRequests, RequestsAgree

\* A step of the dialog that posts nothing.
LEMMA DialogMoves ==
    ASSUME KitInv, kitDialog' \in KitDialogs,
           UNCHANGED <<kitVersion, kitTaken, kitSites, kitPosts, kitStored, kitNumbers, kitKnown>>,
           DialogStands',
           \/ kitDialog'.busy = kitDialog.busy /\ kitDialog'.open = kitDialog.open
           \/ kitDialog.busy # "installing" /\ kitDialog'.busy # "installing"
    PROVE KitInv'
  <1>1. KitTypes'
    BY DEF KitInv, KitTypes
  <1>2. RequestsAgree'
    BY KitTypeFacts, FewerRequests DEF KitInv, KitRequests
  <1>3. PostsStand'
    BY DEF KitInv, PostsStand, KitDead, RowOf, Free
  <1>4. HeardStand'
    BY DEF KitInv, HeardStand
  <1>. QED
    BY <1>1, <1>2, <1>3, <1>4 DEF KitInv, NoSiteIsForgotten

\* The fields of the dialog.
LEMMA DialogIsTyped ==
    ASSUME KitInv
    PROVE /\ kitDialog \in KitDialogs /\ kitVersion \in Nat /\ kitVersion \in 1..MaxKitReleases
          /\ kitDialog.preview \in [version : 0..MaxKitReleases, can : BOOLEAN]
          /\ kitDialog.address \in Addresses
          /\ NoPreview \in [version : 0..MaxKitReleases, can : BOOLEAN]
          /\ NoPreview.version = 0 /\ ~NoPreview.can
BY KitTypeFacts, SiteKitAssumption DEF KitInv, KitDialogs, NoPreview

\* The dialog is opened or closed.
LEMMA DialogStepsKeep ==
    ASSUME KitInv, OpenKits \/ CloseKits
    PROVE KitInv'
  <1> USE DEF Dialog
  <1>0. KitTypes
    BY DEF KitInv
  <1>1. CASE OpenKits
    BY <1>1, <1>0, OpenedIsTyped, DialogIsTyped, DialogMoves DEF OpenKits, KitInv, HeardStand,
       DialogStands
  <1>2. CASE CloseKits
    <2>2. DialogStands'
      BY <1>0, <1>2, OpenedIsTyped, DialogIsTyped DEF CloseKits, DialogStands
    <2>. QED
      BY <1>0, <1>2, <2>2, OpenedIsTyped, DialogMoves DEF CloseKits, Shows
  <1>. QED
    BY <1>1, <1>2

\* The catalog arrives, or is asked for again.
LEMMA CatalogKeeps ==
    ASSUME KitInv, CatalogCame \/ AskCatalogAgain
    PROVE KitInv'
BY DialogIsTyped, DialogMoves DEF CatalogCame, AskCatalogAgain, Dialog, KitDialogs, KitInv,
   DialogStands

\* The kit is ticked, or its address edited.
LEMMA FieldsKeep ==
    ASSUME KitInv, ChooseKit \/ EditAddress
    PROVE KitInv'
  <1>0. PICK first \in Addresses : first = CHOOSE a \in Addresses : TRUE
    BY SiteKitAssumption
  <1>1. PICK a \in Addresses, ticked \in BOOLEAN :
            Dialog([kitDialog EXCEPT !.selected = ticked, !.preview = NoPreview, !.address = a])
    <2>1. CASE ChooseKit
      BY <1>0, <2>1 DEF ChooseKit
    <2>2. CASE EditAddress
      <3>1. PICK a \in Addresses : Dialog([kitDialog EXCEPT !.address = a, !.preview = NoPreview])
        BY <2>2 DEF EditAddress
      <3>2. kitDialog.selected = TRUE
        BY <2>2, DialogIsTyped DEF EditAddress, KitDialogs
      <3>3. [kitDialog EXCEPT !.address = a, !.preview = NoPreview]
                = [kitDialog EXCEPT !.selected = TRUE, !.preview = NoPreview, !.address = a]
        BY <3>2, DialogIsTyped DEF KitDialogs
      <3>. QED
        BY <3>1, <3>3
    <2>. QED
      BY <2>1, <2>2
  <1>2. /\ kitDialog' \in KitDialogs /\ kitDialog'.pending = kitDialog.pending /\ kitDialog'.open = kitDialog.open
        /\ kitDialog'.preview = NoPreview /\ kitDialog'.busy = kitDialog.busy
    BY <1>1, DialogIsTyped DEF Dialog, KitDialogs
  <1>3. DialogStands'
    BY <1>1, <1>2, DialogIsTyped DEF KitInv, DialogStands, Dialog
  <1>. QED
    BY <1>1, <1>2, <1>3, DialogMoves DEF Dialog

\* The kit is checked, or its check arrives.
LEMMA CheckKeeps ==
    ASSUME KitInv, CheckKit \/ KitChecked
    PROVE KitInv'
  <1>1. PICK work \in {"checking", "no"}, preview \in {kitDialog.preview,
                 [version |-> kitVersion, can |-> Free(kitDialog.address)]} :
            Dialog([kitDialog EXCEPT !.busy = work, !.preview = preview])
    <2>1. CASE CheckKit
      BY <2>1, DialogIsTyped DEF CheckKit, KitDialogs
    <2>2. CASE Dialog([kitDialog EXCEPT !.busy = "no",
                           !.preview = [version |-> kitVersion, can |-> Free(kitDialog.address)]])
      BY <2>2
    <2>3. CASE Dialog([kitDialog EXCEPT !.busy = "no"])
      BY <2>3, DialogIsTyped DEF KitDialogs
    <2>. QED
      BY <2>1, <2>2, <2>3 DEF KitChecked
  <1>2. kitDialog.busy # "installing"
    BY DEF CheckKit, KitChecked, Choosing, Shows
  <1>3. Free(kitDialog.address) \in BOOLEAN
    BY DEF Free
  <1>4. /\ preview \in [version : 0..MaxKitReleases, can : BOOLEAN]
        /\ preview.version <= kitVersion /\ (preview.can => preview.version >= 1)
    BY <1>3, <1>1, DialogIsTyped, SiteKitAssumption DEF KitInv, DialogStands
  <1>5. /\ kitDialog' \in KitDialogs /\ kitDialog'.pending = kitDialog.pending /\ kitDialog'.open = kitDialog.open
        /\ kitDialog'.preview = preview /\ kitDialog'.busy = work
    BY <1>1, <1>4, DialogIsTyped DEF Dialog, KitDialogs
  <1>6. DialogStands'
    BY <1>1, <1>4, <1>5 DEF KitInv, DialogStands, Dialog
  <1>. QED
    BY <1>1, <1>2, <1>5, <1>6, DialogMoves DEF Dialog

\* The fields of a post.
LEMMA PostFacts ==
    ASSUME KitInv, NEW m \in kitPosts
    PROVE /\ m \in KitPosts /\ InputOf(m) \in KitInputs /\ InputOf(m) \in KitRequests
          /\ InputOf(m).request = m.request /\ InputOf(m).address = m.address
          /\ InputOf(m).version = m.version
          /\ m.request \in Nat /\ m.version \in Nat /\ m.request <= kitNumbers.request /\ m.version <= kitVersion
BY KitTypeFacts, PostIsARequest DEF KitInv, KitRequests, RequestsAgree

\* The fields of a site.
LEMMA SiteFacts ==
    ASSUME KitInv, NEW s \in kitSites
    PROVE /\ s \in KitInputs /\ s \in KitRequests /\ s.request \in Nat /\ s.version \in Nat
          /\ s.version <= kitVersion
BY KitTypeFacts, RequestIsTyped DEF KitInv, KitRequests, RequestsAgree

\* Somebody else takes an address, or a kit is released.
LEMMA OthersKeep ==
    ASSUME KitInv, OtherTakesAddress \/ ReleaseKit
    PROVE KitInv'
  <1>0. KitTypes
    BY DEF KitInv
  <1>1. /\ kitVersion' \in 1..MaxKitReleases /\ kitVersion' \in Nat /\ kitVersion' >= kitVersion
        /\ kitTaken \subseteq kitTaken' /\ kitTaken' \subseteq Addresses
        /\ UNCHANGED <<kitSites, kitPosts, kitStored, kitDialog, kitNumbers, kitKnown>>
    BY <1>0, KitTypeFacts, SiteKitAssumption DEF OtherTakesAddress, ReleaseKit
  <1>2. KitTypes'
    BY <1>1 DEF KitInv, KitTypes
  <1>3. RequestsAgree'
    BY <1>0, <1>1, KitTypeFacts, FewerRequests DEF KitInv, KitRequests
  <1>4. \A m \in kitPosts : KitDead(m) => KitDead(m)'
    BY <1>0, <1>1, PostFacts, KitTypeFacts DEF KitDead, RowOf, Free
  <1>5. PostsStand'
    BY <1>1, <1>4 DEF KitInv, PostsStand
  <1>6. DialogStands'
    BY <1>0, <1>1, KitTypeFacts DEF KitInv, DialogStands
  <1>7. NoSiteIsForgotten'
    BY <1>0, <1>1, SiteFacts, KitTypeFacts DEF KitInv, NoSiteIsForgotten
  <1>8. HeardStand'
    BY <1>1 DEF KitInv, HeardStand
  <1>. QED
    BY <1>2, <1>3, <1>5, <1>6, <1>7, <1>8 DEF KitInv

\* A post that is not heard any more.
LEMMA UnheardPost ==
    ASSUME NEW m \in KitPosts, NEW n, n = [m EXCEPT !.heard = FALSE]
    PROVE /\ n \in KitPosts /\ ~n.heard /\ InputOf(n) = InputOf(m) /\ n.answer = m.answer
          /\ n.request = m.request /\ n.address = m.address /\ n.version = m.version
BY DEF KitPosts, InputOf

\* A post that is answered.
LEMMA AnsweredPost ==
    ASSUME NEW m \in KitPosts, NEW answer \in {"receipt", "rejected", "failed"},
           NEW n, n = [m EXCEPT !.answer = answer]
    PROVE /\ n \in KitPosts /\ n.heard = m.heard /\ InputOf(n) = InputOf(m) /\ n.answer = answer
          /\ n.request = m.request /\ n.address = m.address /\ n.version = m.version
BY DEF KitPosts, InputOf

\* The tab is loaded again: what it stored is there.
LEMMA ReloadKeeps ==
    ASSUME KitInv, ReloadTab
    PROVE KitInv'
  <1>0. KitTypes
    BY DEF KitInv
  <1>1. /\ kitDialog' = ClosedDialog
        /\ UNCHANGED <<kitVersion, kitTaken, kitSites, kitStored, kitNumbers, kitKnown>>
    BY DEF ReloadTab
  <1>2. \A n \in kitPosts' : \E m \in kitPosts :
            /\ m.answer = "none" /\ n = [m EXCEPT !.heard = FALSE] /\ m \in KitPosts
    BY PostFacts DEF ReloadTab
  <1>3. \A n \in kitPosts' : n \in KitPosts /\ ~n.heard /\ n.answer = "none"
    BY <1>2, UnheardPost
  <1>4. KitTypes'
    BY <1>0, <1>1, <1>3, OpenedIsTyped DEF KitTypes
  <1>5. KitRequests' \subseteq KitRequests
    BY <1>1, <1>2, UnheardPost DEF KitRequests
  <1>6. RequestsAgree'
    BY <1>0, <1>1, <1>5, KitTypeFacts, FewerRequests DEF KitInv
  <1>7. PostsStand'
    <2>1. \A i \in KitPosts, j \in KitPosts :
              i.request = j.request /\ i.address = j.address /\ i.version = j.version /\ KitDead(i) => KitDead(j)'
      BY <1>1 DEF KitDead, RowOf, Free
    <2>2. SUFFICES ASSUME NEW n \in kitPosts'
                   PROVE n.request \in kitKnown' \/ kitStored' = InputOf(n) \/ KitDead(n)'
      BY <1>3 DEF PostsStand
    <2>3. PICK m \in kitPosts : m \in KitPosts /\ n = [m EXCEPT !.heard = FALSE]
      BY <1>2
    <2>4. m.request \in kitKnown \/ kitStored = InputOf(m) \/ KitDead(m)
      BY DEF KitInv, PostsStand
    <2>5. n \in KitPosts /\ InputOf(n) = InputOf(m) /\ m.request = n.request /\ m.address = n.address /\ m.version = n.version
      BY <2>3, UnheardPost
    <2>6. KitDead(m) => KitDead(n)'
      BY <2>1, <2>3, <2>5
    <2>. QED
      BY <1>1, <2>4, <2>5, <2>6, Zenon
  <1>8. DialogStands'
    BY <1>0, <1>1, OpenedIsTyped, DialogIsTyped DEF DialogStands
  <1>9. HeardStand'
    BY <1>0, <1>1, <1>3, OpenedIsTyped DEF HeardStand
  <1>. QED
    BY <1>1, <1>4, <1>6, <1>7, <1>8, <1>9 DEF KitInv, NoSiteIsForgotten

\* Another kit is begun.
LEMMA ResetKeeps ==
    ASSUME KitInv, ResetKit
    PROVE KitInv'
  <1>0. KitTypes
    BY DEF KitInv
  <1>1. /\ kitStored' = NoKit
        /\ kitDialog' = [kitDialog EXCEPT !.receipt = NoKit, !.selected = FALSE, !.preview = NoPreview]
        /\ UNCHANGED <<kitVersion, kitTaken, kitSites, kitPosts, kitNumbers, kitKnown>>
        /\ kitDialog.open /\ kitDialog.busy = "no" /\ kitDialog.pending = NoKit
    BY DEF ResetKit, Shows
  <1>2. /\ kitDialog' \in KitDialogs /\ kitDialog'.preview = NoPreview /\ kitDialog'.pending = NoKit
        /\ kitDialog'.busy = "no"
    BY <1>1, DialogIsTyped DEF KitDialogs
  <1>3. kitStored \notin KitInputs
    BY <1>1, NothingIsNoRequest DEF KitInv, DialogStands
  <1>4. KitTypes'
    BY <1>0, <1>1, <1>2 DEF KitTypes
  <1>5. KitRequests' \subseteq KitRequests
    BY <1>1, NothingIsNoRequest DEF KitRequests
  <1>6. RequestsAgree'
    BY <1>0, <1>1, <1>5, KitTypeFacts, FewerRequests DEF KitInv
  <1>7. PostsStand'
    BY <1>1, <1>3, PostFacts DEF KitInv, PostsStand, KitDead, RowOf, Free
  <1>8. DialogStands'
    BY <1>1, <1>2, NothingIsNoRequest, DialogIsTyped DEF DialogStands
  <1>9. HeardStand'
    BY <1>1, <1>2 DEF KitInv, HeardStand
  <1>. QED
    BY <1>1, <1>3, <1>4, <1>6, <1>7, <1>8, <1>9 DEF KitInv, NoSiteIsForgotten

\* The answer of a post is lost.
LEMMA LostKeeps ==
    ASSUME KitInv, NEW m \in kitPosts, PostLost(m)
    PROVE KitInv'
  <1>0. KitTypes
    BY DEF KitInv
  <1>1. /\ kitDialog' = [kitDialog EXCEPT !.busy = "no"] /\ kitPosts' = kitPosts \ {m} /\ m.heard
        /\ UNCHANGED <<kitVersion, kitTaken, kitSites, kitStored, kitNumbers, kitKnown>>
    BY DEF PostLost
  <1>2. /\ kitDialog' \in KitDialogs /\ kitDialog'.preview = kitDialog.preview
        /\ kitDialog'.pending = kitDialog.pending /\ kitDialog'.busy = "no" /\ kitDialog'.open = kitDialog.open
    BY <1>1, DialogIsTyped DEF KitDialogs
  <1>4. KitTypes'
    BY <1>0, <1>1, <1>2 DEF KitTypes
  <1>5. KitRequests' \subseteq KitRequests
    BY <1>1 DEF KitRequests
  <1>6. RequestsAgree'
    BY <1>0, <1>1, <1>5, KitTypeFacts, FewerRequests DEF KitInv
  <1>7. PostsStand'
    BY <1>1, PostFacts DEF KitInv, PostsStand, KitDead, RowOf, Free
  <1>8. DialogStands'
    BY <1>1, <1>2 DEF KitInv, DialogStands
  <1>9. HeardStand'
    BY <1>1, <1>2 DEF KitInv, HeardStand
  <1>. QED
    BY <1>1, <1>4, <1>6, <1>7, <1>8, <1>9 DEF KitInv, NoSiteIsForgotten

\* The receipt of a post arrives.
LEMMA ReceiptKeeps ==
    ASSUME KitInv, NEW m \in kitPosts, ReceiptCame(m)
    PROVE KitInv'
  <1>0. KitTypes
    BY DEF KitInv
  <1>1. /\ m.heard /\ kitPosts' = kitPosts \ {m}
        /\ UNCHANGED <<kitVersion, kitTaken, kitSites, kitNumbers>>
    BY DEF ReceiptCame
  <1>2. kitDialog.open /\ kitDialog.busy = "installing" /\ kitStored = InputOf(m)
        /\ \A n \in kitPosts : n.heard => n = m
    BY <1>1 DEF KitInv, HeardStand
  <1>3. InputOf(m) \in KitInputs /\ InputOf(m).request = m.request /\ m \in KitPosts
    BY PostFacts
  <1>4. CASE /\ kitStored' = [receipt |-> m.request]
             /\ kitDialog' = [kitDialog EXCEPT !.receipt = m.request, !.pending = NoKit, !.busy = "no"]
             /\ kitKnown' = kitKnown \cup {m.request}
    <2>1. m.request \in 1..MaxRequests /\ m.request \in 0..MaxRequests \cup {NoKit}
      BY <1>3, SiteKitAssumption DEF KitPosts
    <2>2. kitStored' \in [receipt : 1..MaxRequests] /\ kitStored' \notin KitInputs
      BY <1>4, <2>1, NotInstalledYet
    <2>3. /\ kitDialog' \in KitDialogs /\ kitDialog'.preview = kitDialog.preview
          /\ kitDialog'.pending = NoKit /\ kitDialog'.busy = "no" /\ kitDialog'.open = kitDialog.open
      BY <1>4, <2>1, DialogIsTyped DEF KitDialogs
    <2>4. KitTypes'
      BY <1>0, <1>1, <2>2, <2>3 DEF KitTypes
    <2>5. KitRequests' \subseteq KitRequests
      BY <1>1, <2>2 DEF KitRequests
    <2>6. RequestsAgree'
      BY <1>0, <1>1, <2>5, KitTypeFacts, FewerRequests DEF KitInv
    <2>7. PostsStand'
      BY <1>1, <1>2, <1>3, <1>4, PostFacts DEF PostsStand, KitInv, KitDead, RowOf, Free
    <2>8. DialogStands'
      BY <1>1, <2>2, <2>3 DEF KitInv, DialogStands
    <2>9. HeardStand'
      BY <1>1, <1>2, <2>3 DEF HeardStand
    <2>10. NoSiteIsForgotten'
      BY <1>1, <1>2, <1>3, <1>4 DEF NoSiteIsForgotten, KitInv
    <2>. QED
      BY <2>4, <2>6, <2>7, <2>8, <2>9, <2>10 DEF KitInv
  <1>5. CASE kitDialog' = [kitDialog EXCEPT !.busy = "no"] /\ UNCHANGED <<kitStored, kitKnown>>
    BY <1>1, <1>5, LostKeeps DEF PostLost, ReceiptCame
  <1>. QED
    BY <1>4, <1>5 DEF ReceiptCame

\* The refusal of a post arrives.
LEMMA RefusedKeeps ==
    ASSUME KitInv, NEW m \in kitPosts, PostRefused(m)
    PROVE KitInv'
  <1>0. KitTypes
    BY DEF KitInv
  <1>1. /\ m.heard /\ m.answer # "receipt"
        /\ kitPosts' = (kitPosts \ {m}) \cup IF m.answer = "none" THEN {[m EXCEPT !.heard = FALSE]} ELSE {}
        /\ UNCHANGED <<kitVersion, kitTaken, kitSites, kitNumbers, kitKnown>>
    BY DEF PostRefused
  <1>2. kitDialog.open /\ kitDialog.busy = "installing" /\ kitStored = InputOf(m)
        /\ \A n \in kitPosts : n.heard => n = m
    BY <1>1 DEF KitInv, HeardStand
  <1>3. InputOf(m) \in KitInputs /\ InputOf(m) \in KitRequests /\ InputOf(m).request = m.request /\ m \in KitPosts
    BY PostFacts
  <1>4. \A i \in KitPosts : KitDead(i) <=> KitDead(i)'
    BY <1>1 DEF KitDead, RowOf, Free
  <1>5. CASE m.answer = "rejected"
    <2>0. /\ kitStored' = NoKit /\ kitPosts' = kitPosts \ {m}
          /\ kitDialog' = [kitDialog EXCEPT !.busy = "no", !.pending = NoKit, !.preview = NoPreview]
      BY <1>5 DEF PostRefused, Definitive
    <2>1. KitDead(m)
      BY <1>5 DEF KitInv, PostsStand
    <2>3. /\ kitDialog' \in KitDialogs /\ kitDialog'.preview = NoPreview
          /\ kitDialog'.pending = NoKit /\ kitDialog'.busy = "no" /\ kitDialog'.open = kitDialog.open
      BY <2>0, DialogIsTyped DEF KitDialogs
    <2>4. KitTypes'
      BY <1>0, <1>1, <2>0, <2>3 DEF KitTypes
    <2>5. KitRequests' \subseteq KitRequests
      BY <1>1, <2>0, NothingIsNoRequest DEF KitRequests
    <2>6. RequestsAgree'
      BY <1>0, <1>1, <2>5, KitTypeFacts, FewerRequests DEF KitInv
    <2>7. PostsStand'
      <3>1. SUFFICES ASSUME NEW n \in kitPosts, n # m
                     PROVE /\ n.request \in kitKnown' \/ KitDead(n)'
                           /\ n.answer = "rejected" => KitDead(n)'
        BY <2>0 DEF PostsStand
      <3>2. n.request \in kitKnown \/ kitStored = InputOf(n) \/ KitDead(n)
        BY DEF KitInv, PostsStand
      <3>3. n.answer = "rejected" => KitDead(n)
        BY DEF KitInv, PostsStand
      <3>4. KitDead(n) <=> KitDead(n)'
        BY <1>4, PostFacts
      <3>5. ASSUME kitStored = InputOf(n)
            PROVE KitDead(n)
        BY <1>2, <3>5, <2>1, PostFacts DEF KitDead, RowOf
      <3>. QED
        BY <1>1, <3>2, <3>3, <3>4, <3>5
    <2>8. DialogStands'
      BY <1>1, <2>0, <2>3, NothingIsNoRequest, DialogIsTyped DEF DialogStands
    <2>9. HeardStand'
      BY <1>2, <2>0, <2>3 DEF HeardStand
    <2>10. NoSiteIsForgotten'
      <3>1. SUFFICES ASSUME NEW s \in kitSites
                     PROVE s.request \in kitKnown \/ s.version < kitVersion
        BY <1>1 DEF NoSiteIsForgotten
      <3>2. CASE s.request = m.request
        BY <1>3, <3>2, <2>1, SiteFacts, PostFacts DEF KitInv, RequestsAgree, RowOf, KitDead
      <3>. QED
        BY <1>2, <1>3, <3>2 DEF KitInv, NoSiteIsForgotten
    <2>. QED
      BY <2>4, <2>6, <2>7, <2>8, <2>9, <2>10 DEF KitInv
  <1>6. CASE m.answer # "rejected"
    <2>0. kitStored' = kitStored /\ kitDialog' = [kitDialog EXCEPT !.busy = "no"]
      BY <1>6 DEF PostRefused, Definitive
    <2>1. \A n \in kitPosts' :
              \/ n \in kitPosts /\ n # m
              \/ /\ n \in KitPosts /\ ~n.heard /\ InputOf(n) = InputOf(m) /\ n.answer = m.answer
                 /\ n.request = m.request /\ n.address = m.address /\ n.version = m.version
      BY <1>1, <1>3, UnheardPost
    <2>3. /\ kitDialog' \in KitDialogs /\ kitDialog'.preview = kitDialog.preview
          /\ kitDialog'.pending = kitDialog.pending /\ kitDialog'.busy = "no" /\ kitDialog'.open = kitDialog.open
      BY <2>0, DialogIsTyped DEF KitDialogs
    <2>4. KitTypes'
      BY <1>0, <1>1, <2>0, <2>1, <2>3 DEF KitTypes
    <2>5. KitRequests' \subseteq KitRequests
      BY <1>1, <2>0, <2>1 DEF KitRequests
    <2>6. RequestsAgree'
      BY <1>0, <1>1, <2>5, KitTypeFacts, FewerRequests DEF KitInv
    <2>7. PostsStand'
      <3>1. SUFFICES ASSUME NEW n \in kitPosts'
                     PROVE /\ n.request \in kitKnown \/ kitStored = InputOf(n) \/ KitDead(n)'
                           /\ n.answer = "rejected" => KitDead(n)'
        BY <1>1, <2>0 DEF PostsStand
      <3>2. CASE n \in kitPosts
        BY <3>2, <1>4, PostFacts DEF KitInv, PostsStand
      <3>3. CASE InputOf(n) = InputOf(m) /\ n.answer = m.answer
        BY <1>2, <1>6, <3>3
      <3>. QED
        BY <2>1, <3>2, <3>3
    <2>8. DialogStands'
      BY <1>1, <2>0, <2>3 DEF KitInv, DialogStands
    <2>9. HeardStand'
      BY <1>2, <2>1, <2>3 DEF HeardStand
    <2>10. NoSiteIsForgotten'
      BY <1>1, <2>0 DEF KitInv, NoSiteIsForgotten
    <2>. QED
      BY <2>4, <2>6, <2>7, <2>8, <2>9, <2>10 DEF KitInv
  <1>. QED
    BY <1>5, <1>6

\* The server handles a post: it installs once for a request.
LEMMA ServeKeeps ==
    ASSUME KitInv, NEW m \in kitPosts, ServePost(m)
    PROVE KitInv'
  <1>0. KitTypes
    BY DEF KitInv
  <1>1. PICK answer \in {"receipt", "rejected", "failed"} :
        /\ answer = "receipt" => m.version = kitVersion /\ (RowOf(m) # {} \/ Free(m.address))
        /\ answer = "rejected" => m.version # kitVersion \/ (RowOf(m) = {} /\ ~Free(m.address))
        /\ kitSites' = IF answer = "receipt" THEN kitSites \cup {InputOf(m)} ELSE kitSites
        /\ kitPosts' = (kitPosts \ {m}) \cup IF m.heard THEN {[m EXCEPT !.answer = answer]} ELSE {}
    BY DEF ServePost
  <1>2. UNCHANGED <<kitVersion, kitTaken, kitStored, kitDialog, kitNumbers, kitKnown>> /\ m.answer = "none"
    BY DEF ServePost
  <1>3. InputOf(m) \in KitInputs /\ InputOf(m) \in KitRequests /\ InputOf(m).request = m.request /\ m \in KitPosts
    BY PostFacts
  <1>4. \A n \in kitPosts' :
            \/ n \in kitPosts /\ n # m
            \/ /\ n \in KitPosts /\ n.heard = m.heard /\ m.heard /\ InputOf(n) = InputOf(m) /\ n.answer = answer
               /\ n.request = m.request /\ n.address = m.address /\ n.version = m.version
    BY <1>1, <1>3, AnsweredPost
  <1>5. kitSites' \subseteq kitSites \cup {InputOf(m)} /\ kitSites \subseteq kitSites'
    BY <1>1
  <1>6. KitTypes'
    BY <1>4, <1>0, <1>2, <1>3, <1>5, PostFacts DEF KitTypes
  <1>7. KitRequests' \subseteq KitRequests
    BY <1>2, <1>3, <1>4, <1>5 DEF KitRequests
  <1>8. RequestsAgree'
    BY <1>0, <1>2, <1>7, KitTypeFacts, FewerRequests DEF KitInv
  <1>9. \A i \in kitPosts : KitDead(i) => KitDead(i)'
    <2>1. SUFFICES ASSUME NEW i \in kitPosts, KitDead(i), ~(i.version < kitVersion)
                   PROVE RowOf(i)' = {} /\ ~Free(i.address)'
      BY <1>2 DEF KitDead
    <2>2. RowOf(i) = {} /\ ~Free(i.address)
      BY <2>1 DEF KitDead
    <2>3. ~Free(i.address)'
      BY <1>2, <1>5, <2>2 DEF Free
    <2>4. ASSUME answer = "receipt", i.request = m.request
          PROVE FALSE
      BY <1>3, <2>4, <2>2, <1>1, PostFacts DEF KitInv, RequestsAgree, RowOf
    <2>5. RowOf(i)' = {}
      BY <1>1, <1>3, <2>2, <2>4 DEF RowOf
    <2>. QED
      BY <2>3, <2>5
  <1>10. answer = "rejected" => KitDead(m)
    BY <1>0, <1>1, KitTypeFacts, PostFacts DEF KitDead
  <1>11. PostsStand'
    <2>1. SUFFICES ASSUME NEW n \in kitPosts'
                   PROVE /\ n.request \in kitKnown \/ kitStored = InputOf(n) \/ KitDead(n)'
                         /\ n.answer = "rejected" => KitDead(n)'
      BY <1>2 DEF PostsStand
    <2>2. CASE n \in kitPosts
      BY <1>9, <2>2 DEF KitInv, PostsStand
    <2>3. ASSUME /\ n.request = m.request /\ n.address = m.address /\ n.version = m.version
                 /\ InputOf(n) = InputOf(m) /\ n.answer = answer
          PROVE /\ n.request \in kitKnown \/ kitStored = InputOf(n) \/ KitDead(n)'
                /\ n.answer = "rejected" => KitDead(n)'
      BY <2>3, <1>9, <1>10 DEF KitDead, RowOf, Free, KitInv, PostsStand
    <2>. QED
      BY <1>4, <2>2, <2>3
  <1>12. DialogStands'
    BY <1>2 DEF KitInv, DialogStands
  <1>13. HeardStand'
    <2>1. CASE m.heard
      <3>1. \A n \in kitPosts : n.heard => n = m
        BY <2>1 DEF KitInv, HeardStand
      <3>2. kitPosts' = (kitPosts \ {m}) \cup {[m EXCEPT !.answer = answer]}
        BY <1>1, <2>1
      <3>3. PICK k \in kitPosts' : k = [m EXCEPT !.answer = answer]
        BY <3>2
      <3>4. k.heard = m.heard /\ InputOf(k) = InputOf(m)
        BY <1>3, <3>3, AnsweredPost
      <3>5. \A n \in kitPosts' : n.heard => n = k
        BY <3>1, <3>2, <3>3
      <3>. QED
        BY <1>2, <2>1, <3>3, <3>4, <3>5 DEF KitInv, HeardStand
    <2>2. CASE ~m.heard
      BY <1>1, <2>2, <1>2 DEF KitInv, HeardStand
    <2>. QED
      BY <2>1, <2>2
  <1>14. NoSiteIsForgotten'
    <2>1. SUFFICES ASSUME NEW s \in kitSites'
                   PROVE \/ s.request \in kitKnown
                         \/ kitStored \in KitInputs /\ kitStored.request = s.request
                         \/ s.version < kitVersion
      BY <1>2 DEF NoSiteIsForgotten
    <2>2. CASE s \in kitSites
      BY <2>2 DEF KitInv, NoSiteIsForgotten
    <2>3. CASE s = InputOf(m) /\ answer = "receipt"
      BY <1>1, <2>3, <1>3, PostFacts DEF KitInv, PostsStand, KitDead
    <2>. QED
      BY <1>1, <2>2, <2>3
  <1>. QED
    BY <1>6, <1>8, <1>11, <1>12, <1>13, <1>14 DEF KitInv

\* The kit is to be installed, or asked for again with the same request.
LEMMA InstallKeeps ==
    ASSUME KitInv, InstallKit
    PROVE KitInv'
  <1>0. KitTypes
    BY DEF KitInv
  <1>1. /\ kitDialog.open /\ kitDialog.busy = "no"
        /\ kitDialog.pending # NoKit \/ (kitDialog.selected /\ kitDialog.preview.can)
        /\ Input.request <= MaxRequests
        /\ UNCHANGED <<kitVersion, kitTaken, kitSites, kitKnown>>
    BY DEF InstallKit, Shows
  <1>2. kitNumbers.request \in Nat /\ kitNumbers.post \in Nat /\ kitVersion \in Nat
    BY <1>0, KitTypeFacts
  <1>4. /\ Input \in KitInputs /\ Input.request \in Nat /\ Input.version <= kitVersion
        /\ \A i \in KitRequests : i.request = Input.request => i = Input
        /\ Input.request <= kitNumbers.request \/ Input.request = kitNumbers.request + 1
        /\ kitStored \in KitInputs => Input = kitStored
    <2>1. CASE kitDialog.pending # NoKit
      BY <1>1, <2>1, <1>2, RequestIsTyped DEF Input, KitInv, DialogStands, KitRequests,
         RequestsAgree
    <2>2. CASE kitDialog.pending = NoKit
      <3>0. PICK number \in Nat, v \in 1..MaxKitReleases, a \in Addresses :
                number = kitNumbers.request + 1 /\ v = kitDialog.preview.version /\ a = kitDialog.address
        <4>1. kitDialog.preview.version \in 1..MaxKitReleases
          BY <1>1, <2>2, DialogIsTyped, SiteKitAssumption DEF KitInv, DialogStands
        <4>2. kitNumbers.request + 1 \in Nat
          BY <1>2
        <4>. QED
          BY <4>1, <4>2, DialogIsTyped
      <3>1. Input = [request |-> number, address |-> a, version |-> v]
        BY <2>2, <3>0 DEF Input
      <3>2. Input.request = number /\ Input.version = v /\ number \in 1..MaxRequests
        BY <1>1, <1>2, <3>0, <3>1, SiteKitAssumption
      <3>3. Input \in KitInputs
        BY <3>1, <3>2 DEF KitInputs
      <3>4. \A i \in KitRequests : i.request \in Nat /\ i.request <= kitNumbers.request
        BY <1>0, KitTypeFacts, PostIsARequest, RequestIsTyped DEF KitInv, RequestsAgree, KitRequests
      <3>5. \A i \in KitRequests : i.request # Input.request
        BY <1>2, <3>0, <3>2, <3>4
      <3>6. kitStored \notin KitInputs
        BY <1>1, <2>2, NothingIsNoRequest DEF KitInv, DialogStands
      <3>7. Input.version <= kitVersion
        BY <3>0, <3>2 DEF KitInv, DialogStands
      <3>. QED
        BY <3>0, <3>2, <3>3, <3>5, <3>6, <3>7
    <2>. QED
      BY <2>1, <2>2
  <1>5. PICK top \in Nat, next \in Nat :
            /\ top = (IF Input.request > kitNumbers.request THEN Input.request ELSE kitNumbers.request)
            /\ next = kitNumbers.post + 1
    BY <1>2, <1>4
  <1>6. kitNumbers' = [request |-> top, post |-> next]
    BY <1>5 DEF InstallKit
  <1>7. /\ kitNumbers' \in [request : Nat, post : Nat] /\ kitNumbers'.request = top
        /\ top >= kitNumbers.request /\ top >= Input.request
    BY <1>2, <1>4, <1>5, <1>6
  <1>8. CASE UNCHANGED <<kitStored, kitDialog, kitPosts>>
    <2>1. KitTypes'
      BY <1>0, <1>1, <1>7, <1>8 DEF KitTypes
    <2>2. RequestsAgree'
      BY <1>0, <1>1, <1>2, <1>7, <1>8, FewerRequests DEF KitInv, KitRequests
    <2>3. PostsStand'
      BY <1>1, <1>8 DEF KitInv, PostsStand, KitDead, RowOf, Free
    <2>4. DialogStands' /\ HeardStand' /\ NoSiteIsForgotten'
      BY <1>1, <1>8 DEF KitInv, DialogStands, HeardStand, NoSiteIsForgotten
    <2>. QED
      BY <2>1, <2>2, <2>3, <2>4 DEF KitInv
  <1>9. CASE /\ kitStored' = Input
             /\ kitDialog' = [kitDialog EXCEPT !.pending = Input, !.busy = "installing"]
             /\ kitPosts' = kitPosts \cup
                    {[request |-> Input.request, address |-> Input.address, version |-> Input.version,
                      no |-> kitNumbers.post + 1, answer |-> "none", heard |-> TRUE]}
    <2>1. PICK k : k = [request |-> Input.request, address |-> Input.address, version |-> Input.version,
                        no |-> next, answer |-> "none", heard |-> TRUE]
      OBVIOUS
    <2>2. kitPosts' = kitPosts \cup {k}
      BY <1>5, <1>9, <2>1
    <2>3. /\ k \in KitPosts /\ k.heard /\ k.answer = "none" /\ InputOf(k) = Input
          /\ k.request = Input.request
      BY <1>4, <2>1 DEF KitInputs, KitPosts, InputOf
    <2>4. /\ kitDialog' \in KitDialogs /\ kitDialog'.preview = kitDialog.preview
          /\ kitDialog'.pending = Input /\ kitDialog'.busy = "installing" /\ kitDialog'.open
      BY <1>1, <1>4, <1>9, DialogIsTyped DEF KitDialogs
    <2>5. KitTypes'
      BY <1>0, <1>1, <1>4, <1>7, <1>9, <2>2, <2>3, <2>4 DEF KitTypes
    <2>6. KitRequests' \subseteq KitRequests \cup {Input}
      BY <1>1, <1>9, <2>2, <2>3 DEF KitRequests
    <2>7. RequestsAgree'
      BY <1>0, <1>2, <1>4, <1>7, <2>6, <1>1, KitTypeFacts, PostIsARequest, RequestIsTyped DEF
         KitInv, RequestsAgree, KitRequests
    <2>8. PostsStand'
      BY <1>1, <1>9, <2>2, <2>3, <1>4, PostFacts DEF PostsStand, KitInv, KitDead, RowOf, Free
    <2>9. DialogStands'
      BY <1>1, <1>4, <1>9, <2>4 DEF KitInv, DialogStands
    <2>10. \A n \in kitPosts : ~n.heard
      BY <1>1 DEF KitInv, HeardStand
    <2>11. HeardStand'
      BY <1>9, <2>2, <2>3, <2>4, <2>10 DEF HeardStand
    <2>12. NoSiteIsForgotten'
      BY <1>1, <1>4, <1>9 DEF KitInv, NoSiteIsForgotten
    <2>. QED
      BY <2>5, <2>7, <2>8, <2>9, <2>11, <2>12 DEF KitInv
  <1>. QED
    BY <1>8, <1>9 DEF InstallKit

\* Every step keeps the installation sound.
LEMMA KitKept ==
    ASSUME KitInv, [SiteKitsNext]_siteKitVars
    PROVE KitInv'
  <1>1. ASSUME UNCHANGED siteKitVars
        PROVE KitInv'
    BY <1>1, KitTypeFacts, DialogMoves DEF siteKitVars, KitInv, DialogStands
  <1>2. CASE SiteKitsNext
    BY <1>2, OthersKeep, DialogStepsKeep, ReloadKeeps, CatalogKeeps, FieldsKeep, CheckKeeps,
       InstallKeeps, ResetKeeps, ServeKeeps, ReceiptKeeps, RefusedKeeps, LostKeeps DEF SiteKitsNext
  <1>. QED
    BY <1>1, <1>2

\* What the invariant says of the installation.
LEMMA KitsAreRight ==
    ASSUME KitInv
    PROVE SiteKitsTypeOK /\ NoSiteIsForgotten /\ KitsWaitForAnAnswer
BY PostFacts, KitTypeFacts DEF KitPosts, KitInv, KitDialogs, SiteKitsTypeOK, HeardStand,
   KitsWaitForAnAnswer
-----------------------------------------------------------------------------
(***************************************************************************)
(* The manager of block packs. Lists carry the revision that they were     *)
(* read at. The newest request is the one that is shown, and a list that   *)
(* an operation awaits was asked for after it.                             *)
(***************************************************************************)

\* The packs on the server, with their versions.
PackStates == [Packs -> [Versions -> {"absent", "disabled", "enabled"}]]

\* The operations of the library.
PackKeys == {"check", "github", "zip", "state", "remove"}

\* A pack, or none.
PackFields == Packs \cup {NoPack}

\* A list of the packs, as the server had it.
Snapshots == [rev : {0}] \cup [rev : Nat, here : PackStates, used : SUBSET (Packs \X Versions)]

\* The states of the library.
PackDialogs ==
    [open : BOOLEAN, loading : BOOLEAN, busy : PackKeys \cup {"no"}, said : {"nothing", "installed", "failed"},
     input : PackFields, checked : PackFields,
     check : [pack : PackFields, version : 0..MaxReleases, update : BOOLEAN],
     list : Snapshots, listNo : Nat, checkNo : Nat, opNo : Nat]

\* The operations that are on their way.
PackWorks ==
    [op : Nat, key : PackKeys, stage : {"asked", "listing", "checking"}, pack : Packs,
     version : 0..MaxReleases, to : {"none", "enabled", "disabled"}, checkNo : Nat, rev : Nat, listed : BOOLEAN]

\* The lists that are on their way.
PackLists == [no : Nat, by : {Nobody, "library", "store"}, seen : Snapshots]

\* The states of the store.
StoreDialogs ==
    [open : BOOLEAN, loading : BOOLEAN, rev : Nat, installed : SUBSET Products, kit : BOOLEAN, no : Nat, ops : Nat]

\* The installation that the store does.
StoreWorks ==
    [stage : {"none", "applying"}] \cup
    [stage : {"asked", "catalog", "packs"}, pack : Packs, rev : Nat, listed : BOOLEAN]

\* The server keeps its types.
ServerTypes ==
    /\ packsHere \in PackStates
    /\ packsFromGit \in SUBSET (Packs \X Versions) /\ packsInUse \in SUBSET (Packs \X Versions)
    /\ packsReleased \in [Packs -> Versions] /\ packsRevision \in Nat \ {0}

\* The library keeps its types.
LibraryTypes == packDialog \in PackDialogs /\ packWork \subseteq PackWorks /\ packLists \subseteq PackLists

\* The store keeps its types.
StoreTypes ==
    /\ storeDialog \in StoreDialogs /\ storeWork \in StoreWorks
    /\ storeCatalogs \subseteq [no : Nat, by : {Nobody, "store"}]

\* One operation at a time, of those that are not checks; what one of them waits for.
WorksStand ==
    /\ packDialog.busy # "no" => \E w \in packWork : w.op = packDialog.opNo /\ w.key = packDialog.busy
    /\ \A w, x \in packWork : w.op = x.op => w = x
    /\ \A w \in packWork :
          /\ w.op <= packDialog.opNo
          /\ w.key # "check" => w.op = packDialog.opNo /\ packDialog.busy = w.key
          /\ w.key = "check" => w.stage = "asked"
          /\ w.key = "state" => w.version \in Versions /\ w.to # "none"
          /\ w.key = "remove" => w.version \in Versions
          /\ w.rev <= packsRevision
          /\ w.stage = "checking" /\ w.listed => w.rev <= packDialog.list.rev

\* The list that is shown is never newer than the one that is awaited, nor than the server.
ListsStand ==
    /\ packDialog.loading => \E l \in packLists : l.no = packDialog.listNo
    /\ packDialog.list.rev <= packsRevision
    /\ \A l \in packLists :
          /\ l.no <= packDialog.listNo /\ l.seen.rev <= packsRevision
          /\ l.no = packDialog.listNo /\ l.seen.rev > 0 => packDialog.list.rev <= l.seen.rev
    /\ \A l, k \in packLists : l.no = k.no => l = k

\* The list that an operation of the library awaits is one, and read after it.
LibraryListsStand ==
    /\ \A l \in packLists : l.by = "library" =>
          /\ \E w \in packWork : w.stage = "listing"
          /\ l.seen.rev > 0 => \A w \in packWork : w.stage = "listing" => w.rev <= l.seen.rev
    /\ \A l, k \in packLists : l.by = "library" /\ k.by = "library" => l = k

\* The list that an installation of the store awaits is one, and read after it.
StoreListsStand ==
    /\ storeWork.stage = "packs" => \E l \in packLists : l.by = "store"
    /\ \A l \in packLists : l.by = "store" =>
          /\ storeWork.stage = "packs"
          /\ l.seen.rev > 0 => storeWork.rev <= l.seen.rev
    /\ \A l, k \in packLists : l.by = "store" /\ k.by = "store" => l = k

\* The store waits for a catalog that is on its way.
StoreStands ==
    /\ storeDialog.loading => \E c \in storeCatalogs : c.no = storeDialog.no
    /\ storeWork.stage = "catalog" => \E c \in storeCatalogs : c.by = "store"
    /\ storeWork.stage \in {"asked", "catalog", "packs"} => storeWork.rev <= packsRevision
    /\ \A c \in storeCatalogs : /\ c.no <= storeDialog.no
                                /\ c.by = "store" => storeWork.stage = "catalog"
    /\ \A c, d \in storeCatalogs : c.by = "store" /\ d.by = "store" => c = d

\* The inductive invariant of the manager of block packs.
PackInv == /\ ServerTypes /\ LibraryTypes /\ StoreTypes
           /\ WorksStand /\ ListsStand /\ LibraryListsStand /\ StoreListsStand /\ StoreStands
           /\ OffersWhatIsTyped

\* At first no pack was checked.
LEMMA NoCheckIsTyped ==
    /\ NoCheck \in [pack : PackFields, version : 0..MaxReleases, update : BOOLEAN]
    /\ NoPack \in PackFields /\ Packs \subseteq PackFields
    /\ MaxReleases \in Nat /\ 1 \in Versions /\ Versions \subseteq 0..MaxReleases
BY PackAssumption DEF NoCheck, PackFields, Versions

\* A pack of which one version is enabled.
LEMMA EnabledIsTyped ==
    ASSUME ServerTypes, NEW p \in Packs, NEW v \in Versions
    PROVE Enabled(p, v) \in PackStates
BY DEF ServerTypes, PackStates, Enabled

\* The server installs a pack.
LEMMA InstallsKeeps ==
    ASSUME ServerTypes, NEW p \in Packs, NEW v \in Versions, NEW git, Installs(p, v, git)
    PROVE ServerTypes' /\ packsRevision' = packsRevision + 1
BY EnabledIsTyped DEF Installs, ServerTypes

\* The server enables, disables or removes a version.
LEMMA SetsStateKeeps ==
    ASSUME ServerTypes, NEW p \in Packs, NEW v \in Versions, NEW state \in {"absent", "disabled", "enabled"},
           SetsState(p, v, state)
    PROVE ServerTypes' /\ packsRevision' = packsRevision + 1
  <1>1. packsHere' \in PackStates
    <2>1. CASE state = "enabled"
      BY <2>1, EnabledIsTyped DEF SetsState
    <2>2. CASE state # "enabled"
      BY <2>2 DEF SetsState, ServerTypes, PackStates
    <2>. QED
      BY <2>1, <2>2
  <1>2. packsFromGit' \in SUBSET (Packs \X Versions)
    BY DEF SetsState, ServerTypes
  <1>. QED
    BY <1>1, <1>2 DEF SetsState, ServerTypes

\* The server does an operation.
LEMMA DoesKeeps ==
    ASSUME ServerTypes, NEW w \in PackWorks, Does(w), w.key = "state" => w.version \in Versions /\ w.to # "none",
           w.key = "remove" => w.version \in Versions
    PROVE ServerTypes' /\ packsRevision' \in Nat /\ packsRevision' >= packsRevision
  <1>0. w.pack \in Packs /\ packsReleased[w.pack] \in Versions /\ packsRevision \in Nat \ {0}
    BY DEF ServerTypes, PackWorks
  <1>1. CASE w.key = "github"
    <2>1. Installs(w.pack, packsReleased[w.pack], TRUE)
      BY <1>1 DEF Does
    <2>2. ServerTypes' /\ packsRevision' = packsRevision + 1
      BY <1>0, <2>1, InstallsKeeps, Zenon
    <2>. QED
      BY <1>0, <2>2
  <1>2. CASE w.key = "zip"
    <2>1. Installs(w.pack, 1, FALSE)
      BY <1>2 DEF Does
    <2>2. ServerTypes' /\ packsRevision' = packsRevision + 1
      BY <1>0, <2>1, InstallsKeeps, NoCheckIsTyped, Zenon
    <2>. QED
      BY <1>0, <2>2
  <1>3. CASE w.key = "state"
    BY <1>3, <1>0, SetsStateKeeps DEF Does, PackWorks
  <1>4. CASE w.key = "remove"
    BY <1>4, <1>0, SetsStateKeeps DEF Does
  <1>5. CASE w.key \notin {"github", "zip", "state", "remove"}
    <2>1. UNCHANGED <<packsHere, packsFromGit, packsInUse, packsReleased, packsRevision>>
      BY <1>5 DEF Does, serverOfPacks
    <2>. QED
      BY <1>0, <2>1 DEF ServerTypes
  <1>. QED
    BY <1>1, <1>2, <1>3, <1>4, <1>5

\* Another administrator does an operation.
LEMMA OthersKeepServer ==
    ASSUME ServerTypes, OthersAct
    PROVE ServerTypes' /\ packsRevision' \in Nat /\ packsRevision' >= packsRevision
  <1>0. packsRevision \in Nat \ {0}
    BY DEF ServerTypes
  <1>1. ASSUME NEW p \in Packs, packsReleased[p] < MaxReleases,
               packsReleased' = [packsReleased EXCEPT ![p] = @ + 1],
               packsRevision' = packsRevision + 1, UNCHANGED <<packsHere, packsFromGit, packsInUse>>
        PROVE ServerTypes' /\ packsRevision' = packsRevision + 1
    BY <1>1, <1>0, PackAssumption DEF ServerTypes, Versions
  <1>2. ASSUME NEW p \in Packs, NEW v \in Versions, packsInUse' = packsInUse \cup {<<p, v>>},
               packsRevision' = packsRevision + 1, UNCHANGED <<packsHere, packsFromGit, packsReleased>>
        PROVE ServerTypes' /\ packsRevision' = packsRevision + 1
    BY <1>0, <1>2 DEF ServerTypes
  <1>3. ASSUME NEW p \in Packs, NEW v \in Versions, SetsState(p, v, "absent")
        PROVE ServerTypes' /\ packsRevision' = packsRevision + 1
    BY <1>3, SetsStateKeeps
  <1>4. ServerTypes' /\ packsRevision' = packsRevision + 1
    BY <1>1, <1>2, <1>3, Zenon DEF OthersAct
  <1>. QED
    BY <1>0, <1>4

\* The list that the server has now.
LEMMA SnapshotIsTyped ==
    ASSUME ServerTypes
    PROVE Snapshot \in Snapshots /\ Snapshot.rev = packsRevision
BY DEF ServerTypes, Snapshots, Snapshot

\* A list is of a revision.
LEMMA SnapshotFacts ==
    ASSUME NEW s \in Snapshots
    PROVE s.rev \in Nat
BY DEF Snapshots

\* The fields of the library.
LEMMA DialogFields ==
    ASSUME PackInv
    PROVE /\ packDialog \in PackDialogs /\ packDialog.listNo \in Nat /\ packDialog.checkNo \in Nat
          /\ packDialog.opNo \in Nat /\ packDialog.list \in Snapshots /\ packDialog.list.rev \in Nat
          /\ packDialog.busy \in PackKeys \cup {"no"} /\ packDialog.input \in PackFields
          /\ packDialog.check \in [pack : PackFields, version : 0..MaxReleases, update : BOOLEAN]
          /\ packDialog.checked \in PackFields /\ packsRevision \in Nat \ {0}
          /\ packDialog.said \in {"nothing", "installed", "failed"}
BY SnapshotFacts DEF PackInv, LibraryTypes, ServerTypes, PackDialogs

\* The fields of an operation.
LEMMA WorkFacts ==
    ASSUME PackInv, NEW w \in packWork
    PROVE /\ w \in PackWorks /\ w.op \in Nat /\ w.rev \in Nat /\ w.pack \in Packs /\ w.key \in PackKeys
          /\ w.stage \in {"asked", "listing", "checking"} /\ w.checkNo \in Nat /\ w.listed \in BOOLEAN
BY DEF PackInv, LibraryTypes, PackWorks

\* The fields of a list.
LEMMA ListFacts ==
    ASSUME PackInv, NEW l \in packLists
    PROVE /\ l \in PackLists /\ l.no \in Nat /\ l.seen \in Snapshots /\ l.seen.rev \in Nat
          /\ l.by \in {Nobody, "library", "store"}
BY SnapshotFacts DEF PackInv, LibraryTypes, PackLists

\* The fields of the store.
LEMMA StoreFacts ==
    ASSUME PackInv
    PROVE /\ storeDialog \in StoreDialogs /\ storeDialog.no \in Nat /\ storeDialog.ops \in Nat /\ storeDialog.rev \in Nat
          /\ storeWork \in StoreWorks
          /\ storeWork.stage \in {"none", "applying", "asked", "catalog", "packs"}
          /\ storeWork.stage \in {"asked", "catalog", "packs"} =>
                storeWork \in [stage : {"asked", "catalog", "packs"}, pack : Packs, rev : Nat, listed : BOOLEAN]
          /\ storeCatalogs \subseteq [no : Nat, by : {Nobody, "store"}]
          /\ \A c \in storeCatalogs : c.no \in Nat
BY DEF PackInv, StoreTypes, StoreWorks, StoreDialogs

\* Nothing is open and nothing asked for.
LEMMA PacksStart ==
    ASSUME PackManagerInit
    PROVE PackInv
  <1> USE DEF PackManagerInit
  <1>1. ServerTypes
    BY NoCheckIsTyped DEF ServerTypes, PackStates
  <1>2. PICK fresh \in Snapshots : fresh = [rev |-> 0]
    BY DEF Snapshots
  <1>3. PICK none \in [pack : PackFields, version : 0..MaxReleases, update : BOOLEAN] : none = NoCheck
    BY NoCheckIsTyped
  <1>4. packDialog = [open |-> FALSE, loading |-> FALSE, busy |-> "no", said |-> "nothing", input |-> NoPack,
                      checked |-> NoPack, check |-> none, list |-> fresh, listNo |-> 0, checkNo |-> 0, opNo |-> 0]
    BY <1>2, <1>3
  <1>5. /\ packDialog \in PackDialogs /\ packDialog.list = fresh /\ packDialog.check = NoCheck
        /\ packDialog.busy = "no" /\ ~packDialog.loading
    BY <1>3, <1>4, NoCheckIsTyped DEF PackDialogs
  <1>6. LibraryTypes
    BY <1>5 DEF LibraryTypes
  <1>7. StoreTypes /\ ~storeDialog.loading /\ storeWork.stage = "none"
    BY DEF StoreTypes, StoreDialogs, StoreWorks, NoWork
  <1>8. fresh.rev = 0
    BY <1>2
  <1>9. WorksStand /\ ListsStand /\ LibraryListsStand /\ StoreListsStand /\ StoreStands
    BY <1>5, <1>7, <1>8 DEF WorksStand, ListsStand, LibraryListsStand, StoreListsStand, StoreStands
  <1>10. OffersWhatIsTyped
    BY <1>5 DEF OffersWhatIsTyped
  <1>. QED
    BY <1>1, <1>6, <1>7, <1>9, <1>10 DEF PackInv

\* A step that begins and ends no operation.
LEMMA SameWorks ==
    ASSUME PackInv, packWork' = packWork, packDialog'.opNo = packDialog.opNo, packDialog'.busy = packDialog.busy,
           packsRevision' \in Nat, packsRevision' >= packsRevision,
           packDialog'.list.rev \in Nat, packDialog'.list.rev >= packDialog.list.rev
    PROVE WorksStand'
BY WorkFacts, DialogFields DEF PackInv, WorksStand

\* An operation ends.
LEMMA WorkEnds ==
    ASSUME PackInv, NEW w \in packWork, packWork' = packWork \ {w}, packDialog'.opNo = packDialog.opNo,
           packDialog'.busy = IF w.op = packDialog.opNo THEN "no" ELSE packDialog.busy,
           packsRevision' \in Nat, packsRevision' >= packsRevision,
           packDialog'.list.rev \in Nat, packDialog'.list.rev >= packDialog.list.rev
    PROVE WorksStand'
  <1>1. packDialog'.busy # "no" => \E x \in packWork' : x.op = packDialog'.opNo /\ x.key = packDialog'.busy
    BY DEF PackInv, WorksStand
  <1>2. ASSUME NEW x \in packWork, x # w
        PROVE /\ x.key # "check" => x.op = packDialog'.opNo /\ packDialog'.busy = x.key
              /\ x.rev <= packsRevision'
              /\ x.stage = "checking" /\ x.listed => x.rev <= packDialog'.list.rev
    BY <1>2, WorkFacts, DialogFields DEF PackInv, WorksStand
  <1>. QED
    BY <1>1, <1>2 DEF PackInv, WorksStand

\* Lists that become fewer stand as before.
LEMMA FewerLists ==
    ASSUME PackInv, packLists' \subseteq packLists, packDialog'.list.rev = packDialog.list.rev,
           packDialog'.listNo \in Nat,
           packDialog'.listNo = packDialog.listNo \/ packDialog'.listNo > packDialog.listNo,
           packDialog'.loading => \E l \in packLists' : l.no = packDialog'.listNo,
           packsRevision' \in Nat, packsRevision' >= packsRevision
    PROVE ListsStand'
BY DialogFields, ListFacts DEF PackInv, ListsStand

\* A step beside the store.
LEMMA SameStore ==
    ASSUME PackInv, UNCHANGED <<storeWork, storeCatalogs>>,
           storeDialog'.no = storeDialog.no, storeDialog'.loading = storeDialog.loading,
           packsRevision' \in Nat, packsRevision' >= packsRevision
    PROVE StoreStands'
BY DialogFields, StoreFacts DEF PackInv, StoreStands

\* A step of the server alone.
LEMMA ServerMoves ==
    ASSUME PackInv, ServerTypes', packsRevision' \in Nat, packsRevision' >= packsRevision,
           UNCHANGED <<packDialog, packWork, packLists, storeDialog, storeWork, storeCatalogs>>
    PROVE PackInv'
  <1>1. WorksStand'
    BY SameWorks, DialogFields
  <1>2. ListsStand'
    BY FewerLists, DialogFields DEF PackInv, ListsStand
  <1>3. StoreStands'
    BY SameStore
  <1>. QED
    BY <1>1, <1>2, <1>3 DEF PackInv, LibraryTypes, StoreTypes, LibraryListsStand, StoreListsStand,
       OffersWhatIsTyped

\* Another administrator works.
LEMMA OthersActKeeps ==
    ASSUME PackInv, OthersAct
    PROVE PackInv'
BY OthersKeepServer, ServerMoves DEF OthersAct, PackInv

\* A list is asked for: it is the newest one.
LEMMA AskedFor ==
    ASSUME NEW ui \in PackDialogs, NEW by \in {Nobody, "library", "store"}, AskForList(ui, by)
    PROVE /\ packDialog' \in PackDialogs /\ packDialog'.listNo = ui.listNo + 1 /\ packDialog'.loading
          /\ packDialog'.list = ui.list /\ packDialog'.opNo = ui.opNo /\ packDialog'.busy = ui.busy
          /\ packDialog'.check = ui.check /\ packDialog'.input = ui.input
          /\ packDialog'.checkNo = ui.checkNo /\ packDialog'.said = ui.said
          /\ \E l \in PackLists : /\ l.no = ui.listNo + 1 /\ l.by = by /\ l.seen.rev = 0
                                  /\ packLists' = packLists \cup {l}
  <1>0. ui.listNo \in Nat
    BY DEF PackDialogs
  <1>1. PICK next \in Nat : next = ui.listNo + 1
    BY <1>0
  <1>2. packDialog' = [ui EXCEPT !.listNo = next, !.loading = TRUE]
    BY <1>1 DEF AskForList
  <1>3. PICK fresh \in Snapshots : fresh = [rev |-> 0]
    BY DEF Snapshots
  <1>4. fresh.rev = 0
    BY <1>3
  <1>5. PICK l \in PackLists : l = [no |-> next, by |-> by, seen |-> fresh]
    BY DEF PackLists
  <1>6. l.no = next /\ l.by = by /\ l.seen.rev = 0
    BY <1>4, <1>5
  <1>7. packLists' = packLists \cup {l}
    BY <1>1, <1>3, <1>5 DEF AskForList
  <1>. QED
    BY <1>1, <1>2, <1>6, <1>7 DEF PackDialogs

\* A list that is asked for is the newest one.
LEMMA OneMoreList ==
    ASSUME PackInv, NEW l \in PackLists, l.no = packDialog.listNo + 1, l.seen.rev = 0,
           packLists' = packLists \cup {l}, packDialog'.listNo = packDialog.listNo + 1,
           packDialog'.list.rev = packDialog.list.rev, packsRevision' \in Nat, packsRevision' >= packsRevision
    PROVE ListsStand'
BY DialogFields, ListFacts DEF PackInv, ListsStand

\* The library is opened.
LEMMA OpenLibraryKeeps ==
    ASSUME PackInv, OpenLibrary
    PROVE PackInv'
  <1>1. PICK ui \in PackDialogs : ui = [packDialog EXCEPT !.open = TRUE, !.said = "nothing"]
    BY DialogFields DEF PackDialogs
  <1>2. /\ ui.listNo = packDialog.listNo /\ ui.list = packDialog.list /\ ui.opNo = packDialog.opNo
        /\ ui.busy = packDialog.busy /\ ui.check = packDialog.check /\ ui.input = packDialog.input
    BY <1>1, DialogFields DEF PackDialogs
  <1>3. AskForList(ui, Nobody)
    BY <1>1 DEF OpenLibrary
  <1>4. UNCHANGED <<packsHere, packsFromGit, packsInUse, packsReleased, packsRevision,
                    packWork, storeDialog, storeWork, storeCatalogs>>
    BY DEF OpenLibrary, serverOfPacks
  <1>5. PICK l \in PackLists : /\ l.no = packDialog.listNo + 1 /\ l.by = Nobody /\ l.seen.rev = 0
                               /\ packLists' = packLists \cup {l}
    BY <1>2, <1>3, AskedFor
  <1>6. /\ packDialog' \in PackDialogs /\ packDialog'.listNo = packDialog.listNo + 1
        /\ packDialog'.list = packDialog.list /\ packDialog'.opNo = packDialog.opNo
        /\ packDialog'.busy = packDialog.busy /\ packDialog'.check = packDialog.check
        /\ packDialog'.input = packDialog.input
    BY <1>2, <1>3, AskedFor
  <1>7. packsRevision \in Nat /\ packDialog.list.rev \in Nat
    BY DialogFields
  <1>8. WorksStand'
    BY <1>4, <1>6, <1>7, SameWorks
  <1>9. ListsStand'
    BY <1>4, <1>5, <1>6, <1>7, OneMoreList
  <1>10. StoreStands'
    BY <1>4, <1>7, SameStore
  <1>11. LibraryListsStand' /\ StoreListsStand'
    BY <1>4, <1>5 DEF PackInv, LibraryListsStand, StoreListsStand, Nobody
  <1>12. ServerTypes' /\ LibraryTypes' /\ StoreTypes' /\ OffersWhatIsTyped'
    BY <1>4, <1>5, <1>6 DEF PackInv, ServerTypes, LibraryTypes, StoreTypes, OffersWhatIsTyped
  <1>. QED
    BY <1>8, <1>9, <1>10, <1>11, <1>12 DEF PackInv

\* The library is closed.
LEMMA CloseLibraryKeeps ==
    ASSUME PackInv, CloseLibrary
    PROVE PackInv'
  <1>0. PICK next \in Nat : next = packDialog.listNo + 1
    BY DialogFields
  <1>1. packDialog' = [packDialog EXCEPT !.open = FALSE, !.loading = FALSE, !.listNo = next]
    BY <1>0 DEF CloseLibrary
  <1>2. /\ packDialog' \in PackDialogs /\ packDialog'.listNo = packDialog.listNo + 1 /\ ~packDialog'.loading
        /\ packDialog'.list = packDialog.list /\ packDialog'.opNo = packDialog.opNo
        /\ packDialog'.busy = packDialog.busy /\ packDialog'.check = packDialog.check
        /\ packDialog'.input = packDialog.input
    BY <1>0, <1>1, DialogFields DEF PackDialogs
  <1>3. UNCHANGED <<packsHere, packsFromGit, packsInUse, packsReleased, packsRevision,
                    packWork, packLists, storeDialog, storeWork, storeCatalogs>>
    BY DEF CloseLibrary, serverOfPacks
  <1>4. packsRevision \in Nat /\ packDialog.list.rev \in Nat /\ packDialog.listNo \in Nat
    BY DialogFields
  <1>5. WorksStand'
    BY <1>2, <1>3, <1>4, SameWorks
  <1>6. ListsStand'
    BY <1>2, <1>3, <1>4, FewerLists
  <1>7. StoreStands'
    BY <1>3, <1>4, SameStore
  <1>8. LibraryListsStand' /\ StoreListsStand'
    BY <1>3 DEF PackInv, LibraryListsStand, StoreListsStand
  <1>9. ServerTypes' /\ LibraryTypes' /\ StoreTypes' /\ OffersWhatIsTyped'
    BY <1>2, <1>3 DEF PackInv, ServerTypes, LibraryTypes, StoreTypes, OffersWhatIsTyped
  <1>. QED
    BY <1>5, <1>6, <1>7, <1>8, <1>9 DEF PackInv

\* Another repository is typed.
LEMMA ChangeInputKeeps ==
    ASSUME PackInv, ChangeInput
    PROVE PackInv'
  <1>1. PICK p \in PackFields : packDialog' = ChangedInput(p)
    BY DEF ChangeInput, PackFields
  <1>2. PICK next \in Nat, number \in Nat, mark \in PackKeys \cup {"no"},
             none \in [pack : PackFields, version : 0..MaxReleases, update : BOOLEAN] :
            /\ next = packDialog.checkNo + 1 /\ none = NoCheck
            /\ number = (IF packDialog.busy = "check" THEN packDialog.opNo + 1 ELSE packDialog.opNo)
            /\ mark = IF packDialog.busy = "check" THEN "no" ELSE packDialog.busy
    BY DialogFields, NoCheckIsTyped
  <1>3. packDialog' = [packDialog EXCEPT !.input = p, !.checked = NoPack, !.check = none, !.checkNo = next,
                                         !.opNo = number, !.busy = mark]
    BY <1>1, <1>2 DEF ChangedInput
  <1>4. /\ packDialog' \in PackDialogs /\ packDialog'.listNo = packDialog.listNo
        /\ packDialog'.loading = packDialog.loading /\ packDialog'.list = packDialog.list
        /\ packDialog'.opNo = number /\ packDialog'.busy = mark /\ packDialog'.check = NoCheck
    BY <1>2, <1>3, DialogFields, NoCheckIsTyped DEF PackDialogs
  <1>5. UNCHANGED <<packsHere, packsFromGit, packsInUse, packsReleased, packsRevision,
                    packWork, packLists, storeDialog, storeWork, storeCatalogs>>
    BY DEF ChangeInput, serverOfPacks
  <1>6. packsRevision \in Nat /\ packDialog.list.rev \in Nat /\ packDialog.listNo \in Nat /\ packDialog.opNo \in Nat
    BY DialogFields
  <1>7. WorksStand'
    <2>1. CASE packDialog.busy = "check"
      BY <1>2, <1>4, <2>1, <1>5, <1>6, WorkFacts DEF PackInv, WorksStand
    <2>2. CASE packDialog.busy # "check"
      BY <1>2, <1>4, <2>2, <1>5, <1>6, SameWorks
    <2>. QED
      BY <2>1, <2>2
  <1>8. ListsStand'
    BY <1>4, <1>5, <1>6, FewerLists DEF PackInv, ListsStand
  <1>9. StoreStands'
    BY <1>5, <1>6, SameStore
  <1>10. LibraryListsStand' /\ StoreListsStand'
    BY <1>5 DEF PackInv, LibraryListsStand, StoreListsStand
  <1>11. ServerTypes' /\ LibraryTypes' /\ StoreTypes' /\ OffersWhatIsTyped'
    BY <1>4, <1>5 DEF PackInv, ServerTypes, LibraryTypes, StoreTypes, OffersWhatIsTyped
  <1>. QED
    BY <1>7, <1>8, <1>9, <1>10, <1>11 DEF PackInv

\* An operation begins.
LEMMA BeginKeeps ==
    ASSUME PackInv, NEW key \in PackKeys, NEW p \in Packs, NEW v \in 0..MaxReleases,
           NEW to \in {"none", "enabled", "disabled"}, key = "state" => v \in Versions /\ to # "none",
           key = "remove" => v \in Versions, Begin(key, p, v, to)
    PROVE PackInv'
  <1>1. PICK next \in Nat : next = packDialog.opNo + 1
    BY DialogFields
  <1>2. PICK other \in Nat : other = packDialog.checkNo + 1
    BY DialogFields
  <1>3. PICK number \in Nat : number = (IF key = "check" THEN packDialog.checkNo + 1 ELSE packDialog.checkNo)
    BY DialogFields
  <1>4. PICK checked \in PackFields : checked = (IF key = "check" THEN NoPack ELSE packDialog.checked)
    BY DialogFields, NoCheckIsTyped
  <1>5. PICK check \in [pack : PackFields, version : 0..MaxReleases, update : BOOLEAN] :
            check = IF key = "check" THEN NoCheck ELSE packDialog.check
    BY DialogFields, NoCheckIsTyped
  <1>6. /\ next = packDialog.opNo + 1 /\ other = packDialog.checkNo + 1
        /\ number = (IF key = "check" THEN packDialog.checkNo + 1 ELSE packDialog.checkNo)
        /\ checked = (IF key = "check" THEN NoPack ELSE packDialog.checked)
        /\ check = IF key = "check" THEN NoCheck ELSE packDialog.check
    BY <1>1, <1>2, <1>3, <1>4, <1>5
  <1>7. packDialog' = [packDialog EXCEPT !.busy = key, !.opNo = next, !.said = "nothing", !.check = check,
                                         !.checked = checked, !.checkNo = number]
    BY <1>6 DEF Begin
  <1>8. /\ packDialog' \in PackDialogs /\ packDialog'.listNo = packDialog.listNo
        /\ packDialog'.loading = packDialog.loading /\ packDialog'.list = packDialog.list
        /\ packDialog'.opNo = next /\ packDialog'.busy = key /\ packDialog'.check = check
        /\ packDialog'.input = packDialog.input
    BY <1>6, <1>7, DialogFields DEF PackDialogs
  <1>9. PICK w \in PackWorks :
            w = [op |-> next, key |-> key, stage |-> "asked", pack |-> p, version |-> v, to |-> to,
                 checkNo |-> other, rev |-> 0, listed |-> FALSE]
    BY DEF PackWorks
  <1>10. /\ w.op = next /\ w.key = key /\ w.stage = "asked" /\ w.version = v /\ w.to = to /\ w.rev = 0
    BY <1>9
  <1>11. packWork' = packWork \cup {w} /\ packDialog.busy = "no"
         /\ UNCHANGED <<packsHere, packsFromGit, packsInUse, packsReleased, packsRevision,
                        packLists, storeDialog, storeWork, storeCatalogs>>
    BY <1>6, <1>9 DEF Begin, serverOfPacks
  <1>12. packsRevision \in Nat /\ packDialog.list.rev \in Nat /\ packDialog.listNo \in Nat /\ packDialog.opNo \in Nat
    BY DialogFields
  <1>13. WorksStand'
    BY <1>11, <1>6, <1>10, <1>12, <1>8, WorkFacts DEF PackInv, WorksStand, PackKeys
  <1>14. ListsStand'
    BY <1>8, <1>11, <1>12, FewerLists DEF PackInv, ListsStand
  <1>15. StoreStands'
    BY <1>11, <1>12, SameStore
  <1>16. LibraryListsStand' /\ StoreListsStand'
    BY <1>10, <1>11 DEF PackInv, LibraryListsStand, StoreListsStand
  <1>17. OffersWhatIsTyped'
    BY <1>6, <1>8 DEF PackInv, OffersWhatIsTyped
  <1>18. ServerTypes' /\ LibraryTypes' /\ StoreTypes'
    BY <1>8, <1>11 DEF PackInv, ServerTypes, LibraryTypes, StoreTypes
  <1>. QED
    BY <1>13, <1>14, <1>15, <1>16, <1>17, <1>18 DEF PackInv

\* The buttons of the library.
LEMMA OperationsKeep ==
    ASSUME PackInv, CheckRepository \/ InstallFromGitHub \/ InstallFile \/ ChangeState \/ RemovePack
    PROVE PackInv'
  <1>1. CASE CheckRepository
    BY <1>1, DialogFields, NoCheckIsTyped, BeginKeeps DEF CheckRepository, PackFields, PackKeys
  <1>2. CASE InstallFromGitHub
    BY <1>2, DialogFields, BeginKeeps DEF InstallFromGitHub, PackFields, PackKeys
  <1>3. CASE InstallFile
    BY <1>3, NoCheckIsTyped, BeginKeeps DEF InstallFile, PackKeys
  <1>4. CASE ChangeState
    BY <1>4, NoCheckIsTyped, BeginKeeps DEF ChangeState, PackKeys
  <1>5. CASE RemovePack
    BY <1>5, NoCheckIsTyped, BeginKeeps DEF RemovePack, PackKeys
  <1>. QED
    BY <1>1, <1>2, <1>3, <1>4, <1>5

\* What the end of an operation leaves of the dialog.
LEMMA FinishedIs ==
    ASSUME NEW ui \in PackDialogs, NEW w \in PackWorks
    PROVE /\ Finished(ui, w) \in PackDialogs
          /\ Finished(ui, w).busy = IF w.op = packDialog.opNo THEN "no" ELSE ui.busy
          /\ Finished(ui, w).opNo = ui.opNo /\ Finished(ui, w).list = ui.list
          /\ Finished(ui, w).listNo = ui.listNo /\ Finished(ui, w).loading = ui.loading
          /\ Finished(ui, w).check = ui.check /\ Finished(ui, w).input = ui.input
          /\ Finished(ui, w).checkNo = ui.checkNo /\ Finished(ui, w).said = ui.said
BY DEF Finished, IsCurrent, PackDialogs

\* The check of a repository is shown, if it is still typed.
LEMMA CheckShownIs ==
    ASSUME ServerTypes, NEW ui \in PackDialogs, NEW w \in PackWorks, ui.input = packDialog.input,
           ui.check # NoCheck => ui.check.pack = ui.input
    PROVE /\ CheckShown(ui, w) \in PackDialogs
          /\ CheckShown(ui, w).busy = ui.busy
          /\ CheckShown(ui, w).opNo = ui.opNo /\ CheckShown(ui, w).list = ui.list
          /\ CheckShown(ui, w).listNo = ui.listNo /\ CheckShown(ui, w).loading = ui.loading
          /\ CheckShown(ui, w).input = ui.input /\ CheckShown(ui, w).said = ui.said
          /\ CheckShown(ui, w).check # NoCheck => CheckShown(ui, w).check.pack = CheckShown(ui, w).input
  <1>1. CASE CheckCounts(w)
    <2>1. w.pack \in Packs /\ packsReleased[w.pack] \in 0..MaxReleases
      BY NoCheckIsTyped DEF PackWorks, ServerTypes
    <2>2. PICK new \in BOOLEAN :
              new <=> \A v \in Versions : <<w.pack, v>> \in packsFromGit => v < packsReleased[w.pack]
      OBVIOUS
    <2>3. PICK check \in [pack : PackFields, version : 0..MaxReleases, update : BOOLEAN] : check = Checked(w.pack)
      BY <2>1, NoCheckIsTyped DEF Checked
    <2>4. check.pack = w.pack
      BY <2>3 DEF Checked
    <2>5. CheckShown(ui, w) = [ui EXCEPT !.check = check, !.checked = w.pack]
      BY <1>1, <2>3 DEF CheckShown
    <2>6. w.pack = packDialog.input /\ w.pack \in PackFields
      BY <1>1, <2>1, NoCheckIsTyped DEF CheckCounts
    <2>. QED
      BY <2>4, <2>5, <2>6 DEF PackDialogs
  <1>2. CASE ~CheckCounts(w)
    BY <1>2 DEF CheckShown
  <1>. QED
    BY <1>1, <1>2

\* The answer of a check.
LEMMA CheckAnsweredKeeps ==
    ASSUME PackInv, NEW w \in packWork, CheckAnswered(w)
    PROVE PackInv'
  <1>1. w \in PackWorks /\ packDialog \in PackDialogs
    BY WorkFacts, DialogFields
  <1>2. PICK ui \in PackDialogs :
            /\ ui = CheckShown(packDialog, w) /\ ui.busy = packDialog.busy /\ ui.opNo = packDialog.opNo
            /\ ui.list = packDialog.list /\ ui.listNo = packDialog.listNo /\ ui.loading = packDialog.loading
            /\ ui.input = packDialog.input /\ (ui.check # NoCheck => ui.check.pack = ui.input)
    BY <1>1, CheckShownIs DEF PackInv, OffersWhatIsTyped
  <1>3. packDialog' = Finished(ui, w)
    BY <1>2 DEF CheckAnswered
  <1>4. /\ packDialog' \in PackDialogs /\ packDialog'.list = packDialog.list /\ packDialog'.opNo = packDialog.opNo
        /\ packDialog'.listNo = packDialog.listNo /\ packDialog'.loading = packDialog.loading
        /\ packDialog'.busy = IF w.op = packDialog.opNo THEN "no" ELSE packDialog.busy
    BY <1>1, <1>2, <1>3, FinishedIs
  <1>5. packDialog'.check = ui.check /\ packDialog'.input = ui.input
    BY <1>1, <1>3, FinishedIs
  <1>6. /\ packWork' = packWork \ {w} /\ w.key = "check" /\ w.stage = "asked"
        /\ UNCHANGED <<packsHere, packsFromGit, packsInUse, packsReleased, packsRevision,
                       packLists, storeDialog, storeWork, storeCatalogs>>
    BY DEF CheckAnswered, serverOfPacks
  <1>7. packsRevision \in Nat /\ packDialog.list.rev \in Nat /\ packDialog.listNo \in Nat
    BY DialogFields
  <1>8. WorksStand'
    BY <1>4, <1>6, <1>7, WorkEnds
  <1>9. ListsStand'
    BY <1>4, <1>6, <1>7, FewerLists DEF PackInv, ListsStand
  <1>10. StoreStands'
    BY <1>6, <1>7, SameStore
  <1>11. LibraryListsStand' /\ StoreListsStand'
    BY <1>6 DEF PackInv, LibraryListsStand, StoreListsStand
  <1>12. OffersWhatIsTyped'
    BY <1>2, <1>5 DEF OffersWhatIsTyped
  <1>13. ServerTypes' /\ LibraryTypes' /\ StoreTypes'
    BY <1>4, <1>6 DEF PackInv, ServerTypes, LibraryTypes, StoreTypes
  <1>. QED
    BY <1>8, <1>9, <1>10, <1>11, <1>12, <1>13 DEF PackInv

\* An operation fails.
LEMMA WorkFailsKeeps ==
    ASSUME PackInv, NEW w \in packWork, WorkFails(w)
    PROVE PackInv'
  <1>1. w \in PackWorks /\ packDialog \in PackDialogs
    BY WorkFacts, DialogFields
  <1>2. PICK ui \in PackDialogs :
            /\ ui = (IF IsCurrent(w) THEN [packDialog EXCEPT !.said = "failed"] ELSE packDialog)
            /\ ui.busy = packDialog.busy /\ ui.opNo = packDialog.opNo
            /\ ui.list = packDialog.list /\ ui.listNo = packDialog.listNo /\ ui.loading = packDialog.loading
            /\ ui.input = packDialog.input /\ ui.check = packDialog.check
    <2>1. CASE IsCurrent(w)
      <3>1. PICK ui \in PackDialogs : ui = [packDialog EXCEPT !.said = "failed"]
        BY <1>1 DEF PackDialogs
      <3>2. /\ ui.busy = packDialog.busy /\ ui.opNo = packDialog.opNo
            /\ ui.list = packDialog.list /\ ui.listNo = packDialog.listNo /\ ui.loading = packDialog.loading
            /\ ui.input = packDialog.input /\ ui.check = packDialog.check
        BY <1>1, <3>1 DEF PackDialogs
      <3>. QED
        BY <2>1, <3>1, <3>2
    <2>2. CASE ~IsCurrent(w)
      BY <1>1, <2>2
    <2>. QED
      BY <2>1, <2>2
  <1>3. packDialog' = Finished(ui, w)
    BY <1>2 DEF WorkFails
  <1>4. /\ packDialog' \in PackDialogs /\ packDialog'.list = packDialog.list /\ packDialog'.opNo = packDialog.opNo
        /\ packDialog'.listNo = packDialog.listNo /\ packDialog'.loading = packDialog.loading
        /\ packDialog'.busy = IF w.op = packDialog.opNo THEN "no" ELSE packDialog.busy
    BY <1>1, <1>2, <1>3, FinishedIs
  <1>5. packDialog'.check = packDialog.check /\ packDialog'.input = packDialog.input
    BY <1>1, <1>2, <1>3, FinishedIs
  <1>6. /\ packWork' = packWork \ {w} /\ w.stage # "listing"
        /\ UNCHANGED <<packLists, storeDialog, storeWork, storeCatalogs>>
    BY DEF WorkFails
  <1>7. packsRevision \in Nat /\ packDialog.list.rev \in Nat /\ packDialog.listNo \in Nat
    BY DialogFields
  <1>8. ServerTypes' /\ packsRevision' \in Nat /\ packsRevision' >= packsRevision
    BY <1>1, <1>7, DoesKeeps DEF PackInv, WorksStand, serverOfPacks, ServerTypes, WorkFails
  <1>9. WorksStand'
    BY <1>4, <1>6, <1>7, <1>8, WorkEnds
  <1>10. ListsStand'
    BY <1>4, <1>6, <1>7, <1>8, FewerLists DEF PackInv, ListsStand
  <1>11. StoreStands'
    BY <1>6, <1>8, SameStore
  <1>12. LibraryListsStand' /\ StoreListsStand'
    BY <1>6 DEF PackInv, LibraryListsStand, StoreListsStand
  <1>13. OffersWhatIsTyped'
    BY <1>5 DEF PackInv, OffersWhatIsTyped
  <1>14. LibraryTypes' /\ StoreTypes'
    BY <1>4, <1>6 DEF PackInv, LibraryTypes, StoreTypes
  <1>. QED
    BY <1>8, <1>9, <1>10, <1>11, <1>12, <1>13, <1>14 DEF PackInv

\* The answer of an operation: the list is asked for.
LEMMA WorkAnsweredKeeps ==
    ASSUME PackInv, NEW w \in packWork, WorkAnswered(w)
    PROVE PackInv'
  <1>1. w \in PackWorks /\ packDialog \in PackDialogs /\ w.op \in Nat /\ w.key # "check" /\ w.stage = "asked"
    BY WorkFacts, DialogFields DEF WorkAnswered
  <1>2. ServerTypes' /\ packsRevision' \in Nat /\ packsRevision' >= packsRevision
    BY <1>1, DoesKeeps DEF PackInv, WorksStand, WorkAnswered
  <1>3. PICK l \in PackLists : /\ l.no = packDialog.listNo + 1 /\ l.by = "library" /\ l.seen.rev = 0
                               /\ packLists' = packLists \cup {l}
    BY <1>1, AskedFor DEF WorkAnswered
  <1>4. /\ packDialog' \in PackDialogs /\ packDialog'.listNo = packDialog.listNo + 1
        /\ packDialog'.list = packDialog.list /\ packDialog'.opNo = packDialog.opNo
        /\ packDialog'.busy = packDialog.busy /\ packDialog'.check = packDialog.check
        /\ packDialog'.input = packDialog.input
    BY <1>1, AskedFor DEF WorkAnswered
  <1>5. PICK now \in Nat : now = packsRevision'
    BY <1>2
  <1>6. PICK x \in PackWorks : x = [w EXCEPT !.stage = "listing", !.rev = now]
    BY <1>1 DEF PackWorks
  <1>7. x.op = w.op /\ x.key = w.key /\ x.stage = "listing" /\ x.rev = now /\ x.version = w.version /\ x.to = w.to
    BY <1>1, <1>6 DEF PackWorks
  <1>8. packWork' = (packWork \ {w}) \cup {x} /\ UNCHANGED <<storeDialog, storeWork, storeCatalogs>>
    BY <1>5, <1>6 DEF WorkAnswered
  <1>9. packsRevision \in Nat /\ packDialog.list.rev \in Nat /\ packDialog.listNo \in Nat /\ packDialog.opNo \in Nat
    BY DialogFields
  <1>10. \A y \in packWork : y # w => y.key = "check" /\ y.stage = "asked" /\ y.op # w.op
    BY <1>1 DEF PackInv, WorksStand
  <1>11. WorksStand'
    <2>1. packDialog'.busy # "no" => \E y \in packWork' : y.op = packDialog'.opNo /\ y.key = packDialog'.busy
      BY <1>4, <1>7, <1>8 DEF PackInv, WorksStand
    <2>2. \A y, z \in packWork' : y.op = z.op => y = z
      BY <1>7, <1>8, <1>10 DEF PackInv, WorksStand
    <2>3. \A y \in packWork : y # w => y.rev \in Nat /\ y.rev <= packsRevision /\ y.op <= packDialog.opNo
      BY WorkFacts DEF PackInv, WorksStand
    <2>4. \A y \in packWork' :
              /\ y.op <= packDialog'.opNo
              /\ y.key # "check" => y.op = packDialog'.opNo /\ packDialog'.busy = y.key
              /\ y.key = "check" => y.stage = "asked"
              /\ y.key = "state" => y.version \in Versions /\ y.to # "none"
              /\ y.key = "remove" => y.version \in Versions
              /\ y.rev <= packsRevision'
              /\ y.stage # "checking"
      BY <1>1, <1>4, <1>5, <1>7, <1>9, <1>2, <1>10, <2>3, <1>8 DEF PackInv, WorksStand
    <2>. QED
      BY <2>1, <2>2, <2>4 DEF WorksStand
  <1>12. ListsStand'
    BY <1>2, <1>3, <1>4, OneMoreList
  <1>13. StoreStands'
    BY <1>2, <1>8, SameStore
  <1>14. LibraryListsStand'
    BY <1>1, <1>10, <1>3, <1>7, <1>8 DEF PackInv, LibraryListsStand
  <1>15. StoreListsStand' /\ OffersWhatIsTyped'
    BY <1>3, <1>4, <1>8 DEF PackInv, StoreListsStand, OffersWhatIsTyped
  <1>16. LibraryTypes' /\ StoreTypes'
    BY <1>3, <1>4, <1>8 DEF PackInv, LibraryTypes, StoreTypes
  <1>. QED
    BY <1>2, <1>11, <1>12, <1>13, <1>14, <1>15, <1>16 DEF PackInv

\* The server reads the list.
LEMMA ServeListKeeps ==
    ASSUME PackInv, NEW l \in packLists, ServeList(l)
    PROVE PackInv'
  <1>1. PICK now \in Snapshots : now = Snapshot /\ now.rev = packsRevision
    BY SnapshotIsTyped DEF PackInv
  <1>2. PICK k \in PackLists : k = [l EXCEPT !.seen = now]
    BY ListFacts DEF PackLists
  <1>3. k.no = l.no /\ k.by = l.by /\ k.seen = now /\ k.seen.rev = packsRevision
    BY <1>1, <1>2, ListFacts DEF PackLists
  <1>4. /\ packLists' = (packLists \ {l}) \cup {k} /\ l.seen.rev = 0
        /\ UNCHANGED <<packsHere, packsFromGit, packsInUse, packsReleased, packsRevision,
                       packDialog, packWork, storeDialog, storeWork, storeCatalogs>>
    BY <1>1, <1>2 DEF ServeList, serverOfPacks
  <1>5. packsRevision \in Nat \ {0} /\ packDialog.list.rev \in Nat
    BY DialogFields
  <1>6. WorksStand'
    BY <1>4, <1>5, SameWorks
  <1>7. ListsStand'
    BY <1>3, <1>4, <1>5 DEF PackInv, ListsStand
  <1>8. StoreStands'
    BY <1>4, <1>5, SameStore
  <1>9. LibraryListsStand'
    BY <1>3, <1>4 DEF PackInv, LibraryListsStand, WorksStand
  <1>10. StoreListsStand'
    BY <1>3, <1>4 DEF PackInv, StoreListsStand, StoreStands
  <1>11. OffersWhatIsTyped'
    BY <1>4 DEF PackInv, OffersWhatIsTyped
  <1>12. ServerTypes' /\ LibraryTypes' /\ StoreTypes'
    BY <1>4 DEF PackInv, ServerTypes, LibraryTypes, StoreTypes
  <1>. QED
    BY <1>6, <1>7, <1>8, <1>9, <1>10, <1>11, <1>12 DEF PackInv

\* What the answer of a list makes of the dialog, and what is left of the lists.
LEMMA ListedIs ==
    ASSUME PackInv, NEW l \in packLists, NEW ok \in BOOLEAN, ok => l.seen.rev > 0
    PROVE /\ Listed(l, ok) \in PackDialogs /\ Listed(l, ok).busy = packDialog.busy
          /\ Listed(l, ok).opNo = packDialog.opNo /\ Listed(l, ok).listNo = packDialog.listNo
          /\ Listed(l, ok).check = packDialog.check /\ Listed(l, ok).input = packDialog.input
          /\ Listed(l, ok).said \in {packDialog.said, "failed"}
          /\ Listed(l, ok).list.rev \in Nat /\ Listed(l, ok).list.rev >= packDialog.list.rev
          /\ Listed(l, ok).list.rev <= packsRevision
          /\ ListCounts(l, ok) => Listed(l, ok).list = l.seen
          /\ l.no # packDialog.listNo => Listed(l, ok) = packDialog
          /\ l.no = packDialog.listNo => ~Listed(l, ok).loading
  <1>0. packDialog \in PackDialogs /\ packDialog.list.rev \in Nat /\ packsRevision \in Nat
    BY DialogFields
  <1>1. l.seen \in Snapshots /\ l.seen.rev \in Nat
    BY ListFacts
  <1>2. CASE ~ListIsCurrent(l)
    BY <1>2, <1>0 DEF Listed, PackDialogs, ListIsCurrent, ListCounts, PackInv, ListsStand
  <1>3. CASE ListIsCurrent(l) /\ ok
    BY <1>3, <1>0, <1>1 DEF Listed, PackDialogs, PackInv, ListsStand, ListIsCurrent
  <1>4. CASE ListIsCurrent(l) /\ ~ok
    <2>1. Listed(l, ok) = [packDialog EXCEPT !.loading = FALSE, !.said = "failed"]
      BY <1>4 DEF Listed
    <2>2. /\ Listed(l, ok) \in PackDialogs /\ Listed(l, ok).busy = packDialog.busy
          /\ Listed(l, ok).opNo = packDialog.opNo /\ Listed(l, ok).listNo = packDialog.listNo
          /\ Listed(l, ok).check = packDialog.check /\ Listed(l, ok).input = packDialog.input
          /\ Listed(l, ok).said = "failed" /\ Listed(l, ok).list = packDialog.list /\ ~Listed(l, ok).loading
      BY <1>0, <1>1, <2>1 DEF PackDialogs
    <2>. QED
      BY <1>0, <1>4, <2>2 DEF ListIsCurrent, ListCounts, PackInv, ListsStand
  <1>. QED
    BY <1>2, <1>3, <1>4

\* A list that arrived is on its way no more.
LEMMA ListLeaves ==
    ASSUME PackInv, NEW l \in packLists, NEW ok \in BOOLEAN, ok => l.seen.rev > 0,
           packLists' = packLists \ {l}, packDialog'.list = Listed(l, ok).list,
           packDialog'.loading = Listed(l, ok).loading, packDialog'.listNo = packDialog.listNo,
           packsRevision' = packsRevision
    PROVE ListsStand'
  <1>1. CASE l.no = packDialog.listNo
    BY <1>1, ListedIs DEF PackInv, ListsStand
  <1>2. CASE l.no # packDialog.listNo
    BY <1>2, ListedIs DEF PackInv, ListsStand
  <1>. QED
    BY <1>1, <1>2

\* A list arrives that no operation awaits.
LEMMA ListIdleKeeps ==
    ASSUME PackInv, NEW l \in packLists, NEW ok \in BOOLEAN, ok => l.seen.rev > 0, ListIdle(l, ok)
    PROVE PackInv'
  <1>1. /\ packDialog' = Listed(l, ok) /\ packLists' = packLists \ {l} /\ l.by = Nobody
        /\ UNCHANGED <<packsHere, packsFromGit, packsInUse, packsReleased, packsRevision,
                       packWork, storeDialog, storeWork, storeCatalogs>>
    BY DEF ListIdle, serverOfPacks
  <1>2. packsRevision \in Nat /\ packDialog.list.rev \in Nat
    BY DialogFields
  <1>3. WorksStand'
    BY <1>1, <1>2, ListedIs, SameWorks
  <1>4. ListsStand'
    BY <1>1, ListedIs, ListLeaves
  <1>5. StoreStands'
    BY <1>1, <1>2, SameStore
  <1>6. LibraryListsStand' /\ StoreListsStand'
    BY <1>1 DEF PackInv, LibraryListsStand, StoreListsStand, Nobody
  <1>7. OffersWhatIsTyped'
    BY <1>1, ListedIs DEF PackInv, OffersWhatIsTyped
  <1>8. ServerTypes' /\ LibraryTypes' /\ StoreTypes'
    BY <1>1, ListedIs DEF PackInv, ServerTypes, LibraryTypes, StoreTypes
  <1>. QED
    BY <1>3, <1>4, <1>5, <1>6, <1>7, <1>8 DEF PackInv

\* What is said after an installation.
LEMMA InstalledIs ==
    ASSUME NEW ui \in PackDialogs, NEW w \in PackWorks, NEW listed \in BOOLEAN
    PROVE /\ Installed(ui, w, listed) \in PackDialogs
          /\ Installed(ui, w, listed).busy = ui.busy /\ Installed(ui, w, listed).opNo = ui.opNo
          /\ Installed(ui, w, listed).list = ui.list /\ Installed(ui, w, listed).listNo = ui.listNo
          /\ Installed(ui, w, listed).loading = ui.loading /\ Installed(ui, w, listed).check = ui.check
          /\ Installed(ui, w, listed).input = ui.input
          /\ Installed(ui, w, listed).said \in {ui.said, "installed"}
          /\ ~listed => Installed(ui, w, listed).said = ui.said
BY DEF Installed, PackDialogs

\* The list that an operation awaited has arrived.
LEMMA LibraryListEnds ==
    ASSUME PackInv, NEW l \in packLists, l.by = "library", packLists' = packLists \ {l}
    PROVE LibraryListsStand'
BY DEF PackInv, LibraryListsStand

\* The list arrives that an operation of the library awaits.
LEMMA ListForLibraryKeeps ==
    ASSUME PackInv, NEW l \in packLists, NEW ok \in BOOLEAN, ok => l.seen.rev > 0, ListForLibrary(l, ok)
    PROVE PackInv'
  <1>0. PICK w \in packWork :
        /\ w.stage = "listing"
        /\ IF w.key = "github" /\ w.pack = packDialog.input
           THEN /\ packDialog' = [Listed(l, ok) EXCEPT !.checkNo = @ + 1]
                /\ packWork' = (packWork \ {w}) \cup
                       {[w EXCEPT !.stage = "checking", !.checkNo = packDialog.checkNo + 1,
                                  !.listed = ListCounts(l, ok)]}
           ELSE /\ packDialog' = Finished(Installed(Listed(l, ok), w, ListCounts(l, ok)), w)
                /\ packWork' = packWork \ {w}
    BY DEF ListForLibrary
  <1>1. /\ packLists' = packLists \ {l} /\ l.by = "library"
        /\ UNCHANGED <<packsHere, packsFromGit, packsInUse, packsReleased, packsRevision,
                       storeDialog, storeWork, storeCatalogs>>
    BY DEF ListForLibrary, serverOfPacks
  <1>2. packsRevision \in Nat /\ packDialog.list.rev \in Nat /\ packDialog.checkNo \in Nat
    BY DialogFields
  <1>4. ListCounts(l, ok) \in BOOLEAN
    BY DEF ListCounts, ListIsCurrent
  <1>5. PICK ui \in PackDialogs :
            /\ ui = Listed(l, ok) /\ ui.busy = packDialog.busy /\ ui.opNo = packDialog.opNo
            /\ ui.listNo = packDialog.listNo /\ ui.check = packDialog.check /\ ui.input = packDialog.input
            /\ ui.list.rev \in Nat /\ ui.list.rev >= packDialog.list.rev
    BY ListedIs
  <1>6. w \in PackWorks /\ w.rev \in Nat /\ w.key # "check" /\ w.op = packDialog.opNo /\ packDialog.busy = w.key
        /\ w.op \in Nat
    BY <1>0, WorkFacts DEF PackInv, WorksStand
  <1>7. CASE w.key = "github" /\ w.pack = packDialog.input
    <2>1. PICK next \in Nat, other \in Nat : next = ui.checkNo + 1 /\ other = packDialog.checkNo + 1
      BY <1>2 DEF PackDialogs
    <2>2. packDialog' = [ui EXCEPT !.checkNo = next]
      BY <1>0, <1>5, <1>7, <2>1
    <2>3. /\ packDialog' \in PackDialogs /\ packDialog'.busy = packDialog.busy /\ packDialog'.opNo = packDialog.opNo
          /\ packDialog'.listNo = packDialog.listNo /\ packDialog'.check = packDialog.check
          /\ packDialog'.input = packDialog.input /\ packDialog'.list = ui.list /\ packDialog'.loading = ui.loading
      BY <1>5, <2>2 DEF PackDialogs
    <2>4. PICK counted \in BOOLEAN : counted = ListCounts(l, ok)
      BY <1>4
    <2>5. PICK x \in PackWorks : x = [w EXCEPT !.stage = "checking", !.checkNo = other, !.listed = counted]
      BY <1>6 DEF PackWorks
    <2>6. /\ x.op = w.op /\ x.key = w.key /\ x.stage = "checking" /\ x.rev = w.rev /\ x.version = w.version
          /\ x.to = w.to /\ x.listed = counted
      BY <1>6, <2>5 DEF PackWorks
    <2>7. packWork' = (packWork \ {w}) \cup {x}
      BY <1>0, <1>7, <2>1, <2>4, <2>5
    <2>8. counted => w.rev <= ui.list.rev
      BY <1>5, <2>4, <1>0, <1>1, ListedIs DEF ListCounts, PackInv, LibraryListsStand
    <2>9. WorksStand'
      <3>1. packDialog'.busy # "no" => \E y \in packWork' : y.op = packDialog'.opNo /\ y.key = packDialog'.busy
        BY <1>6, <2>3, <2>6, <2>7
      <3>2. \A y, z \in packWork' : y.op = z.op => y = z
        BY <2>6, <2>7 DEF PackInv, WorksStand
      <3>3. SUFFICES ASSUME NEW y \in packWork'
                     PROVE /\ y.op <= packDialog.opNo
                           /\ y.key # "check" => y.op = packDialog.opNo /\ packDialog.busy = y.key
                           /\ y.key = "check" => y.stage = "asked"
                           /\ y.key = "state" => y.version \in Versions /\ y.to # "none"
                           /\ y.key = "remove" => y.version \in Versions
                           /\ y.rev <= packsRevision
                           /\ y.stage = "checking" /\ y.listed => y.rev <= ui.list.rev
        BY <1>1, <2>3, <3>1, <3>2 DEF WorksStand
      <3>4. CASE y = x
        BY <1>6, <2>6, <2>8, <3>4 DEF PackInv, WorksStand
      <3>5. CASE y \in packWork
        BY <3>5, <1>2, <1>5, WorkFacts DEF PackInv, WorksStand
      <3>. QED
        BY <2>7, <3>4, <3>5
    <2>10. ListsStand'
      BY <1>1, <1>5, <2>3, ListLeaves
    <2>11. LibraryTypes' /\ OffersWhatIsTyped'
      BY <1>1, <2>3, <2>7 DEF PackInv, LibraryTypes, OffersWhatIsTyped
    <2>. QED
      BY <1>1, <1>2, <2>9, <2>10, <2>11, LibraryListEnds, SameStore DEF PackInv, ServerTypes,
         StoreTypes, StoreListsStand
  <1>8. CASE ~(w.key = "github" /\ w.pack = packDialog.input)
    <2>1. PICK told \in PackDialogs :
            /\ told = Installed(ui, w, ListCounts(l, ok)) /\ told.busy = ui.busy /\ told.opNo = ui.opNo
            /\ told.listNo = ui.listNo /\ told.check = ui.check /\ told.input = ui.input
            /\ told.list = ui.list /\ told.loading = ui.loading
      BY <1>4, <1>6, InstalledIs
    <2>2. packDialog' = Finished(told, w) /\ packWork' = packWork \ {w}
      BY <1>0, <1>5, <1>8, <2>1
    <2>3. /\ packDialog' \in PackDialogs /\ packDialog'.opNo = packDialog.opNo
          /\ packDialog'.busy = (IF w.op = packDialog.opNo THEN "no" ELSE packDialog.busy)
          /\ packDialog'.listNo = packDialog.listNo /\ packDialog'.check = packDialog.check
          /\ packDialog'.input = packDialog.input /\ packDialog'.list = ui.list /\ packDialog'.loading = ui.loading
      BY <1>5, <1>6, <2>1, <2>2, FinishedIs
    <2>4. WorksStand'
      BY <1>1, <1>2, <1>5, <2>2, <2>3, WorkEnds
    <2>5. ListsStand'
      BY <1>1, <1>5, <2>3, ListLeaves
    <2>6. LibraryTypes' /\ OffersWhatIsTyped'
      BY <1>1, <2>2, <2>3 DEF PackInv, LibraryTypes, OffersWhatIsTyped
    <2>. QED
      BY <1>1, <1>2, <2>4, <2>5, <2>6, LibraryListEnds, SameStore DEF PackInv, ServerTypes,
         StoreTypes, StoreListsStand
  <1>. QED
    BY <1>7, <1>8

\* The check that follows an installation.
LEMMA CheckedAgainKeeps ==
    ASSUME PackInv, NEW w \in packWork, CheckedAgain(w)
    PROVE PackInv'
  <1>1. w \in PackWorks /\ packDialog \in PackDialogs /\ w.listed \in BOOLEAN
    BY WorkFacts, DialogFields
  <1>2. PICK ui \in PackDialogs :
            /\ ui = CheckShown(packDialog, w) /\ ui.busy = packDialog.busy /\ ui.opNo = packDialog.opNo
            /\ ui.list = packDialog.list /\ ui.listNo = packDialog.listNo /\ ui.loading = packDialog.loading
            /\ ui.input = packDialog.input /\ (ui.check # NoCheck => ui.check.pack = ui.input)
    BY <1>1, CheckShownIs DEF PackInv, OffersWhatIsTyped
  <1>3. PICK told \in PackDialogs :
            /\ told = Installed(ui, w, w.listed) /\ told.busy = ui.busy /\ told.opNo = ui.opNo
            /\ told.listNo = ui.listNo /\ told.check = ui.check /\ told.input = ui.input
            /\ told.list = ui.list /\ told.loading = ui.loading
    BY <1>1, InstalledIs
  <1>4. packDialog' = Finished(told, w)
    BY <1>2, <1>3 DEF CheckedAgain
  <1>5. /\ packDialog' \in PackDialogs /\ packDialog'.list = packDialog.list /\ packDialog'.opNo = packDialog.opNo
        /\ packDialog'.listNo = packDialog.listNo /\ packDialog'.loading = packDialog.loading
        /\ packDialog'.busy = IF w.op = packDialog.opNo THEN "no" ELSE packDialog.busy
    BY <1>1, <1>2, <1>3, <1>4, FinishedIs
  <1>6. packDialog'.check = ui.check /\ packDialog'.input = ui.input
    BY <1>1, <1>3, <1>4, FinishedIs
  <1>7. /\ packWork' = packWork \ {w} /\ w.stage = "checking"
        /\ UNCHANGED <<packsHere, packsFromGit, packsInUse, packsReleased, packsRevision,
                       packLists, storeDialog, storeWork, storeCatalogs>>
    BY DEF CheckedAgain, serverOfPacks
  <1>8. packsRevision \in Nat /\ packDialog.list.rev \in Nat /\ packDialog.listNo \in Nat
    BY DialogFields
  <1>9. WorksStand'
    BY <1>5, <1>7, <1>8, WorkEnds
  <1>10. ListsStand'
    BY <1>5, <1>7, <1>8, FewerLists DEF PackInv, ListsStand
  <1>11. StoreStands'
    BY <1>7, <1>8, SameStore
  <1>12. LibraryListsStand' /\ StoreListsStand'
    BY <1>7 DEF PackInv, LibraryListsStand, StoreListsStand
  <1>13. OffersWhatIsTyped'
    BY <1>2, <1>6 DEF OffersWhatIsTyped
  <1>14. ServerTypes' /\ LibraryTypes' /\ StoreTypes'
    BY <1>5, <1>7 DEF PackInv, ServerTypes, LibraryTypes, StoreTypes
  <1>. QED
    BY <1>9, <1>10, <1>11, <1>12, <1>13, <1>14 DEF PackInv

\* The list arrives that the store awaits.
LEMMA ListForStoreKeeps ==
    ASSUME PackInv, NEW l \in packLists, NEW ok \in BOOLEAN, ok => l.seen.rev > 0, ListForStore(l, ok)
    PROVE PackInv'
  <1>1. /\ packLists' = packLists \ {l} /\ l.by = "store" /\ storeWork' = NoWork
        /\ UNCHANGED <<packsHere, packsFromGit, packsInUse, packsReleased, packsRevision,
                       packWork, storeDialog, storeCatalogs>>
    BY DEF ListForStore, serverOfPacks
  <1>2. packsRevision \in Nat /\ packDialog.list.rev \in Nat
    BY DialogFields
  <1>3. PICK ui \in PackDialogs :
            /\ ui = Listed(l, ok) /\ ui.busy = packDialog.busy /\ ui.opNo = packDialog.opNo
            /\ ui.listNo = packDialog.listNo /\ ui.check = packDialog.check /\ ui.input = packDialog.input
            /\ ui.list.rev \in Nat /\ ui.list.rev >= packDialog.list.rev
    BY ListedIs
  <1>4. packDialog' = [ui EXCEPT !.said = "installed"] \/ packDialog' = ui
    BY <1>3 DEF ListForStore
  <1>5. /\ packDialog' \in PackDialogs /\ packDialog'.busy = packDialog.busy /\ packDialog'.opNo = packDialog.opNo
        /\ packDialog'.listNo = packDialog.listNo /\ packDialog'.check = packDialog.check
        /\ packDialog'.input = packDialog.input /\ packDialog'.list = ui.list /\ packDialog'.loading = ui.loading
    BY <1>3, <1>4 DEF PackDialogs
  <1>6. storeWork.stage = "packs" /\ storeWork'.stage = "none" /\ storeWork' \in StoreWorks
    BY <1>1 DEF PackInv, StoreListsStand, NoWork, StoreWorks
  <1>7. WorksStand'
    BY <1>1, <1>2, <1>3, <1>5, SameWorks
  <1>8. ListsStand'
    BY <1>1, <1>3, <1>5, ListLeaves
  <1>9. StoreStands'
    BY <1>1, <1>6 DEF PackInv, StoreStands
  <1>10. StoreListsStand' /\ LibraryListsStand'
    BY <1>1, <1>6 DEF PackInv, StoreListsStand, LibraryListsStand
  <1>11. OffersWhatIsTyped' /\ ServerTypes' /\ LibraryTypes' /\ StoreTypes'
    BY <1>1, <1>5, <1>6 DEF PackInv, OffersWhatIsTyped, ServerTypes, LibraryTypes, StoreTypes
  <1>. QED
    BY <1>7, <1>8, <1>9, <1>10, <1>11 DEF PackInv

\* A step of the store that only says something in the library.
LEMMA SaysKeeps ==
    ASSUME PackInv, NEW told \in {"nothing", "failed"}, packDialog' = [packDialog EXCEPT !.said = told],
           UNCHANGED <<packWork, packLists>>, packsRevision' \in Nat, packsRevision' >= packsRevision
    PROVE LibraryTypes' /\ WorksStand' /\ ListsStand' /\ LibraryListsStand' /\ OffersWhatIsTyped'
BY DialogFields, SameWorks, FewerLists DEF PackDialogs, PackInv, ListsStand, LibraryTypes,
   LibraryListsStand, OffersWhatIsTyped

\* A step beside the library.
LEMMA SameLibrary ==
    ASSUME PackInv, UNCHANGED <<packDialog, packWork, packLists, packsRevision>>
    PROVE LibraryTypes' /\ WorksStand' /\ ListsStand' /\ LibraryListsStand' /\ OffersWhatIsTyped'
BY DEF PackInv, LibraryTypes, WorksStand, ListsStand, LibraryListsStand, OffersWhatIsTyped

\* A catalog is asked for: it is the newest one.
LEMMA CatalogAskedFor ==
    ASSUME NEW ui \in StoreDialogs, NEW by \in {Nobody, "store"}, AskForCatalog(ui, by)
    PROVE /\ storeDialog' \in StoreDialogs /\ storeDialog'.no = ui.no + 1
          /\ \E c \in [no : Nat, by : {Nobody, "store"}] :
                c.no = ui.no + 1 /\ c.by = by /\ storeCatalogs' = storeCatalogs \cup {c}
  <1>1. PICK next \in Nat : next = ui.no + 1
    BY DEF StoreDialogs
  <1>2. storeDialog' = [ui EXCEPT !.no = next, !.loading = TRUE]
    BY <1>1 DEF AskForCatalog
  <1>3. PICK c \in [no : Nat, by : {Nobody, "store"}] : c = [no |-> next, by |-> by]
    OBVIOUS
  <1>4. c.no = next /\ c.by = by /\ storeCatalogs' = storeCatalogs \cup {c}
    BY <1>1, <1>3 DEF AskForCatalog
  <1>5. storeDialog' \in StoreDialogs /\ storeDialog'.no = next
    BY <1>2 DEF StoreDialogs
  <1>. QED
    BY <1>1, <1>3, <1>4, <1>5

\* The store is opened.
LEMMA OpenStoreKeeps ==
    ASSUME PackInv, OpenStore
    PROVE PackInv'
  <1>0. storeDialog \in StoreDialogs
    BY StoreFacts
  <1>1. PICK ui \in StoreDialogs : ui = [storeDialog EXCEPT !.open = TRUE] /\ ui.no = storeDialog.no
    <2>1. PICK ui : ui = [storeDialog EXCEPT !.open = TRUE]
      OBVIOUS
    <2>2. ui \in StoreDialogs /\ ui.no = storeDialog.no
      BY <1>0, <2>1 DEF StoreDialogs
    <2>. QED
      BY <2>1, <2>2
  <1>2. AskForCatalog(ui, Nobody)
    BY <1>1 DEF OpenStore
  <1>3. /\ packDialog' = [packDialog EXCEPT !.said = "nothing"]
        /\ UNCHANGED <<packsHere, packsFromGit, packsInUse, packsReleased, packsRevision, packWork, packLists, storeWork>>
    BY DEF OpenStore, serverOfPacks
  <1>4. storeDialog' \in StoreDialogs /\ storeDialog'.no = storeDialog.no + 1
    BY <1>1, <1>2, CatalogAskedFor
  <1>5. PICK c \in [no : Nat, by : {Nobody, "store"}] :
            c.no = storeDialog.no + 1 /\ c.by = Nobody /\ storeCatalogs' = storeCatalogs \cup {c}
    BY <1>1, <1>2, CatalogAskedFor
  <1>6. packsRevision \in Nat
    BY DialogFields
  <1>7. LibraryTypes' /\ WorksStand' /\ ListsStand' /\ LibraryListsStand' /\ OffersWhatIsTyped'
    BY <1>3, <1>6, SaysKeeps
  <1>8. StoreStands'
    BY <1>3, <1>4, <1>5, StoreFacts DEF PackInv, StoreStands, Nobody
  <1>. QED
    BY <1>3, <1>4, <1>5, <1>7, <1>8 DEF PackInv, ServerTypes, StoreTypes, StoreListsStand

\* The store when it is closed.
LEMMA ClosedStoreIs ==
    ASSUME PackInv
    PROVE ClosedStore \in StoreDialogs /\ ClosedStore.no = storeDialog.no + 1 /\ ~ClosedStore.loading
  <1>1. PICK next \in Nat : next = storeDialog.no + 1
    BY StoreFacts
  <1>2. ClosedStore = [storeDialog EXCEPT !.open = FALSE, !.loading = FALSE, !.no = next]
    BY <1>1 DEF ClosedStore
  <1>. QED
    BY <1>1, <1>2, StoreFacts DEF StoreDialogs

\* A step of the store's dialog alone.
LEMMA StoreDialogMoves ==
    ASSUME PackInv, storeDialog' \in StoreDialogs,
           storeDialog'.no = storeDialog.no \/ storeDialog'.no = storeDialog.no + 1,
           storeDialog'.loading => storeDialog.loading /\ storeDialog'.no = storeDialog.no,
           UNCHANGED <<packsHere, packsFromGit, packsInUse, packsReleased, packsRevision,
                       packDialog, packWork, packLists, storeWork, storeCatalogs>>
    PROVE PackInv'
BY StoreFacts, SameLibrary DEF PackInv, StoreStands, ServerTypes, StoreTypes, StoreListsStand

\* The steps of the dialog of the store.
LEMMA StoreDialogKeeps ==
    ASSUME PackInv, CloseStore \/ ChoosePageKit \/ BackToCatalog
    PROVE PackInv'
  <1>1. UNCHANGED <<packsHere, packsFromGit, packsInUse, packsReleased, packsRevision,
                    packDialog, packWork, packLists, storeWork, storeCatalogs>>
    BY DEF CloseStore, ChoosePageKit, BackToCatalog, serverOfPacks
  <1>2. ClosedStore \in StoreDialogs /\ ClosedStore.no = storeDialog.no + 1 /\ ~ClosedStore.loading
    BY ClosedStoreIs
  <1>3. CASE CloseStore
    BY <1>1, <1>2, <1>3, StoreDialogMoves DEF CloseStore
  <1>4. CASE ChoosePageKit
    BY <1>4, <1>2, <1>1, StoreDialogMoves DEF ChoosePageKit, StoreDialogs
  <1>5. CASE BackToCatalog
    BY <1>5, <1>1, StoreFacts, StoreDialogMoves DEF BackToCatalog, StoreDialogs
  <1>. QED
    BY <1>3, <1>4, <1>5

\* An installation of the store begins.
LEMMA StoreWorkBegins ==
    ASSUME PackInv, InstallProduct \/ ApplyPageKit
    PROVE PackInv'
  <1>1. /\ packDialog' = [packDialog EXCEPT !.said = "nothing"] /\ storeWork = NoWork
        /\ storeDialog' = [storeDialog EXCEPT !.ops = @ + 1]
        /\ UNCHANGED <<packsHere, packsFromGit, packsInUse, packsReleased, packsRevision,
                       packWork, packLists, storeCatalogs>>
    BY DEF InstallProduct, ApplyPageKit, Offered, serverOfPacks
  <1>2. packsRevision \in Nat /\ storeWork.stage = "none"
    BY <1>1, DialogFields DEF NoWork
  <1>3. PICK next \in Nat : next = storeDialog.ops + 1
    BY StoreFacts
  <1>4. storeDialog' = [storeDialog EXCEPT !.ops = next]
    BY <1>1, <1>3
  <1>5. /\ storeDialog' \in StoreDialogs /\ storeDialog'.no = storeDialog.no
        /\ storeDialog'.loading = storeDialog.loading
    BY <1>4, StoreFacts DEF StoreDialogs
  <1>6. /\ storeWork' \in StoreWorks /\ storeWork'.stage \in {"asked", "applying"}
        /\ storeWork'.stage = "asked" => storeWork'.rev = 0
    <2>1. CASE InstallProduct
      BY <2>1, PackAssumption DEF InstallProduct, StoreWorks
    <2>2. CASE ApplyPageKit
      BY <2>2 DEF ApplyPageKit, StoreWorks
    <2>. QED
      BY <2>1, <2>2
  <1>7. LibraryTypes' /\ WorksStand' /\ ListsStand' /\ LibraryListsStand' /\ OffersWhatIsTyped'
    BY <1>1, <1>2, SaysKeeps
  <1>8. StoreStands' /\ StoreListsStand'
    BY <1>1, <1>2, <1>5, <1>6 DEF PackInv, StoreStands, StoreListsStand
  <1>. QED
    BY <1>1, <1>5, <1>6, <1>7, <1>8 DEF PackInv, ServerTypes, StoreTypes

\* The server has installed a product: catalog and list are asked for.
LEMMA ProductInstalledKeeps ==
    ASSUME PackInv, ProductInstalled
    PROVE PackInv'
  <1>1. /\ storeWork \in [stage : {"asked", "catalog", "packs"}, pack : Packs, rev : Nat, listed : BOOLEAN]
        /\ storeWork.stage = "asked" /\ storeWork.pack \in Packs
    BY StoreFacts DEF ProductInstalled
  <1>2. ServerTypes' /\ packsRevision' = packsRevision + 1
    <2>1. Installs(storeWork.pack, 1, FALSE)
      BY DEF ProductInstalled
    <2>. QED
      BY <1>1, <2>1, InstallsKeeps, NoCheckIsTyped, Zenon DEF PackInv
  <1>3. packsRevision \in Nat /\ packsRevision' \in Nat /\ packsRevision' >= packsRevision
    BY <1>2, DialogFields
  <1>4. PICK now \in Nat : now = packsRevision'
    BY <1>3
  <1>5. storeWork' = [storeWork EXCEPT !.stage = "catalog", !.rev = now]
    BY <1>4 DEF ProductInstalled
  <1>6. storeWork' \in StoreWorks /\ storeWork'.stage = "catalog" /\ storeWork'.rev = packsRevision'
    BY <1>1, <1>4, <1>5 DEF StoreWorks
  <1>7. storeDialog' \in StoreDialogs /\ storeDialog'.no = storeDialog.no + 1
    BY StoreFacts, CatalogAskedFor DEF ProductInstalled
  <1>8. PICK c \in [no : Nat, by : {Nobody, "store"}] :
            c.no = storeDialog.no + 1 /\ c.by = "store" /\ storeCatalogs' = storeCatalogs \cup {c}
    BY StoreFacts, CatalogAskedFor DEF ProductInstalled
  <1>9. packDialog' = [packDialog EXCEPT !.said = "nothing"] /\ UNCHANGED <<packWork, packLists>>
    BY DEF ProductInstalled
  <1>10. LibraryTypes' /\ WorksStand' /\ ListsStand' /\ LibraryListsStand' /\ OffersWhatIsTyped'
    BY <1>3, <1>9, SaysKeeps
  <1>11. StoreStands' /\ StoreListsStand'
    BY <1>1, <1>3, <1>6, <1>7, <1>8, <1>9, StoreFacts DEF PackInv, StoreStands, StoreListsStand
  <1>. QED
    BY <1>2, <1>6, <1>7, <1>8, <1>10, <1>11 DEF PackInv, StoreTypes

\* The installation of a product fails.
LEMMA ProductFailsKeeps ==
    ASSUME PackInv, ProductFails
    PROVE PackInv'
  <1>1. /\ packDialog' = [packDialog EXCEPT !.said = "failed"] /\ storeWork' = NoWork
        /\ storeWork.stage \in {"asked", "applying"}
        /\ UNCHANGED <<packWork, packLists, storeDialog, storeCatalogs>>
    BY DEF ProductFails
  <1>2. ServerTypes' /\ packsRevision' \in Nat /\ packsRevision' >= packsRevision
    <2>0. packsRevision \in Nat
      BY DialogFields
    <2>1. ASSUME storeWork.stage = "asked", Installs(storeWork.pack, 1, FALSE)
          PROVE ServerTypes' /\ packsRevision' = packsRevision + 1
      <3>1. storeWork.pack \in Packs
        BY <2>1, StoreFacts
      <3>. QED
        BY <2>1, <3>1, InstallsKeeps, NoCheckIsTyped, Zenon DEF PackInv
    <2>2. ASSUME UNCHANGED serverOfPacks
          PROVE ServerTypes' /\ packsRevision' = packsRevision
      BY <2>2 DEF PackInv, serverOfPacks, ServerTypes
    <2>3. (ServerTypes' /\ packsRevision' = packsRevision + 1) \/ (ServerTypes' /\ packsRevision' = packsRevision)
      BY <2>1, <2>2, Zenon DEF ProductFails
    <2>. QED
      BY <2>0, <2>3
  <1>3. LibraryTypes' /\ WorksStand' /\ ListsStand' /\ LibraryListsStand' /\ OffersWhatIsTyped'
    BY <1>1, <1>2, SaysKeeps
  <1>4. storeWork' \in StoreWorks /\ storeWork'.stage = "none"
    BY <1>1 DEF NoWork, StoreWorks
  <1>5. StoreStands' /\ StoreListsStand'
    BY <1>1, <1>4 DEF PackInv, StoreStands, StoreListsStand
  <1>. QED
    BY <1>1, <1>2, <1>3, <1>4, <1>5 DEF PackInv, StoreTypes

\* The store's dialog after the answer of a catalog.
LEMMA CatalogShown ==
    ASSUME PackInv, NEW c \in storeCatalogs, NEW ok \in BOOLEAN, CatalogAnswered(c, ok)
    PROVE /\ storeDialog' \in StoreDialogs /\ storeDialog'.no = storeDialog.no
          /\ storeDialog'.loading => storeDialog.loading /\ c.no # storeDialog.no
  <1>0. storeDialog \in StoreDialogs /\ packsRevision \in Nat
    BY StoreFacts, DialogFields
  <1>1. CASE c.no # storeDialog.no
    BY <1>0, <1>1 DEF CatalogAnswered
  <1>2. CASE c.no = storeDialog.no /\ ok
    BY <1>2, <1>0 DEF CatalogAnswered, StoreDialogs
  <1>3. CASE c.no = storeDialog.no /\ ~ok
    BY <1>3, <1>0 DEF CatalogAnswered, StoreDialogs
  <1>. QED
    BY <1>1, <1>2, <1>3

\* A catalog arrives, or its request fails.
LEMMA CatalogAnsweredKeeps ==
    ASSUME PackInv, NEW c \in storeCatalogs, NEW ok \in BOOLEAN, CatalogAnswered(c, ok)
    PROVE PackInv'
  <1>1. /\ storeDialog' \in StoreDialogs /\ storeDialog'.no = storeDialog.no
        /\ storeDialog'.loading => storeDialog.loading /\ c.no # storeDialog.no
    BY CatalogShown
  <1>2. /\ storeCatalogs' = storeCatalogs \ {c}
        /\ UNCHANGED <<packsHere, packsFromGit, packsInUse, packsReleased, packsRevision, packWork>>
    BY DEF CatalogAnswered, serverOfPacks
  <1>3. packsRevision \in Nat /\ packDialog.list.rev \in Nat /\ packDialog \in PackDialogs
    BY DialogFields
  <1>4. CASE c.by = "store"
    <2>1. storeWork.stage = "catalog"
      BY <1>4 DEF PackInv, StoreStands
    <2>2. storeWork \in [stage : {"asked", "catalog", "packs"}, pack : Packs, rev : Nat, listed : BOOLEAN]
      BY <2>1, StoreFacts
    <2>3. PICK listed \in BOOLEAN : listed = (ok /\ c.no = storeDialog.no)
      OBVIOUS
    <2>4. storeWork' = [storeWork EXCEPT !.stage = "packs", !.listed = listed]
      BY <1>4, <2>3 DEF CatalogAnswered
    <2>5. storeWork' \in StoreWorks /\ storeWork'.stage = "packs" /\ storeWork'.rev = storeWork.rev
      BY <2>2, <2>4 DEF StoreWorks
    <2>6. AskForList(packDialog, "store")
      BY <1>4 DEF CatalogAnswered
    <2>7. /\ packDialog' \in PackDialogs /\ packDialog'.listNo = packDialog.listNo + 1
          /\ packDialog'.list = packDialog.list /\ packDialog'.opNo = packDialog.opNo
          /\ packDialog'.busy = packDialog.busy /\ packDialog'.check = packDialog.check
          /\ packDialog'.input = packDialog.input
      BY <1>3, <2>6, AskedFor
    <2>8. PICK l \in PackLists : /\ l.no = packDialog.listNo + 1 /\ l.by = "store" /\ l.seen.rev = 0
                                 /\ packLists' = packLists \cup {l}
      BY <1>3, <2>6, AskedFor
    <2>9. WorksStand'
      BY <1>2, <1>3, <2>7, SameWorks
    <2>10. ListsStand'
      BY <1>2, <1>3, <2>7, <2>8, OneMoreList
    <2>11. LibraryListsStand'
      BY <1>2, <2>8 DEF PackInv, LibraryListsStand
    <2>12. StoreListsStand'
      BY <2>1, <2>5, <2>8 DEF PackInv, StoreListsStand
    <2>13. StoreStands'
      BY <1>2, <1>4, <1>1, <2>1, <2>5 DEF PackInv, StoreStands
    <2>14. OffersWhatIsTyped' /\ ServerTypes' /\ LibraryTypes' /\ StoreTypes'
      BY <1>1, <1>2, <2>5, <2>7, <2>8 DEF PackInv, OffersWhatIsTyped, ServerTypes, LibraryTypes,
         StoreTypes
    <2>. QED
      BY <2>9, <2>10, <2>11, <2>12, <2>13, <2>14 DEF PackInv
  <1>5. CASE c.by # "store"
    <2>1. /\ UNCHANGED <<packLists, storeWork>>
          /\ packDialog' = packDialog \/ packDialog' = [packDialog EXCEPT !.said = "failed"]
      BY <1>5 DEF CatalogAnswered
    <2>2. LibraryTypes' /\ WorksStand' /\ ListsStand' /\ LibraryListsStand' /\ OffersWhatIsTyped'
      BY <1>2, <2>1, <1>3, SameLibrary, SaysKeeps
    <2>3. StoreStands'
      BY <1>1, <1>2, <1>5, <2>1 DEF PackInv, StoreStands
    <2>. QED
      BY <1>1, <1>2, <2>1, <2>2, <2>3 DEF PackInv, ServerTypes, StoreTypes, StoreListsStand
  <1>. QED
    BY <1>4, <1>5

\* Every step keeps the manager sound.
LEMMA PacksKept ==
    ASSUME PackInv, [PackManagerNext]_packManagerVars
    PROVE PackInv'
  <1>1. ASSUME UNCHANGED packManagerVars
        PROVE PackInv'
    BY <1>1, StoreFacts, StoreDialogMoves DEF packManagerVars, serverOfPacks
  <1>2. ASSUME NEW l \in packLists, NEW ok \in BOOLEAN, ok => l.seen.rev > 0,
               ListIdle(l, ok) \/ ListForLibrary(l, ok) \/ ListForStore(l, ok)
        PROVE PackInv'
    BY <1>2, ListIdleKeeps, ListForLibraryKeeps, ListForStoreKeeps
  <1>3. ASSUME NEW l \in packLists,
               \/ ListIdle(l, FALSE) \/ ListForLibrary(l, FALSE) \/ ListForStore(l, FALSE)
               \/ l.seen.rev > 0 /\ (ListIdle(l, TRUE) \/ ListForLibrary(l, TRUE) \/ ListForStore(l, TRUE))
        PROVE PackInv'
    <2>1. FALSE \in BOOLEAN /\ TRUE \in BOOLEAN
      OBVIOUS
    <2>. QED
      BY <1>2, <1>3, <2>1, Zenon
  <1>4. CASE PackManagerNext
    BY <1>3, <1>4, OthersActKeeps, OpenLibraryKeeps, CloseLibraryKeeps, ChangeInputKeeps,
       OperationsKeep, CheckAnsweredKeeps, WorkAnsweredKeeps, WorkFailsKeeps, CheckedAgainKeeps,
       ServeListKeeps, OpenStoreKeeps, StoreDialogKeeps, StoreWorkBegins, ProductInstalledKeeps,
       ProductFailsKeeps, CatalogAnsweredKeeps, Zenon DEF PackManagerNext
  <1>. QED
    BY <1>1, <1>4

\* What the invariant says of the manager.
LEMMA PacksAreRight ==
    ASSUME PackInv
    PROVE PackManagerTypeOK /\ OffersWhatIsTyped /\ MarksHaveReasons
  <1>1. PackManagerTypeOK
    BY DialogFields, WorkFacts, StoreFacts DEF PackInv, ServerTypes, PackManagerTypeOK, PackStates,
       PackFields, PackKeys
  <1>2. MarksHaveReasons
    BY DEF PackInv, WorksStand, ListsStand, StoreStands, StoreListsStand, MarksHaveReasons,
       IsCurrent, ListIsCurrent
  <1>. QED
    BY <1>1, <1>2 DEF PackInv

\* What a step may show and say in the library: a list that is no older, and that all is

\* done if the list is as new as what was done.
PackTells ==
    /\ packDialog'.list.rev >= packDialog.list.rev
    /\ packDialog'.said = "installed" /\ packDialog.said # "installed" =>
           \E w \in packWork \cup {storeWork} :
               /\ w.stage \in {"listing", "checking", "packs"}
               /\ packDialog'.list.rev >= w.rev

\* A step that shows no list and says nothing of an installation.
LEMMA SilentStep ==
    ASSUME PackInv, packDialog'.list = packDialog.list,
           packDialog'.said \in {packDialog.said, "nothing", "failed"}
    PROVE PackTells
BY DialogFields DEF PackTells

\* Asking for a list shows nothing.
LEMMA AskedSilently ==
    ASSUME PackInv, NEW ui \in PackDialogs, NEW by \in {Nobody, "library", "store"}, AskForList(ui, by),
           ui.list = packDialog.list, ui.said \in {packDialog.said, "nothing"}
    PROVE PackTells
BY AskedFor, SilentStep

\* Saying that something failed.
LEMMA SetsAreSilent ==
    ASSUME PackInv, NEW told \in {"nothing", "failed"}, packDialog' = [packDialog EXCEPT !.said = told]
    PROVE PackTells
BY DialogFields, SilentStep DEF PackDialogs

\* Opening, closing and typing show nothing new.
LEMMA LibraryIsSilent ==
    ASSUME PackInv, OpenLibrary \/ CloseLibrary \/ ChangeInput
    PROVE PackTells
  <1>0. packDialog \in PackDialogs
    BY DialogFields
  <1>1. CASE OpenLibrary
    BY <1>0, <1>1, AskedSilently DEF PackDialogs, OpenLibrary
  <1>2. CASE CloseLibrary
    BY <1>0, <1>2, SilentStep DEF CloseLibrary, PackDialogs
  <1>3. CASE ChangeInput
    BY <1>3, <1>0, SilentStep DEF ChangeInput, ChangedInput, PackDialogs
  <1>. QED
    BY <1>1, <1>2, <1>3

\* Beginning an operation shows nothing new.
LEMMA OperationsAreSilent ==
    ASSUME PackInv, CheckRepository \/ InstallFromGitHub \/ InstallFile \/ ChangeState \/ RemovePack
    PROVE PackTells
  <1>1. PICK key, p, v, to : Begin(key, p, v, to)
    BY DEF CheckRepository, InstallFromGitHub, InstallFile, ChangeState, RemovePack
  <1>2. packDialog \in PackDialogs
    BY DialogFields
  <1>3. packDialog'.list = packDialog.list /\ packDialog'.said = "nothing"
    BY <1>1, <1>2 DEF Begin, PackDialogs
  <1>. QED
    BY <1>3, SilentStep

\* The answer of an operation is not its list.
LEMMA ChecksAreSilent ==
    ASSUME PackInv, NEW w \in packWork, CheckAnswered(w) \/ WorkAnswered(w) \/ WorkFails(w)
    PROVE PackTells
  <1>1. w \in PackWorks /\ packDialog \in PackDialogs
    BY WorkFacts, DialogFields
  <1>2. CASE CheckAnswered(w)
    BY <1>1, <1>2, CheckShownIs, FinishedIs, SilentStep DEF PackInv, OffersWhatIsTyped,
       CheckAnswered
  <1>3. CASE WorkAnswered(w)
    BY <1>1, <1>3, AskedSilently DEF WorkAnswered
  <1>4. CASE WorkFails(w)
    BY <1>1, <1>4, FinishedIs, SilentStep DEF PackDialogs, WorkFails
  <1>. QED
    BY <1>2, <1>3, <1>4

\* A list that arrives tells what it was read of.
LEMMA ListTells ==
    ASSUME PackInv, NEW l \in packLists, NEW ok \in BOOLEAN, ok => l.seen.rev > 0,
           ListIdle(l, ok) \/ ListForLibrary(l, ok) \/ ListForStore(l, ok)
    PROVE PackTells
  <1>0. PICK ui \in PackDialogs :
            /\ ui = Listed(l, ok) /\ ui.list.rev >= packDialog.list.rev
            /\ ui.said \in {packDialog.said, "failed"}
            /\ ListCounts(l, ok) => ui.list = l.seen
    BY ListedIs
  <1>1. ListCounts(l, ok) \in BOOLEAN /\ (ListCounts(l, ok) => l.seen.rev > 0)
    BY DEF ListCounts, ListIsCurrent
  <1>2. CASE ListIdle(l, ok)
    BY <1>0, <1>2 DEF ListIdle, PackTells
  <1>3. CASE ListForLibrary(l, ok)
    <2>1. PICK w \in packWork :
            /\ w.stage = "listing"
            /\ \/ packDialog' = [Listed(l, ok) EXCEPT !.checkNo = @ + 1]
               \/ packDialog' = Finished(Installed(Listed(l, ok), w, ListCounts(l, ok)), w)
      BY <1>3 DEF ListForLibrary
    <2>2. w \in PackWorks
      BY WorkFacts
    <2>3. ListCounts(l, ok) => w.rev <= l.seen.rev
      BY <1>1, <1>3, <2>1 DEF ListForLibrary, PackInv, LibraryListsStand
    <2>4. ListCounts(l, ok) => w.rev \in Nat /\ l.seen.rev \in Nat
      BY WorkFacts, ListFacts
    <2>5. CASE packDialog' = [ui EXCEPT !.checkNo = @ + 1]
      BY <2>5, <1>0 DEF PackDialogs, PackTells
    <2>6. CASE packDialog' = Finished(Installed(ui, w, ListCounts(l, ok)), w)
      <3>1. PICK told \in PackDialogs :
                /\ told = Installed(ui, w, ListCounts(l, ok)) /\ told.list = ui.list
                /\ told.said \in {ui.said, "installed"}
                /\ ~ListCounts(l, ok) => told.said = ui.said
        BY <1>1, <2>2, InstalledIs
      <3>2. packDialog'.list = ui.list /\ packDialog'.said = told.said
        BY <2>2, <2>6, <3>1, FinishedIs
      <3>3. CASE ListCounts(l, ok)
        BY <1>0, <2>3, <2>4, <3>2, <3>3, <2>1 DEF PackTells
      <3>4. CASE ~ListCounts(l, ok)
        BY <1>0, <3>1, <3>2, <3>4 DEF PackTells
      <3>. QED
        BY <3>3, <3>4
    <2>. QED
      BY <1>0, <2>1, <2>5, <2>6
  <1>4. CASE ListForStore(l, ok)
    <2>1. storeWork.stage = "packs" /\ (l.seen.rev > 0 => storeWork.rev <= l.seen.rev)
      BY <1>4 DEF ListForStore, PackInv, StoreListsStand
    <2>2. CASE packDialog' = ui
      BY <1>0, <2>2 DEF PackTells
    <2>3. CASE ListCounts(l, ok) /\ packDialog' = [ui EXCEPT !.said = "installed"]
      BY <1>0, <2>3, <2>1, <1>1, StoreFacts, ListFacts DEF PackDialogs, PackTells
    <2>. QED
      BY <1>0, <1>4, <2>2, <2>3 DEF ListForStore
  <1>. QED
    BY <1>2, <1>3, <1>4

\* The check that follows an installation tells of it when the list was shown.
LEMMA CheckedAgainTells ==
    ASSUME PackInv, NEW w \in packWork, CheckedAgain(w)
    PROVE PackTells
BY WorkFacts, DialogFields, CheckShownIs, InstalledIs, FinishedIs DEF PackInv, OffersWhatIsTyped,
   CheckedAgain, WorksStand, PackTells

\* What the library tells, at every step.
LEMMA PacksTell ==
    ASSUME PackInv, [PackManagerNext]_packManagerVars
    PROVE PackTells
  <1>1. ASSUME packDialog' = packDialog
        PROVE PackTells
    BY <1>1, SilentStep
  <1>2. ASSUME UNCHANGED packManagerVars
        PROVE PackTells
    BY <1>1, <1>2 DEF packManagerVars
  <1>3. ASSUME \/ OthersAct \/ CloseStore \/ ChoosePageKit \/ BackToCatalog \/ \E l \in packLists : ServeList(l)
        PROVE PackTells
    BY <1>1, <1>3 DEF OthersAct, CloseStore, ChoosePageKit, BackToCatalog, ServeList
  <1>4. ASSUME OpenStore \/ InstallProduct \/ ApplyPageKit \/ ProductInstalled
        PROVE PackTells
    BY <1>4, SetsAreSilent DEF OpenStore, InstallProduct, ApplyPageKit, ProductInstalled
  <1>5. ASSUME ProductFails
        PROVE PackTells
    BY <1>5, SetsAreSilent DEF ProductFails
  <1>6. ASSUME NEW c \in storeCatalogs, NEW ok \in BOOLEAN, CatalogAnswered(c, ok)
        PROVE PackTells
    BY <1>6, <1>1, AskedSilently, DialogFields, SetsAreSilent DEF CatalogAnswered
  <1>7. ASSUME NEW l \in packLists,
               \/ ListIdle(l, FALSE) \/ ListForLibrary(l, FALSE) \/ ListForStore(l, FALSE)
               \/ l.seen.rev > 0 /\ (ListIdle(l, TRUE) \/ ListForLibrary(l, TRUE) \/ ListForStore(l, TRUE))
        PROVE PackTells
    <2>1. FALSE \in BOOLEAN /\ TRUE \in BOOLEAN
      OBVIOUS
    <2>. QED
      BY <1>7, <2>1, ListTells, Zenon
  <1>8. CASE PackManagerNext
    BY <1>3, <1>4, <1>5, <1>6, <1>7, <1>8, LibraryIsSilent, OperationsAreSilent, ChecksAreSilent,
       CheckedAgainTells, Zenon DEF PackManagerNext
  <1>. QED
    BY <1>2, <1>8
-----------------------------------------------------------------------------
(***************************************************************************)
(* The tools together. A behaviour works with one tool, and the others     *)
(* wait.                                                                   *)
(***************************************************************************)

\* The tool that is worked with keeps the invariant of its component.
WorkbenchInv ==
    /\ tool = "canvas" => CanvasInv
    /\ tool = "block" => CodecInv
    /\ tool = "parts" => PartInv
    /\ tool = "packs" => PackInv
    /\ tool = "kits" => KitInv
    /\ tool = "text" => TextInv
    /\ tool = "layer" => LayerInv
    /\ tool = "route" => PickerInv
    /\ tool = "gallery" => GalleryInv
    /\ tool = "bar" => BarInv

\* Whatever a step does, the tool stays, and each component makes one of its own steps or none.
LEMMA ToolsStepApart ==
  ASSUME [WorkbenchNext]_<<tool, tools>>
  PROVE  /\ tool' = tool
         /\ [CanvasContextNext]_contextVars /\ [BlockCodecNext]_codecVars /\ [PartCodecNext]_partVars
         /\ [PackManagerNext]_packManagerVars /\ [SiteKitsNext]_siteKitVars /\ [RichTextNext]_richTextVars
         /\ [FloatingNext]_floatingVars /\ [RoutePickerNext]_routePickerVars
         /\ [GalleryNext]_galleryVars /\ [ActionBarNext]_actionBarVars
<1>1. CASE UNCHANGED <<tool, tools>>
  BY <1>1 DEF tools
<1>2. CASE WorkbenchNext
  BY <1>2 DEF WorkbenchNext, Rest
<1> QED
  BY <1>1, <1>2

\* The tool that is chosen starts in a state of its own, whatever state the others wait in.
LEMMA WorkbenchStarts == WorkbenchInit => WorkbenchInv
<1> SUFFICES ASSUME WorkbenchInit PROVE WorkbenchInv
  OBVIOUS
<1>1. /\ CanvasContextInit /\ PackManagerInit /\ SiteKitsInit /\ RichTextInit /\ FloatingInit
      /\ tool = "block" => BlockCodecInit
      /\ tool = "parts" => PartCodecInit
      /\ tool = "route" => RoutePickerInit
      /\ tool = "gallery" => GalleryInit
      /\ tool = "bar" => ActionBarInit
  BY DEF WorkbenchInit
<1>2. CanvasInv /\ PackInv /\ KitInv /\ TextInv /\ LayerInv
  BY <1>1, CanvasStarts, PacksStart, KitsStart, TextStarts, LayerStarts
<1>3. /\ tool = "block" => CodecInv
      /\ tool = "parts" => PartInv
      /\ tool = "gallery" => GalleryInv
  BY <1>1, CodecStarts, PartsStart, GalleryStarts
<1>4. tool = "route" => PickerInv
  BY <1>1, PickerStarts DEF RoutePickerInit
<1>5. tool = "bar" => BarInv
  BY <1>1, BarStarts DEF ActionBarInit
<1> QED
  BY <1>2, <1>3, <1>4, <1>5 DEF WorkbenchInv

\* Every step keeps the tool sound that is worked with.
LEMMA WorkbenchStays == WorkbenchInv /\ [WorkbenchNext]_<<tool, tools>> => WorkbenchInv'
<1> SUFFICES ASSUME WorkbenchInv, [WorkbenchNext]_<<tool, tools>>
             PROVE  WorkbenchInv'
  OBVIOUS
<1>1. tool' = tool
  BY ToolsStepApart
<1>2. tool = "canvas" => CanvasInv'
  BY ToolsStepApart, CanvasKept DEF WorkbenchInv
<1>3. tool = "block" => CodecInv'
  BY ToolsStepApart, CodecKept DEF WorkbenchInv
<1>4. tool = "parts" => PartInv'
  BY ToolsStepApart, PartsKept DEF WorkbenchInv
<1>5. tool = "packs" => PackInv'
  BY ToolsStepApart, PacksKept DEF WorkbenchInv
<1>6. tool = "kits" => KitInv'
  BY ToolsStepApart, KitKept DEF WorkbenchInv
<1>7. tool = "text" => TextInv'
  BY ToolsStepApart, TextKept, TextRests DEF WorkbenchInv
<1>8. tool = "layer" => LayerInv'
  BY ToolsStepApart, LayerKept DEF WorkbenchInv
<1>9. tool = "route" => PickerInv'
  BY ToolsStepApart, PickerKept DEF WorkbenchInv
<1>10. tool = "gallery" => GalleryInv'
  BY ToolsStepApart, GalleryKept DEF WorkbenchInv
<1>11. tool = "bar" => BarInv'
  BY ToolsStepApart, BarKept DEF WorkbenchInv
<1> QED
  BY <1>1, <1>2, <1>3, <1>4, <1>5, <1>6, <1>7, <1>8, <1>9, <1>10, <1>11 DEF WorkbenchInv

\* The inductive invariant of the workbench: the tool that is worked with is sound in every state.
THEOREM WorkbenchStaysSound == WorkbenchSpec => []WorkbenchInv
BY WorkbenchStarts, WorkbenchStays, PTL DEF WorkbenchSpec

\* What the invariant says of the tool, the properties of a state at once.
LEMMA WorkbenchPromises ==
  WorkbenchInv => /\ WorkbenchTypeOK /\ ShowsWhatIsThere /\ NothingIsLost
                  /\ tool = "canvas" => PicksStayHome
<1> SUFFICES ASSUME WorkbenchInv
             PROVE  /\ WorkbenchTypeOK /\ ShowsWhatIsThere /\ NothingIsLost
                    /\ tool = "canvas" => PicksStayHome
  OBVIOUS
<1>1. tool = "canvas" => /\ CanvasContextTypeOK /\ SelectsWhatIsThere /\ StylesFollowItems
                         /\ RangeIsAlone /\ ReadonlyIsQuiet /\ PicksStayHome
  BY CanvasIsRight DEF WorkbenchInv
<1>2. tool = "block" => BlockCodecTypeOK /\ ScreenSurvives /\ UntouchedIsKept
  BY CodecIsRight DEF WorkbenchInv
<1>3. tool = "parts" => PartCodecTypeOK /\ CanvasCanBeStored /\ PartsSurvive /\ OpenedIsStoredAsItWas
  BY PartsAreRight DEF WorkbenchInv
<1>4. tool = "packs" => PackManagerTypeOK /\ OffersWhatIsTyped /\ MarksHaveReasons
  BY PacksAreRight DEF WorkbenchInv
<1>5. tool = "kits" => SiteKitsTypeOK /\ NoSiteIsForgotten /\ KitsWaitForAnAnswer
  BY KitsAreRight DEF WorkbenchInv
<1>6. tool = "text" => /\ RichTextTypeOK /\ OneChoiceAPress /\ LateCloseIsAimed
                       /\ ChoiceIsShown /\ LinkStaysHome
  BY TextIsRight DEF WorkbenchInv
<1>7. tool = "layer" => FloatingTypeOK /\ ShownInPlace
  BY LayerIsPlaced DEF WorkbenchInv
<1>8. tool = "route" => RoutePickerTypeOK /\ AskedOnce /\ SaysWhatItKnows /\ ValuesOfThisRoute
  BY PickerIsRight DEF WorkbenchInv
<1>9. tool = "gallery" => GalleryTypeOK /\ NothingEnabledIsRefused /\ DrawerIsComplete
  BY GalleryIsRight DEF WorkbenchInv
<1>10. tool = "bar" => ActionBarTypeOK /\ BarInPlace /\ BarIsReachable /\ BarCoversLittle
  BY BarIsRight DEF WorkbenchInv
<1>11. WorkbenchTypeOK
  BY <1>1, <1>2, <1>3, <1>4, <1>5, <1>6, <1>7, <1>8, <1>9, <1>10 DEF WorkbenchTypeOK
<1>12. ShowsWhatIsThere
  BY <1>1, <1>4, <1>5, <1>6, <1>7, <1>8, <1>9, <1>10 DEF ShowsWhatIsThere
<1>13. NothingIsLost
  BY <1>1, <1>2, <1>3, <1>5, <1>6, <1>8, <1>9 DEF NothingIsLost
<1> QED
  BY <1>1, <1>11, <1>12, <1>13

\* Every variable of the tool that is worked with keeps its type.
THEOREM WorkbenchTypesAreCorrect == WorkbenchSpec => []WorkbenchTypeOK
BY WorkbenchStaysSound, WorkbenchPromises, PTL

\* What a tool shows is there: selections, styles, offers, choices, links, layers, bars and drawers,
\* whatever was deleted, retyped, answered late or moved meanwhile.
THEOREM WhatIsShownIsAlwaysThere == WorkbenchSpec => []ShowsWhatIsThere
BY WorkbenchStaysSound, WorkbenchPromises, PTL

\* What a codec stores is what its editor showed and left alone; no site is installed that nobody
\* knows of, one press is one choice, nothing is asked for twice.
THEOREM NothingIsEverLost == WorkbenchSpec => []NothingIsLost
BY WorkbenchStaysSound, WorkbenchPromises, PTL

\* Each step works on what it was meant for: the card of the picker, the device of the override,
\* the newest list, the choice that was pressed, the place that was chosen.
THEOREM WorkStaysAimed == WorkbenchSpec => StaysAimed
<1>1. WorkbenchInv /\ [WorkbenchNext]_<<tool, tools>> =>
        [item.type = "hero" /\ item.props["actions"] = Plain /\ item'.props["actions"] # Plain
           => ButtonShown(item'.props) = ButtonShown(item.props)]_codecVars
  BY ToolsStepApart, CodecKept DEF ButtonStays, tools, WorkbenchNext, Rest, WorkbenchInv
<1>2. WorkbenchInv /\ [WorkbenchNext]_<<tool, tools>> =>
        [\A d, other \in Devices \cap DOMAIN item.props :
           d # other /\ item'.props[d] # item.props[d]
           => \A part \in Appearance(item.type) :
                Resolved(item'.props, other, part) = Resolved(item.props, other, part)]_codecVars
  BY ToolsStepApart, CodecKept DEF DeviceStays, tools, WorkbenchNext, Rest, WorkbenchInv
<1>3. WorkbenchInv /\ [WorkbenchNext]_<<tool, tools>> =>
        [\A part \in Parts, screen \in Screens, setting \in PartSettings :
           SetOverride(part, screen, setting) =>
              \A changed \in (Parts)' : changed.id = part.id /\ changed.type = part.type =>
                \A s \in Screens, other \in PartSettings :
                   Presented(changed, s, other) # Presented(part, s, other)
                   => /\ other = setting
                      /\ s = screen \/ (screen = "tablet" /\ <<s, setting>> \notin DOMAIN part.overrides.given)
        ]_partVars
  BY PartsAimed DEF AimedSetting, tools, WorkbenchNext, Rest, WorkbenchInv
<1>4. WorkbenchInv /\ [WorkbenchNext]_<<tool, tools>> =>
        [packDialog'.list.rev >= packDialog.list.rev]_packManagerVars
  BY ToolsStepApart, PacksTell DEF PackTells, tools, WorkbenchNext, Rest, WorkbenchInv
<1>5. WorkbenchInv /\ [WorkbenchNext]_<<tool, tools>> =>
        [packDialog'.said = "installed" /\ packDialog.said # "installed" =>
           \E w \in packWork \cup {storeWork} :
               /\ w.stage \in {"listing", "checking", "packs"}
               /\ packDialog'.list.rev >= w.rev]_packManagerVars
  BY ToolsStepApart, PacksTell DEF PackTells, tools, WorkbenchNext, Rest, WorkbenchInv
<1>6. WorkbenchInv /\ [WorkbenchNext]_<<tool, tools>> =>
        [lastChoice'.n # lastChoice.n /\ lastChoice'.by # 0 /\ lastChoice'.menu \in Menus =>
           <<lastChoice'.by, lastChoice'.value>> \in pressedNow[lastChoice'.menu]]_richTextVars
  BY ToolsStepApart, TextKept DEF ChoicePressed, tools, WorkbenchNext, Rest, WorkbenchInv
<1>7. WorkbenchInv /\ [WorkbenchNext]_<<tool, tools>> =>
        [layer.shown /\ ~layer'.shown => layer.placed # Geometry(ground, layer.limits)]_floatingVars
  BY ToolsStepApart, LayerMoves DEF tools, WorkbenchNext, Rest, WorkbenchInv
<1>8. WorkbenchInv /\ [WorkbenchNext]_<<tool, tools>> =>
        [~layer.shown /\ layer'.shown =>
           Len(placements') = StableFrames
           /\ \A i \in 1..StableFrames : placements'[i] = layer'.placed]_floatingVars
  BY ToolsStepApart, LayerMoves DEF tools, WorkbenchNext, Rest, WorkbenchInv
<1>9. WorkbenchInv /\ [WorkbenchNext]_<<tool, tools>> =>
        [gallery.open /\ shelf'.edits > shelf.edits =>
           LET spot == IF chosen # Nowhere THEN chosen ELSE DefaultSpot(ShelfPage, Selected)
           IN  /\ Selected' = spot
               /\ LengthOf(ShelfPage', spot.zone) = LengthOf(ShelfPage, spot.zone) + 1]_galleryVars
  BY ToolsStepApart, GalleryKept DEF MeantThere, tools, WorkbenchNext, Rest, WorkbenchInv
<1>10. WorkbenchInv /\ [WorkbenchNext]_<<tool, tools>> =>
        [gallery'.choice # gallery.choice \/ gallery'.filter # gallery.filter =>
           gallery'.limit = WindowSize]_galleryVars
  BY ToolsStepApart, GalleryKept DEF FirstShown, tools, WorkbenchNext, Rest, WorkbenchInv
<1>11. WorkbenchSpec => []WorkbenchInv /\ [][WorkbenchNext]_<<tool, tools>>
  BY WorkbenchStaysSound, PTL DEF WorkbenchSpec
<1>12. WorkbenchSpec => [](tool = "canvas" => PicksStayHome)
  BY <1>11, WorkbenchPromises, PTL
<1>13. WorkbenchSpec => ComposedKeepsButton
  BY <1>1, <1>11, PTL DEF ComposedKeepsButton
<1>14. WorkbenchSpec => OneDeviceAtATime
  BY <1>2, <1>11, PTL DEF OneDeviceAtATime
<1>15. WorkbenchSpec => SettingsAreAimed
  BY <1>3, <1>11, PTL DEF SettingsAreAimed
<1>16. WorkbenchSpec => ListNeverGoesBack
  BY <1>4, <1>11, PTL DEF ListNeverGoesBack
<1>17. WorkbenchSpec => SaysInstalledWhenListed
  BY <1>5, <1>11, PTL DEF SaysInstalledWhenListed
<1>18. WorkbenchSpec => ChoiceWasPressed
  BY <1>6, <1>11, PTL DEF ChoiceWasPressed
<1>19. WorkbenchSpec => HiddenWhenMoved
  BY <1>7, <1>11, PTL DEF HiddenWhenMoved
<1>20. WorkbenchSpec => ShownWhenStill
  BY <1>8, <1>11, PTL DEF ShownWhenStill
<1>21. WorkbenchSpec => GoesWhereMeant
  BY <1>9, <1>11, PTL DEF GoesWhereMeant
<1>22. WorkbenchSpec => StartsAtTheFirst
  BY <1>10, <1>11, PTL DEF StartsAtTheFirst
<1> QED
  BY <1>12, <1>13, <1>14, <1>15, <1>16, <1>17, <1>18, <1>19, <1>20, <1>21, <1>22, PTL DEF StaysAimed
=============================================================================
