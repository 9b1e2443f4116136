------------------------- MODULE CanvasToolsProofs --------------------------
(***************************************************************************)
(* The tools of the canvas keep what they promise: the context of the      *)
(* canvas, the inline menu of rich text and the layer its choices float    *)
(* in, the library of blocks and the bar of what is selected. Each has an  *)
(* invariant that its steps keep: first the lemmas about its helpers, then *)
(* one for each of its actions. WorkbenchProofs puts them together with    *)
(* the other tools.                                                        *)
(***************************************************************************)
EXTENDS CanvasContext, RichTextMenu, FloatingLayer, BlockGallery, ActionBar,
        SequenceTheorems, FiniteSetTheorems, TLAPS
-----------------------------------------------------------------------------
(***************************************************************************)
(* The context of the canvas. A step renders a page and a context. While   *)
(* the frame has not heard the newest document nothing is judged; then     *)
(* what is selected is there. Where the style of an item goes is followed  *)
(* item by item for each change of a collection.                           *)
(***************************************************************************)

\* The items of a card, and how many there may be.
Lists == {list \in Seq(Item) : Len(list) <= MostItems}

\* The media and the route of a card itself.
Owned == [media : {"first", "picked"}, route : {"first", "picked"}]

\* Which items have a style of their own.
CardFlags == [1 .. MostItems -> BOOLEAN]

\* The documents of the canvas, with their collections as sequences.
Docs == [here : SUBSET Cards, own : [Cards -> Owned], items : [Cards -> Lists],
         styled : [Cards -> CardFlags]]

\* The pages of the canvas, with their history.
Canvases == [doc : Docs, past : Seq(Docs), puck : Cards \cup {NoCard}, due : BOOLEAN,
             mode : {"edit", "recovering", "readonly"}, astray : BOOLEAN]

\* What may be selected: an element, or nothing.
Chosen == Elements \cup {NoElement}

\* The contexts that the canvas hands to its panels.
Contexts == [element : Chosen, range : BOOLEAN, anchor : Chosen, open : [Kinds2 -> BOOLEAN],
             tools : BOOLEAN, frame : {"none", "due", "stale"}, blind : BOOLEAN]

\* The session of a picker, or none.
Opened == Sessions \cup {NoSession}

\* The pickers of media and routes, and the upload that is late.
Dialogues == [media : Opened, route : Opened, late : Opened]

\* No session that can still be seen has written.
NoneWrote(p) == p.media.wrote = << >> /\ p.route.wrote = << >> /\ p.late.wrote = << >>

\* An item has a style on the canvas exactly when it was given one.
StylesFit(doc) ==
    \A card \in Cards : \A i \in 1 .. MostItems :
        i <= Len(doc.items[card]) => (doc.styled[card][i] <=> doc.items[card][i].given)

\* The styles fit in every document of the history.
PageFits(page) ==
    ~page.astray => StylesFit(page.doc) /\ \A k \in 1 .. Len(page.past) : StylesFit(page.past[k])

\* While nothing waits to be heard, what is selected is there.
Stands(page, c) == ~page.due /\ ~c.blind => ~NamesNothing(page, c.element)

\* While a text is edited, nothing lies over it.
Alone(c) == c.range => /\ c.element.part = "text" /\ c.anchor = c.element
                       /\ ~c.tools /\ c.open = NothingOpen

\* A canvas that cannot be edited selects nothing.
IsQuiet(page, c) == ~CanEdit(page) => c = NoContext

\* What the frame of the canvas has posted, and what was heard of it.
Told ==
    canvasEvents \in [posted : Chosen, posts : 0 .. 1, text : EditedTexts \cup {NoEditedText},
                      heard : EditedTexts \cup {NoEditedText}]

\* The variables have their types.
CanvasTypes ==
    /\ canvasPage \in Canvases /\ context \in Contexts /\ pickers \in Dialogues
    /\ touches \in 0 .. MaxTouches

\* No picker has written, styles follow their items, and the context fits the page.
CanvasStands ==
    /\ NoneWrote(pickers) /\ PageFits(canvasPage) /\ Stands(canvasPage, context)
    /\ Alone(context) /\ IsQuiet(canvasPage, context)
    /\ EditingDisabled(canvasPage) \/ context.range =>
           NoSession = pickers.media /\ NoSession = pickers.route

\* The inductive invariant of the canvas context.
CanvasInv == CanvasTypes /\ Told /\ CanvasStands

\* What is assumed of the cards and of the bounds.
LEMMA Bounds3 ==
    /\ MostItems \in Nat \ {0} /\ LeastItems \in Nat \ {0} /\ MaxTouches \in Nat
    /\ NoCard \notin Cards
    /\ \A c \in Cards : FirstItems[c] \in Nat /\ FirstItems[c] <= MostItems
BY CanvasContextAssumption

\* No element: it names no card.
LEMMA NoElementStands ==
    /\ NoElement \in Chosen /\ NoElement \notin Elements
    /\ NoElement.card = NoCard /\ NoElement.item = 0 /\ NoElement.part = "none"
BY Bounds3 DEF NoElement, Chosen, Elements

\* No session: it writes nothing and is meant for no place.
LEMMA NoSessionStands ==
    /\ NoSession \in Opened /\ NoSession.wrote = << >> /\ ~NoSession.uploading
    /\ NoSession.target = NoPlace /\ NoSession.owner = NoPlace
    /\ \A s \in Sessions : s # NoSession
BY Bounds3 DEF NoPlace, Places, Sessions, NoSession, Opened

\* The fields of what may be selected.
LEMMA ElementFields ==
    ASSUME NEW e \in Chosen
    PROVE  /\ e.card \in Cards \cup {NoCard} /\ e.item \in 0 .. MostItems
           /\ e # NoElement => /\ e \in Elements /\ e.card \in Cards
                               /\ e.part \in {"block", "text", "action", "media"}
BY Bounds3, NoElementStands DEF Chosen, Elements

\* What a picker is aimed at is a place, or none.
LEMMA TargetIsTyped ==
    ASSUME NEW page \in Canvases, NEW c \in Contexts, NEW kind
    PROVE  TargetOf(kind, page, c) \in Places \cup {NoPlace}
<1>1. c.element \in Chosen /\ page.puck \in Cards \cup {NoCard}
  BY DEF Contexts, Canvases
<1>2. PICK card : card = IF page.puck = NoCard THEN NoCard ELSE Located(page, c.element)
  OBVIOUS
<1>3. card \in Cards \cup {NoCard}
  BY <1>1, <1>2, ElementFields DEF Located
<1>4. PICK item : item = FieldOf(kind, card, c.element)
  OBVIOUS
<1>5. card = NoCard => item = NoField
  BY <1>4 DEF FieldOf
<1>6. item = NoField \/ item \in 0 .. MostItems
  BY <1>1, <1>4, Bounds3, ElementFields DEF FieldOf
<1>7. TargetOf(kind, page, c) = IF item = NoField THEN NoPlace ELSE [card |-> card, item |-> item]
  BY <1>2, <1>4 DEF TargetOf
<1>8. QED
  BY <1>3, <1>5, <1>6, <1>7 DEF Places

\* What stays open after a render, and the session that it has then.
StaysOpen(k, page, c, p) ==
    /\ c.open[k] /\ ~EditingDisabled(page) /\ ~IsRange(c)
    /\ TargetOf(k, page, c) # NoPlace /\ KeepsOwner(p[k], TargetOf(k, page, c))

\* The session of a picker after a render.
SessionAfter(k, page, c, p) ==
    IF ~StaysOpen(k, page, c, p) THEN NoSession
    ELSE IF p[k] = NoSession
         THEN [NoSession EXCEPT !.owner = TargetOf(k, page, c), !.target = TargetOf(k, page, c)]
    ELSE [p[k] EXCEPT !.target = TargetOf(k, page, c)]

\* A render closes a picker, opens it, or aims it again, and nothing is written.
LEMMA SessionIsTyped ==
    ASSUME NEW page \in Canvases, NEW c \in Contexts, NEW p \in Dialogues, NEW k \in Kinds2,
           c.open[k] => p[k].wrote = << >>
    PROVE  SessionAfter(k, page, c, p) \in Opened /\ SessionAfter(k, page, c, p).wrote = << >>
<1>1. PICK target \in Places \cup {NoPlace} : target = TargetOf(k, page, c)
  BY TargetIsTyped
<1>2. PICK session \in Opened : session = p[k]
  BY DEF Dialogues, Kinds2
<1>3. PICK after : after = SessionAfter(k, page, c, p)
  OBVIOUS
<1>4. CASE ~StaysOpen(k, page, c, p)
  BY <1>4, NoSessionStands DEF SessionAfter
<1>5. CASE StaysOpen(k, page, c, p)
  <2>1. target \in Places /\ session.wrote = << >>
    BY <1>1, <1>2, <1>5 DEF StaysOpen
  <2>2. CASE session = NoSession
    BY <1>1, <1>2, <1>3, <1>5, <2>2, <2>1, EmptySeq DEF SessionAfter, NoSession, Sessions, Opened
  <2>3. CASE session # NoSession
    BY <1>1, <1>2, <1>3, <1>5, <2>3, <2>1 DEF SessionAfter, Opened, Sessions
  <2>4. QED
    BY <2>2, <2>3
<1>6. QED
  BY <1>4, <1>5

\* A render in fields: the page stays, pickers that may not stay open are closed.
LEMMA RenderedIs ==
    ASSUME NEW page, NEW c, NEW p, Rendered(page, c, p)
    PROVE  /\ canvasPage' = page
           /\ context' = [c EXCEPT !.open = [k \in Kinds2 |->
                 c.open[k] /\ (~EditingDisabled(page) /\ ~IsRange(c) => StaysOpen(k, page, c, p))]]
           /\ \E left :
                /\ left = IF c.open["media"] /\ ~EditingDisabled(page) /\ ~IsRange(c)
                          THEN [p.media EXCEPT !.target = TargetOf("media", page, c)] ELSE p.media
                /\ pickers' = [media |-> SessionAfter("media", page, c, p),
                               route |-> SessionAfter("route", page, c, p),
                               late |-> IF p.media.uploading /\ ~StaysOpen("media", page, c, p)
                                        THEN left ELSE p.late]
BY Zenon DEF Rendered, StaysOpen, SessionAfter

\* No context: nothing is selected and nothing is open.
LEMMA NoContextStands ==
    /\ NoContext \in Contexts /\ NoContext.element = NoElement /\ NoContext.open = NothingOpen
    /\ ~NoContext.range /\ ~NoContext.tools /\ NoContext.frame = "none"
    /\ \A k \in Kinds2 : ~NothingOpen[k]
    /\ \A page : Stands(page, NoContext) /\ Alone(NoContext)
BY NoElementStands DEF NothingOpen, NoContext, Contexts, Stands, Alone, NamesNothing

\* The dialogs that a render is given: one that may go on has not written yet.
Unwritten(c, p) ==
    /\ \A k \in Kinds2 : c.open[k] => p[k].wrote = << >>
    /\ p.media.uploading => p.media.wrote = << >>
    /\ p.late.wrote = << >>

\* After a render nothing was written by a picker, and while none may be open none is.
LEMMA DialoguesAfter ==
    ASSUME NEW page \in Canvases, NEW c \in Contexts, NEW p \in Dialogues, Unwritten(c, p),
           Rendered(page, c, p)
    PROVE  /\ pickers' \in Dialogues /\ NoneWrote(pickers')
           /\ EditingDisabled(page) \/ c.range
              => pickers'.media = NoSession /\ pickers'.route = NoSession
<1>1. PICK left :
        /\ left = IF c.open["media"] /\ ~EditingDisabled(page) /\ ~IsRange(c)
                  THEN [p.media EXCEPT !.target = TargetOf("media", page, c)] ELSE p.media
        /\ pickers' = [media |-> SessionAfter("media", page, c, p),
                       route |-> SessionAfter("route", page, c, p),
                       late |-> IF p.media.uploading /\ ~StaysOpen("media", page, c, p)
                                THEN left ELSE p.late]
  BY RenderedIs
<1>2. "media" \in Kinds2 /\ "route" \in Kinds2
  BY DEF Kinds2
<1>3. PICK media \in Opened : media = SessionAfter("media", page, c, p) /\ media.wrote = << >>
  BY <1>2, SessionIsTyped DEF Unwritten
<1>4. PICK route \in Opened : route = SessionAfter("route", page, c, p) /\ route.wrote = << >>
  BY <1>2, SessionIsTyped DEF Unwritten
<1>5. p.media \in Opened /\ p.late \in Opened
  BY DEF Dialogues
<1>6. p.media.uploading => left \in Opened /\ left.wrote = << >>
  <2> SUFFICES ASSUME p.media.uploading PROVE left \in Opened /\ left.wrote = << >>
    OBVIOUS
  <2>1. p.media \in Sessions /\ p.media.wrote = << >>
    BY <1>5, NoSessionStands DEF Opened, Unwritten
  <2>2. PICK target \in Places \cup {NoPlace} : target = TargetOf("media", page, c)
    BY TargetIsTyped
  <2>3. CASE left = p.media
    BY <2>1, <2>3 DEF Opened
  <2>4. CASE left = [p.media EXCEPT !.target = target]
    BY <2>1, <2>4 DEF Sessions, Opened
  <2>5. QED
    BY <1>1, <2>2, <2>3, <2>4
<1>7. PICK late \in Opened : /\ late.wrote = << >>
                             /\ late = IF p.media.uploading /\ ~StaysOpen("media", page, c, p)
                                       THEN left ELSE p.late
  BY <1>5, <1>6 DEF Unwritten
<1>8. pickers' = [media |-> media, route |-> route, late |-> late]
  BY <1>1, <1>3, <1>4, <1>7
<1>9. pickers' \in Dialogues /\ NoneWrote(pickers')
  BY <1>3, <1>4, <1>7, <1>8 DEF Dialogues, NoneWrote
<1>10. EditingDisabled(page) \/ c.range => media = NoSession /\ route = NoSession
  BY <1>3, <1>4 DEF SessionAfter, StaysOpen, IsRange
<1>11. QED
  BY <1>8, <1>9, <1>10

\* A render changes of the context only what is open.
LEMMA ContextAfter ==
    ASSUME NEW page \in Canvases, NEW c \in Contexts, NEW p \in Dialogues, Rendered(page, c, p),
           Alone(c), IsQuiet(page, c)
    PROVE  /\ context' \in Contexts /\ context'.element = c.element /\ context'.range = c.range
           /\ context'.blind = c.blind /\ Alone(context') /\ IsQuiet(page, context')
<1> DEFINE open == [k \in Kinds2 |->
                 c.open[k] /\ (~EditingDisabled(page) /\ ~IsRange(c) => StaysOpen(k, page, c, p))]
<1>1. context' = [c EXCEPT !.open = open]
  BY RenderedIs
<1>2. open \in [Kinds2 -> BOOLEAN] /\ \A k \in Kinds2 : open[k] => c.open[k]
  <2>1. \A k \in Kinds2 :
           (c.open[k] /\ (~EditingDisabled(page) /\ ~IsRange(c) => StaysOpen(k, page, c, p))) \in BOOLEAN
    BY Zenon
  <2>2. open \in [Kinds2 -> BOOLEAN]
    BY <2>1, Zenon
  <2>3. \A k \in Kinds2 : open[k] => c.open[k]
    BY Zenon
  <2>4. QED
    BY <2>2, <2>3
<1> HIDE DEF open
<1>3. /\ context' \in Contexts /\ context'.element = c.element /\ context'.range = c.range
      /\ context'.blind = c.blind /\ context'.anchor = c.anchor /\ context'.tools = c.tools
      /\ context'.open = open
  BY <1>1, <1>2 DEF Contexts
<1>4. c.open = NothingOpen => open = NothingOpen
  <2> SUFFICES ASSUME c.open = NothingOpen PROVE open = NothingOpen
    OBVIOUS
  <2>1. \A k \in Kinds2 : open[k] \in BOOLEAN /\ ~open[k]
    BY <1>2, NoContextStands
  <2>2. \A k \in Kinds2 : open[k] = FALSE
    BY <2>1, Zenon
  <2>3. open = [k \in Kinds2 |-> open[k]]
    BY <1>2
  <2>4. QED
    BY <2>2, <2>3, Zenon DEF NothingOpen
<1>5. Alone(context')
  BY <1>3, <1>4 DEF Alone
<1>6. IsQuiet(page, context')
  BY <1>4, <1>1, NoContextStands DEF IsQuiet, NoContext
<1>7. QED
  BY <1>3, <1>5, <1>6

\* A render of a page and a context that fit each other keeps the canvas sound.
LEMMA RenderedKeeps ==
    ASSUME NEW page \in Canvases, NEW c \in Contexts, NEW p \in Dialogues, Rendered(page, c, p),
           Unwritten(c, p), Alone(c), IsQuiet(page, c), PageFits(page), Stands(page, c)
    PROVE  /\ canvasPage' \in Canvases /\ context' \in Contexts /\ pickers' \in Dialogues
           /\ CanvasStands'
BY RenderedIs, DialoguesAfter, ContextAfter DEF Stands, CanvasStands

\* What is left of the bound on the acts of the user.
TouchesCount == touches' \in 0 .. MaxTouches

\* What every step comes to: the page and the context that are rendered fit.
LEMMA CanvasStep ==
    ASSUME CanvasInv, TouchesCount, NEW page \in Canvases, NEW c \in Contexts,
           Rendered(page, c, pickers), Alone(c), IsQuiet(page, c), PageFits(page),
           Stands(page, c), Told'
    PROVE  CanvasInv'
<1>1. pickers \in Dialogues /\ NoneWrote(pickers)
  BY DEF CanvasInv, CanvasTypes, CanvasStands
<1>2. Unwritten(c, pickers)
  BY <1>1 DEF NoneWrote, Unwritten, Kinds2
<1>3. /\ canvasPage' \in Canvases /\ context' \in Contexts /\ pickers' \in Dialogues
      /\ CanvasStands'
  BY <1>1, <1>2, RenderedKeeps
<1>4. QED
  BY <1>3 DEF CanvasInv, CanvasTypes, TouchesCount

\* Nothing was posted and nothing was heard.
LEMMA SameTold == Told /\ UNCHANGED canvasEvents => Told'
BY DEF Told

\* What the invariant says, in fields.
LEMMA CanvasFields ==
    ASSUME CanvasInv
    PROVE  /\ canvasPage \in Canvases /\ context \in Contexts /\ pickers \in Dialogues
           /\ canvasPage.doc \in Docs /\ canvasPage.doc.here \subseteq Cards
           /\ canvasPage.puck \in Cards \cup {NoCard}
           /\ canvasPage.mode \in {"edit", "recovering", "readonly"}
           /\ context.element \in Chosen /\ context.open \in [Kinds2 -> BOOLEAN]
           /\ PageFits(canvasPage) /\ Stands(canvasPage, context) /\ Alone(context)
           /\ IsQuiet(canvasPage, context) /\ NoneWrote(pickers)
           /\ EditingDisabled(canvasPage) \/ context.range =>
                 pickers.media = NoSession /\ pickers.route = NoSession
BY DEF CanvasInv, CanvasTypes, CanvasStands, Canvases, Docs, Contexts

\* Selecting an element: the text that was edited is left.
LEMMA WithElementStands ==
    ASSUME NEW c \in Contexts, NEW element \in Chosen, Alone(c),
           NEW after, after = WithElement(c, element)
    PROVE  /\ after \in Contexts /\ Alone(after) /\ after.element = element
           /\ after.open = c.open /\ after.blind = NamesNothing(canvasPage, element)
           /\ after.tools = c.tools /\ (after.range => c.range)
           /\ after.anchor \in {c.anchor, NoElement}
           /\ c.frame = "none" => after.frame = "none"
<1>1. PICK same \in BOOLEAN : same = (c.range /\ SameTarget(c.element, element))
  BY Zenon DEF Contexts
<1>2. PICK range \in BOOLEAN : range = (same /\ element.part = "text")
  BY Zenon
<1>3. PICK anchor \in Chosen : anchor = IF same THEN c.anchor ELSE NoElement
  BY NoElementStands DEF Contexts
<1>4. PICK frame \in {"none", "due", "stale"} : frame = IF c.frame = "none" THEN "none" ELSE "stale"
  OBVIOUS
<1>5. PICK blind \in BOOLEAN : blind = NamesNothing(canvasPage, element)
  BY Zenon DEF NamesNothing
<1>6. after = [c EXCEPT !.element = element, !.range = range, !.anchor = anchor, !.frame = frame,
                        !.blind = blind]
  BY <1>1, <1>2, <1>3, <1>4, <1>5, Zenon DEF WithElement
<1>7. /\ after \in Contexts /\ after.element = element /\ after.open = c.open
      /\ after.blind = blind /\ after.tools = c.tools /\ after.range = range /\ after.anchor = anchor
      /\ after.frame = frame
  BY <1>6 DEF Contexts
<1>8. range => /\ element.part = "text" /\ anchor = c.anchor /\ c.range /\ c.element = element
  BY <1>1, <1>2, <1>3 DEF SameTarget
<1>9. Alone(after)
  BY <1>7, <1>8 DEF Alone
<1>10. QED
  BY <1>3, <1>4, <1>5, <1>7, <1>8, <1>9

\* A context in which nothing is selected and nothing is open is no context.
LEMMA ContextIsNone ==
    ASSUME NEW c \in Contexts, c.element = NoElement, ~c.range, c.anchor = NoElement,
           c.open = NothingOpen, ~c.tools, c.frame = "none", ~c.blind
    PROVE  c = NoContext
BY DEF Contexts, NoContext

\* Replacing the element of the edited text.
LEMMA RangeReplacedStands ==
    ASSUME NEW c \in Contexts, NEW element \in Chosen, Alone(c),
           NEW after, after = RangeReplaced(c, element)
    PROVE  /\ after \in Contexts /\ Alone(after) /\ after.element = element
           /\ after.blind = NamesNothing(canvasPage, element) /\ (after.range => c.range)
<1>1. NothingOpen \in [Kinds2 -> BOOLEAN]
  BY DEF NothingOpen
<1>2. PICK first : first = IF SameTarget(c.element, element) THEN c
                           ELSE [c EXCEPT !.open = NothingOpen, !.tools = FALSE, !.frame = "none"]
  OBVIOUS
<1>3. first \in Contexts /\ Alone(first) /\ first.range = c.range
  <2>1. CASE first = c
    BY <2>1
  <2>2. CASE first = [c EXCEPT !.open = NothingOpen, !.tools = FALSE, !.frame = "none"]
    BY <1>1, <2>2 DEF Contexts, Alone
  <2>3. QED
    BY <1>2, <2>1, <2>2
<1>4. after = WithElement(first, element)
  BY <1>2 DEF RangeReplaced
<1>5. QED
  BY <1>3, <1>4, WithElementStands

\* Accepting a selection, from the frame or from Puck.
LEMMA AcceptedStands ==
    ASSUME NEW c \in Contexts, NEW element \in Chosen, NEW legacy \in BOOLEAN, Alone(c),
           NEW after, after = Accepted(c, element, legacy)
    PROVE  /\ after \in Contexts /\ Alone(after) /\ after.element = element
           /\ after.blind = NamesNothing(canvasPage, element)
<1>1. NothingOpen \in [Kinds2 -> BOOLEAN]
  BY DEF NothingOpen
<1>2. PICK first : first = [c EXCEPT !.frame = "none", !.open = NothingOpen]
  OBVIOUS
<1>3. /\ first \in Contexts /\ first.range = c.range /\ first.element = c.element
      /\ first.anchor = c.anchor /\ first.open = NothingOpen /\ first.tools = c.tools
  BY <1>1, <1>2 DEF Contexts
<1>4. Alone(first)
  BY <1>3 DEF Alone
<1>5. PICK next : next = WithElement(first, element)
  OBVIOUS
<1>6. /\ next \in Contexts /\ Alone(next) /\ next.element = element
      /\ next.open = NothingOpen /\ next.blind = NamesNothing(canvasPage, element)
      /\ next.range => c.range
  BY <1>3, <1>4, <1>5, WithElementStands
<1>7. PICK opens \in BOOLEAN : opens = (legacy /\ element.part \in {"text", "action"})
  BY Zenon
<1>8. PICK frame \in {"none", "due"} : frame = IF opens THEN "due" ELSE "none"
  OBVIOUS
<1>9. PICK tools2 \in BOOLEAN : tools2 = (opens /\ c.tools)
  BY Zenon DEF Contexts
<1>10. after = [next EXCEPT !.frame = frame, !.tools = tools2]
  BY <1>2, <1>5, <1>7, <1>8, <1>9, Zenon DEF Accepted
<1>11. /\ after \in Contexts /\ after.element = element /\ after.blind = next.blind
       /\ after.range = next.range /\ after.anchor = next.anchor /\ after.open = NothingOpen
       /\ after.tools = tools2
  BY <1>6, <1>10 DEF Contexts
<1>12. c.range => ~c.tools
  BY DEF Alone
<1>13. Alone(after)
  BY <1>6, <1>9, <1>11, <1>12 DEF Alone
<1>14. QED
  BY <1>6, <1>11, <1>13

\* A page with another selection of Puck.
LEMMA PuckSelects ==
    ASSUME CanvasInv, NEW card \in Cards \cup {NoCard},
           NEW page, page = [canvasPage EXCEPT !.puck = card]
    PROVE  /\ page \in Canvases /\ PageFits(page) /\ CanEdit(page) = CanEdit(canvasPage)
           /\ \A c : Stands(page, c) <=> Stands(canvasPage, c)
           /\ \A c : IsQuiet(page, c) <=> IsQuiet(canvasPage, c)
<1>1. canvasPage \in Canvases /\ PageFits(canvasPage)
  BY CanvasFields
<1>2. /\ page \in Canvases /\ page.doc = canvasPage.doc /\ page.past = canvasPage.past
      /\ page.due = canvasPage.due /\ page.mode = canvasPage.mode
      /\ page.astray = canvasPage.astray
  BY <1>1 DEF Canvases
<1>3. CanEdit(page) = CanEdit(canvasPage)
  BY <1>2 DEF CanEdit
<1>4. PageFits(page)
  BY <1>1, <1>2 DEF PageFits
<1>5. \A c : Stands(page, c) <=> Stands(canvasPage, c)
  BY <1>2 DEF Stands, NamesNothing, HasItem
<1>6. \A c : IsQuiet(page, c) <=> IsQuiet(canvasPage, c)
  BY <1>3 DEF IsQuiet
<1>7. QED
  BY <1>2, <1>3, <1>4, <1>5, <1>6

\* The pointer selects an element in the frame.
LEMMA PointAtKeeps ==
    ASSUME CanvasInv, TouchesCount, NEW element \in Outlined(canvasPage.doc), PointAt(element)
    PROVE  CanvasInv'
<1>1. element \in Elements /\ HasItem(canvasPage.doc, element.card, element.item)
  BY DEF Outlined
<1>2. element \in Chosen /\ element.card \in Cards \cup {NoCard}
  BY <1>1 DEF Chosen, Elements
<1>3. PICK page : page = [canvasPage EXCEPT !.puck = element.card]
  OBVIOUS
<1>4. /\ page \in Canvases /\ PageFits(page) /\ CanEdit(page) = CanEdit(canvasPage)
      /\ \A c : Stands(page, c) <=> Stands(canvasPage, c)
      /\ \A c : IsQuiet(page, c) <=> IsQuiet(canvasPage, c)
  BY <1>2, <1>3, PuckSelects
<1>5. Told'
  BY SameTold DEF PointAt, CanvasInv
<1>6. CASE CanEdit(canvasPage)
  <2>1. PICK c : c = Accepted(context, element, FALSE)
    OBVIOUS
  <2>2. PICK legacy \in BOOLEAN : legacy = FALSE
    BY Zenon
  <2>3. c = Accepted(context, element, legacy)
    BY <2>1, <2>2, Zenon
  <2>4. /\ c \in Contexts /\ Alone(c) /\ c.element = element
        /\ c.blind = NamesNothing(canvasPage, element)
    BY <1>2, <2>3, CanvasFields, AcceptedStands
  <2>5. Rendered(page, c, pickers)
    BY <1>3, <1>6, <2>1, Zenon DEF PointAt
  <2>6. Stands(page, c)
    BY <1>1, <1>4, <2>4 DEF Stands, NamesNothing
  <2>7. IsQuiet(page, c)
    BY <1>4, <1>6 DEF IsQuiet
  <2>8. QED
    BY <1>4, <1>5, <2>4, <2>5, <2>6, <2>7, CanvasStep
<1>7. CASE ~CanEdit(canvasPage)
  <2>1. Rendered(page, context, pickers)
    BY <1>3, <1>7, Zenon DEF PointAt
  <2>2. QED
    BY <1>4, <1>5, <2>1, CanvasFields, CanvasStep
<1>8. QED
  BY <1>6, <1>7

\* Nothing but what is on its way changes.
LEMMA OnlyTold ==
    ASSUME CanvasInv, TouchesCount, UNCHANGED <<canvasPage, context, pickers>>, Told'
    PROVE  CanvasInv'
BY DEF CanvasInv, CanvasTypes, CanvasStands, TouchesCount

\* The frame posts a selection.
LEMMA PostSelectionKeeps ==
    ASSUME CanvasInv, TouchesCount, NEW element \in Outlined(canvasPage.doc),
           PostSelection(element)
    PROVE  CanvasInv'
<1>1. element \in Chosen
  BY DEF Outlined, Chosen
<1>2. Told'
  <2>1. canvasEvents' = [canvasEvents EXCEPT !.posted = element, !.posts = 1] /\ Told
    BY DEF PostSelection, CanvasInv
  <2>2. 1 \in 0 .. 1
    OBVIOUS
  <2>3. QED
    BY <1>1, <2>1, <2>2 DEF Told
<1>3. QED
  BY <1>2, OnlyTold DEF PostSelection

\* The caret enters a text, or leaves it.
LEMMA SelectRangeKeeps ==
    ASSUME CanvasInv, TouchesCount, NEW text \in EditedTexts \cup {NoEditedText}, SelectRange(text)
    PROVE  CanvasInv'
BY OnlyTold DEF SelectRange, Told, CanvasInv

\* The selection that was posted is heard.
LEMMA HearSelectionKeeps == CanvasInv /\ TouchesCount /\ HearSelection => CanvasInv'
<1> SUFFICES ASSUME CanvasInv, TouchesCount, HearSelection PROVE CanvasInv'
  OBVIOUS
<1>1. Told'
  BY NoElementStands DEF HearSelection, CanvasInv, Told
<1>2. PICK element \in Chosen : element = canvasEvents.posted
  BY DEF CanvasInv, Told
<1>3. CASE CanEdit(canvasPage)
  <2>1. PICK c : c = Accepted(context, element, TRUE)
    OBVIOUS
  <2>2. PICK legacy \in BOOLEAN : legacy = TRUE
    BY Zenon
  <2>3. c = Accepted(context, element, legacy)
    BY <2>1, <2>2, Zenon
  <2>4. /\ c \in Contexts /\ Alone(c) /\ c.element = element
        /\ c.blind = NamesNothing(canvasPage, element)
    BY <2>3, CanvasFields, AcceptedStands
  <2>5. Rendered(canvasPage, c, pickers)
    BY <1>2, <1>3, <2>1, Zenon DEF HearSelection
  <2>6. Stands(canvasPage, c)
    BY <2>4 DEF Stands
  <2>7. IsQuiet(canvasPage, c)
    BY <1>3 DEF IsQuiet
  <2>8. QED
    BY <1>1, <2>4, <2>5, <2>6, <2>7, CanvasFields, CanvasStep
<1>4. CASE ~CanEdit(canvasPage)
  <2>1. Rendered(canvasPage, context, pickers)
    BY <1>4, Zenon DEF HearSelection
  <2>2. QED
    BY <1>1, <2>1, CanvasFields, CanvasStep
<1>5. QED
  BY <1>3, <1>4

\* A card is selected in the outline, or none is.
LEMMA SelectInOutlineKeeps ==
    ASSUME CanvasInv, TouchesCount, NEW card \in Cards \cup {NoCard}, SelectInOutline(card)
    PROVE  CanvasInv'
BY SameTold, PuckSelects, CanvasFields, CanvasStep DEF SelectInOutline, CanvasInv

\* A canvas that cannot be edited has no context.
LEMMA QuietContext ==
    ASSUME CanvasInv, ~CanEdit(canvasPage)
    PROVE  context = NoContext
BY CanvasFields DEF IsQuiet

\* In no context there is no text to leave.
LEMMA NothingToReplace == RangeReplaced(NoContext, NoElement) = NoContext
<1>1. PICK first : first = [NoContext EXCEPT !.open = NothingOpen, !.tools = FALSE, !.frame = "none"]
  OBVIOUS
<1>2. first = NoContext
  BY <1>1 DEF NoContext
<1>3. ~SameTarget(NoContext.element, NoElement)
  BY NoContextStands DEF SameTarget
<1>4. RangeReplaced(NoContext, NoElement) = WithElement(NoContext, NoElement)
  BY <1>1, <1>2, <1>3, Zenon DEF RangeReplaced
<1>5. PICK after : after = WithElement(NoContext, NoElement)
  OBVIOUS
<1>6. /\ after \in Contexts /\ after.element = NoElement /\ after.open = NothingOpen
      /\ after.blind = NamesNothing(canvasPage, NoElement) /\ ~after.tools /\ ~after.range
      /\ after.anchor \in {NoContext.anchor, NoElement} /\ after.frame = "none"
  BY <1>5, NoElementStands, NoContextStands, WithElementStands
<1>7. NoContext.anchor = NoElement /\ ~NamesNothing(canvasPage, NoElement)
  BY DEF NoContext, NamesNothing
<1>8. ~after.blind
  BY <1>6, <1>7
<1>9. after = NoContext
  BY <1>6, <1>7, <1>8, ContextIsNone
<1>10. QED
  BY <1>4, <1>5, <1>9

\* The parent of the element is selected.
LEMMA SelectParentKeeps == CanvasInv /\ TouchesCount /\ SelectParent => CanvasInv'
<1> SUFFICES ASSUME CanvasInv, TouchesCount, SelectParent PROVE CanvasInv'
  OBVIOUS
<1>1. PICK next : next = RangeReplaced(context, NoElement)
  OBVIOUS
<1>2. /\ next \in Contexts /\ Alone(next) /\ next.element = NoElement
  BY <1>1, NoElementStands, CanvasFields, RangeReplacedStands
<1>3. PICK c : c = [next EXCEPT !.tools = FALSE]
  OBVIOUS
<1>4. /\ c \in Contexts /\ c.element = NoElement /\ c.range = next.range
      /\ c.anchor = next.anchor /\ c.open = next.open /\ ~c.tools
  BY <1>2, <1>3 DEF Contexts
<1>5. Alone(c)
  BY <1>2, <1>4 DEF Alone
<1>6. PICK page : page = [canvasPage EXCEPT !.puck = NoCard]
  OBVIOUS
<1>7. Rendered(page, c, pickers) /\ UNCHANGED canvasEvents
  BY <1>1, <1>3, <1>6 DEF SelectParent
<1>8. Told'
  BY <1>7, SameTold DEF CanvasInv
<1>9. Stands(canvasPage, c)
  BY <1>4 DEF Stands, NamesNothing
<1>10. IsQuiet(canvasPage, c)
  <2> SUFFICES ASSUME ~CanEdit(canvasPage) PROVE c = NoContext
    BY DEF IsQuiet
  <2>1. next = NoContext
    BY <1>1, QuietContext, NothingToReplace
  <2>2. c = [NoContext EXCEPT !.tools = FALSE]
    BY <1>3, <2>1
  <2>3. QED
    BY <2>2 DEF NoContext
<1>11. QED
  BY <1>4, <1>5, <1>6, <1>7, <1>8, <1>9, <1>10, PuckSelects, CanvasStep

\* Accepting what the editor of a text signals.
LEMMA RangeAcceptedStands ==
    ASSUME NEW c \in Contexts, NEW element \in Chosen, NEW active \in BOOLEAN, Alone(c),
           NEW after, after = RangeAccepted(c, element, active)
    PROVE  /\ after \in Contexts /\ Alone(after) /\ after.element = c.element
           /\ after.blind = c.blind /\ (~CanEdit(canvasPage) => after = c)
<1>1. CASE ~(CanEdit(canvasPage) /\ SameTarget(c.element, element))
  BY <1>1, Zenon DEF RangeAccepted
<1>2. CASE CanEdit(canvasPage) /\ SameTarget(c.element, element)
  <2>1. c.element = element
    BY <1>2 DEF SameTarget
  <2>2. PICK on \in BOOLEAN : on = (active /\ c.element.part = "text")
    BY Zenon
  <2>3. PICK anchor \in Chosen : anchor = IF on THEN element ELSE NoElement
    BY NoElementStands
  <2>4. PICK reduced : reduced = [c EXCEPT !.range = on, !.anchor = anchor]
    OBVIOUS
  <2>5. reduced = IF active /\ c.element.part = "text"
                  THEN [c EXCEPT !.range = TRUE, !.anchor = element]
                  ELSE [c EXCEPT !.range = FALSE, !.anchor = NoElement]
    <3>1. CASE on
      <4>1. on = TRUE /\ anchor = element
        BY <2>3, <3>1
      <4>2. QED
        BY <2>2, <2>4, <3>1, <4>1, Zenon
    <3>2. CASE ~on
      <4>1. on = FALSE /\ anchor = NoElement
        BY <2>3, <3>2
      <4>2. QED
        BY <2>2, <2>4, <3>2, <4>1, Zenon
    <3>3. QED
      BY <3>1, <3>2
  <2>6. NothingOpen \in [Kinds2 -> BOOLEAN]
    BY DEF NothingOpen
  <2>7. PICK open \in [Kinds2 -> BOOLEAN] : open = IF active THEN NothingOpen ELSE c.open
    BY <2>6 DEF Contexts
  <2>8. reduced.open = c.open
    BY <2>4 DEF Contexts
  <2>9. after = [reduced EXCEPT !.frame = "none", !.open = open, !.tools = FALSE]
    BY <1>2, <2>5, <2>7, <2>8, Zenon DEF RangeAccepted
  <2>10. /\ reduced \in Contexts /\ reduced.range = on /\ reduced.anchor = anchor
         /\ reduced.element = c.element /\ reduced.blind = c.blind
    BY <2>4 DEF Contexts
  <2>11. /\ after \in Contexts /\ after.range = on /\ after.anchor = anchor /\ after.open = open
         /\ ~after.tools /\ after.element = c.element /\ after.blind = c.blind
    BY <2>9, <2>10 DEF Contexts
  <2>12. Alone(after)
    BY <2>1, <2>2, <2>3, <2>7, <2>11 DEF Alone
  <2>13. QED
    BY <1>2, <2>11, <2>12
<1>3. QED
  BY <1>1, <1>2

\* A text that is edited is of an element.
LEMMA EditedIsChosen ==
    ASSUME NEW text \in EditedTexts \cup {NoEditedText}
    PROVE  text.of \in Chosen /\ text.active \in BOOLEAN
<1>1. CASE text = NoEditedText
  <2>1. PICK off \in BOOLEAN : off = FALSE
    BY Zenon
  <2>2. text = [of |-> NoElement, active |-> off]
    BY <1>1, <2>1 DEF NoEditedText
  <2>3. QED
    BY <2>2, NoElementStands
<1>2. CASE text \in EditedTexts
  BY <1>2 DEF EditedTexts, Chosen
<1>3. QED
  BY <1>1, <1>2

\* The editor of a text signals that its range begins or ends.
LEMMA SignalRangeKeeps == CanvasInv /\ TouchesCount /\ SignalRange => CanvasInv'
<1> SUFFICES ASSUME CanvasInv, TouchesCount, SignalRange PROVE CanvasInv'
  OBVIOUS
<1>1. PICK left \in EditedTexts \cup {NoEditedText} : left = canvasEvents.heard
  BY DEF CanvasInv, Told
<1>2. PICK text \in EditedTexts \cup {NoEditedText} : text = canvasEvents.text
  BY DEF CanvasInv, Told
<1>3. Told'
  BY <1>2 DEF SignalRange, CanvasInv, Told
<1>4. PICK off \in BOOLEAN : off = FALSE
  BY Zenon
<1>5. PICK c : c = IF left.of \notin {NoElement, text.of} THEN RangeAccepted(context, left.of, off)
                   ELSE context
  OBVIOUS
<1>6. /\ c \in Contexts /\ Alone(c) /\ c.element = context.element /\ c.blind = context.blind
      /\ ~CanEdit(canvasPage) => c = context
  <2>1. CASE c = context
    BY <2>1, CanvasFields
  <2>2. CASE c = RangeAccepted(context, left.of, off)
    <3>1. left.of \in Chosen
      BY EditedIsChosen
    <3>2. context \in Contexts /\ Alone(context)
      BY CanvasFields
    <3>3. QED
      BY <2>2, <3>1, <3>2, RangeAcceptedStands
  <2>3. QED
    BY <1>5, <2>1, <2>2
<1>7. PICK after : after = RangeAccepted(c, text.of, text.active)
  OBVIOUS
<1>8. /\ after \in Contexts /\ Alone(after) /\ after.element = c.element
      /\ after.blind = c.blind /\ (~CanEdit(canvasPage) => after = c)
  BY <1>6, <1>7, EditedIsChosen, RangeAcceptedStands
<1>9. Rendered(canvasPage, after, pickers)
  BY <1>1, <1>2, <1>4, <1>5, <1>7, Zenon DEF SignalRange
<1>10. Stands(canvasPage, after)
  BY <1>6, <1>8, CanvasFields DEF Stands
<1>11. IsQuiet(canvasPage, after)
  BY <1>6, <1>8, CanvasFields DEF IsQuiet
<1>12. QED
  BY <1>3, <1>8, <1>9, <1>10, <1>11, CanvasFields, CanvasStep

\* A render with another context on the same page.
LEMMA RerenderKeeps ==
    ASSUME CanvasInv, TouchesCount, NEW c \in Contexts, Alone(c), IsQuiet(canvasPage, c),
           Stands(canvasPage, c), Rerenders(c)
    PROVE  CanvasInv'
BY SameTold, CanvasFields, CanvasStep DEF Rerenders, CanvasInv

\* The frame that was requested runs: what is gone is no longer selected.
LEMMA FrameRunsKeeps == CanvasInv /\ TouchesCount /\ FrameRuns => CanvasInv'
<1> SUFFICES ASSUME CanvasInv, TouchesCount, FrameRuns PROVE CanvasInv'
  OBVIOUS
<1>1. PICK tools2 \in BOOLEAN :
        tools2 = (context.tools \/ (CanEdit(canvasPage) /\ FrameOpens(context)))
  BY Zenon DEF FrameOpens
<1>2. PICK c : c = [context EXCEPT !.frame = "none", !.tools = tools2]
  OBVIOUS
<1>3. Rerenders(c)
  BY <1>1, <1>2, Zenon DEF FrameRuns
<1>4. /\ c \in Contexts /\ c.element = context.element /\ c.range = context.range
      /\ c.anchor = context.anchor /\ c.open = context.open /\ c.tools = tools2
      /\ c.blind = context.blind
  BY <1>2, CanvasFields DEF Contexts
<1>5. context.range => ~FrameOpens(context)
  BY DEF FrameOpens, IsRange
<1>6. Alone(c)
  BY <1>1, <1>4, <1>5, CanvasFields DEF Alone
<1>7. Stands(canvasPage, c)
  BY <1>4, CanvasFields DEF Stands
<1>8. CanEdit(canvasPage)
  BY QuietContext, NoContextStands DEF FrameRuns
<1>9. IsQuiet(canvasPage, c)
  BY <1>8 DEF IsQuiet
<1>10. QED
  BY <1>3, <1>4, <1>6, <1>7, <1>9, RerenderKeeps

\* A picker is opened.
LEMMA OpenPickerKeeps ==
    ASSUME CanvasInv, TouchesCount, NEW kind \in Kinds2, OpenPicker(kind)
    PROVE  CanvasInv'
<1>1. PICK on \in BOOLEAN : on = TRUE
  BY Zenon
<1>2. PICK open : open = [context.open EXCEPT ![kind] = on]
  OBVIOUS
<1>3. open \in [Kinds2 -> BOOLEAN]
  BY <1>2, CanvasFields
<1>4. PICK c : c = [context EXCEPT !.open = open]
  OBVIOUS
<1>5. Rerenders(c)
  BY <1>1, <1>2, <1>4, Zenon DEF OpenPicker
<1>6. /\ c \in Contexts /\ c.element = context.element /\ c.range = context.range
      /\ c.blind = context.blind
  BY <1>3, <1>4, CanvasFields DEF Contexts
<1>7. ~context.range /\ CanEdit(canvasPage)
  BY DEF OpenPicker, IsRange, EditingDisabled, CanEdit
<1>8. Alone(c) /\ IsQuiet(canvasPage, c)
  BY <1>6, <1>7 DEF Alone, IsQuiet
<1>9. Stands(canvasPage, c)
  BY <1>6, CanvasFields DEF Stands
<1>10. QED
  BY <1>5, <1>6, <1>8, <1>9, RerenderKeeps

\* A dialog that is dismissed: the rest stays as it is.
LEMMA PickerIsDismissed ==
    ASSUME CanvasInv, NEW kind \in Kinds2, NEW off \in BOOLEAN, ~off,
           NEW c, c = [context EXCEPT !.open = [context.open EXCEPT ![kind] = off]]
    PROVE  /\ c \in Contexts /\ Alone(c) /\ IsQuiet(canvasPage, c)
           /\ c.element = context.element /\ c.blind = context.blind /\ ~c.open[kind]
           /\ c.range = context.range
<1>1. PICK open : open = [context.open EXCEPT ![kind] = off]
  OBVIOUS
<1>2. open \in [Kinds2 -> BOOLEAN] /\ ~open[kind] /\ \A k \in Kinds2 : open[k] => context.open[k]
  BY <1>1, CanvasFields
<1>3. context.open = NothingOpen => open = NothingOpen
  <2> SUFFICES ASSUME context.open = NothingOpen PROVE open = NothingOpen
    OBVIOUS
  <2>1. \A k \in Kinds2 : ~open[k] /\ open[k] \in BOOLEAN
    BY <1>2, NoContextStands
  <2>2. \A k \in Kinds2 : open[k] = FALSE
    BY <2>1, Zenon
  <2>3. open = [k \in Kinds2 |-> open[k]]
    BY <1>2
  <2>4. QED
    BY <2>2, <2>3, Zenon DEF NothingOpen
<1>4. c = [context EXCEPT !.open = open]
  BY <1>1
<1>5. /\ c \in Contexts /\ c.element = context.element /\ c.range = context.range
      /\ c.anchor = context.anchor /\ c.open = open /\ c.tools = context.tools
      /\ c.blind = context.blind
  BY <1>2, <1>4, CanvasFields DEF Contexts
<1>6. Alone(c)
  BY <1>3, <1>5, CanvasFields DEF Alone
<1>7. IsQuiet(canvasPage, c)
  BY <1>3, <1>4, QuietContext, NoContextStands DEF IsQuiet, NoContext
<1>8. QED
  BY <1>2, <1>5, <1>6, <1>7

\* A picker is dismissed.
LEMMA DismissPickerKeeps ==
    ASSUME CanvasInv, TouchesCount, NEW kind \in Kinds2, DismissPicker(kind)
    PROVE  CanvasInv'
<1>1. PICK off \in BOOLEAN : off = FALSE
  BY Zenon
<1>2. PICK c : c = [context EXCEPT !.open = [context.open EXCEPT ![kind] = off]]
  OBVIOUS
<1>3. Rerenders(c)
  BY <1>1, <1>2, Zenon DEF DismissPicker
<1>4. /\ c \in Contexts /\ Alone(c) /\ IsQuiet(canvasPage, c)
      /\ c.element = context.element /\ c.blind = context.blind
  BY <1>1, <1>2, PickerIsDismissed
<1>5. Stands(canvasPage, c)
  BY <1>4, CanvasFields DEF Stands
<1>6. QED
  BY <1>3, <1>4, <1>5, RerenderKeeps

\* The tools are shown or hidden.
LEMMA ToggleToolsKeeps == CanvasInv /\ TouchesCount /\ ToggleTools => CanvasInv'
<1> SUFFICES ASSUME CanvasInv, TouchesCount, ToggleTools PROVE CanvasInv'
  OBVIOUS
<1>1. PICK c : c = IF BarElement(canvasPage, context.element) = NoElement
                   THEN RangeReplaced(context, NoElement) ELSE context
  OBVIOUS
<1>2. /\ c \in Contexts /\ Alone(c) /\ (c.range => context.range)
      /\ c = context \/ c.element = NoElement
  BY <1>1, CanvasFields, NoElementStands, RangeReplacedStands
<1>3. PICK tools2 \in BOOLEAN : tools2 = ~c.tools
  BY Zenon
<1>4. PICK after : after = [c EXCEPT !.tools = tools2]
  OBVIOUS
<1>5. Rerenders(after)
  BY <1>1, <1>3, <1>4, Zenon DEF ToggleTools
<1>6. /\ after \in Contexts /\ after.element = c.element /\ after.range = c.range
      /\ after.blind = c.blind
  BY <1>2, <1>4 DEF Contexts
<1>7. ~context.range /\ CanEdit(canvasPage)
  BY DEF ToggleTools, IsRange, EditingDisabled, CanEdit
<1>8. Alone(after) /\ IsQuiet(canvasPage, after)
  BY <1>2, <1>6, <1>7 DEF Alone, IsQuiet
<1>9. Stands(canvasPage, after)
  BY <1>2, <1>6, CanvasFields DEF Stands, NamesNothing
<1>10. QED
  BY <1>5, <1>6, <1>8, <1>9, RerenderKeeps

\* A press beside the canvas closes what is open.
LEMMA PressElsewhereKeeps == CanvasInv /\ TouchesCount /\ PressElsewhere => CanvasInv'
BY CanvasFields, QuietContext, NoContextStands, RerenderKeeps DEF PressElsewhere, Contexts, Alone,
   Stands, IsQuiet

\* Escape closes what is open.
LEMMA PressEscapeKeeps == CanvasInv /\ TouchesCount /\ PressEscape => CanvasInv'
BY CanvasFields, QuietContext, NoContextStands, RerenderKeeps DEF PressEscape, NothingOpen,
   Contexts, Alone, Stands, IsQuiet

\* The canvas becomes readonly, recovers, or can be edited again.
LEMMA ChangeModeKeeps ==
    ASSUME CanvasInv, TouchesCount, NEW mode \in {"edit", "recovering", "readonly"},
           ChangeMode(mode)
    PROVE  CanvasInv'
<1>1. PICK page : page = [canvasPage EXCEPT !.mode = mode]
  OBVIOUS
<1>2. PICK c : c = IF mode = "readonly" THEN NoContext ELSE context
  OBVIOUS
<1>3. Rendered(page, c, pickers) /\ UNCHANGED canvasEvents
  BY <1>1, <1>2 DEF ChangeMode
<1>4. /\ page \in Canvases /\ page.doc = canvasPage.doc /\ page.past = canvasPage.past
      /\ page.due = canvasPage.due /\ page.mode = mode /\ page.astray = canvasPage.astray
  BY <1>1, CanvasFields DEF Canvases
<1>5. PageFits(page)
  BY <1>4, CanvasFields DEF PageFits
<1>6. c \in Contexts /\ Alone(c)
  BY <1>2, CanvasFields, NoContextStands
<1>7. Stands(page, c)
  BY <1>2, <1>4, NoContextStands, CanvasFields DEF Stands, NamesNothing, HasItem
<1>8. IsQuiet(page, c)
  BY <1>2, <1>4 DEF IsQuiet, CanEdit
<1>9. Told'
  BY <1>3, SameTold DEF CanvasInv
<1>10. QED
  BY <1>3, <1>4, <1>5, <1>6, <1>7, <1>8, <1>9, CanvasStep

\* The change of the document is heard.
LEMMA HearDocumentKeeps == CanvasInv /\ TouchesCount /\ HearDocument => CanvasInv'
<1> SUFFICES ASSUME CanvasInv, TouchesCount, HearDocument PROVE CanvasInv'
  OBVIOUS
<1>1. PICK page : page = [canvasPage EXCEPT !.due = FALSE]
  OBVIOUS
<1>2. PICK next : next = IF NamesNothing(canvasPage, context.element)
                         THEN RangeReplaced(context, NoElement) ELSE context
  OBVIOUS
<1>3. PICK c : c = [next EXCEPT !.blind = FALSE]
  OBVIOUS
<1>4. Rendered(page, c, pickers) /\ UNCHANGED canvasEvents
  BY <1>1, <1>2, <1>3 DEF HearDocument
<1>5. /\ page \in Canvases /\ page.doc = canvasPage.doc /\ page.past = canvasPage.past
      /\ page.mode = canvasPage.mode /\ page.astray = canvasPage.astray
  BY <1>1, CanvasFields DEF Canvases
<1>6. PageFits(page)
  BY <1>5, CanvasFields DEF PageFits
<1>7. /\ next \in Contexts /\ Alone(next)
      /\ next.element = NoElement \/ (next = context /\ ~NamesNothing(canvasPage, context.element))
  BY <1>2, NoElementStands, CanvasFields, RangeReplacedStands
<1>8. /\ c \in Contexts /\ c.element = next.element /\ c.range = next.range
      /\ c.anchor = next.anchor /\ c.open = next.open /\ c.tools = next.tools
  BY <1>3, <1>7 DEF Contexts
<1>9. Alone(c)
  BY <1>7, <1>8 DEF Alone
<1>10. Stands(page, c)
  BY <1>5, <1>7, <1>8 DEF Stands, NamesNothing, HasItem
<1>11. IsQuiet(page, c)
  <2> SUFFICES ASSUME ~CanEdit(page) PROVE c = NoContext
    BY DEF IsQuiet
  <2>1. context = NoContext
    BY <1>5, QuietContext DEF CanEdit
  <2>2. next = NoContext
    BY <1>2, <2>1, NothingToReplace
  <2>3. c = [NoContext EXCEPT !.blind = FALSE]
    BY <1>3, <2>2
  <2>4. QED
    BY <2>3 DEF NoContext
<1>12. Told'
  BY <1>4, SameTold DEF CanvasInv
<1>13. QED
  BY <1>4, <1>5, <1>6, <1>8, <1>9, <1>10, <1>11, <1>12, CanvasStep

\* An element that is inserted into a sequence: the others keep their order.
LEMMA InsertedInto ==
    ASSUME NEW S, NEW s \in Seq(S), NEW i \in 1 .. Len(s) + 1, NEW e \in S
    PROVE  /\ InsertAt(s, i, e) \in Seq(S) /\ Len(InsertAt(s, i, e)) = Len(s) + 1
           /\ \A k \in 1 .. Len(s) + 1 :
                 InsertAt(s, i, e)[k] = IF k < i THEN s[k] ELSE IF k = i THEN e ELSE s[k - 1]
<1>1. Len(s) \in Nat /\ \A k \in 1 .. Len(s) : s[k] \in S
  BY LenProperties, ElementOfSeq
<1>2. i \in Int /\ 1 <= i /\ i <= Len(s) + 1
  BY <1>1
<1>3. PICK before : before = SubSeq(s, 1, i - 1)
  OBVIOUS
<1>4. before \in Seq(S) /\ Len(before) = i - 1 /\ \A k \in 1 .. i - 1 : before[k] = s[k]
  BY <1>1, <1>3, <1>2, SubSeqProperties
<1>5. PICK after : after = SubSeq(s, i, Len(s))
  OBVIOUS
<1>6. /\ after \in Seq(S) /\ Len(after) = Len(s) - i + 1
      /\ \A k \in 1 .. Len(s) - i + 1 : after[k] = s[i + k - 1]
  BY <1>1, <1>2, <1>5, SubSeqProperties
<1>7. PICK one : one = <<e>>
  OBVIOUS
<1>8. one \in Seq(S) /\ Len(one) = 1 /\ one[1] = e
  BY <1>7
<1>9. PICK first : first = before \o one
  OBVIOUS
<1>10. /\ first \in Seq(S) /\ Len(first) = i
      /\ \A k \in 1 .. i : first[k] = IF k < i THEN s[k] ELSE e
  <2>2. /\ first \in Seq(S) /\ Len(first) = Len(before) + Len(one)
        /\ \A k \in 1 .. Len(before) + Len(one) :
              first[k] = IF k <= Len(before) THEN before[k] ELSE one[k - Len(before)]
    BY <1>4, <1>8, <1>9, ConcatProperties
  <2>3. Len(before) + Len(one) = i
    BY <1>2, <1>4, <1>8
  <2>4. ASSUME NEW k \in 1 .. i PROVE first[k] = IF k < i THEN s[k] ELSE e
    <3>1. first[k] = IF k <= i - 1 THEN before[k] ELSE one[k - (i - 1)]
      BY <1>4, <2>2, <2>3
    <3>2. k \in Int
      OBVIOUS
    <3>3. CASE k < i
      BY <1>2, <1>4, <3>1, <3>2, <3>3
    <3>4. CASE ~(k < i)
      BY <1>2, <3>2, <3>4, <1>8, <3>1
    <3>5. QED
      BY <3>3, <3>4
  <2>5. QED
    BY <2>2, <2>3, <2>4
<1>11. PICK all : all = first \o after
  OBVIOUS
<1>12. /\ all \in Seq(S) /\ Len(all) = Len(first) + Len(after)
      /\ \A k \in 1 .. Len(first) + Len(after) :
            all[k] = IF k <= Len(first) THEN first[k] ELSE after[k - Len(first)]
  BY <1>6, <1>10, <1>11, ConcatProperties
<1>13. Len(first) + Len(after) = Len(s) + 1
  BY <1>1, <1>6, <1>10, <1>2
<1>14. ASSUME NEW k \in 1 .. Len(s) + 1
       PROVE  all[k] = IF k < i THEN s[k] ELSE IF k = i THEN e ELSE s[k - 1]
  <2>1. all[k] = IF k <= i THEN first[k] ELSE after[k - i]
    BY <1>10, <1>12, <1>13
  <2>2. k \in Int /\ 1 <= k /\ k <= Len(s) + 1
    BY <1>1
  <2>3. CASE k <= i
    BY <1>2, <2>2, <2>3, <1>10, <2>1
  <2>4. CASE ~(k <= i)
    BY <1>1, <1>2, <2>2, <2>4, <1>6, <2>1
  <2>5. QED
    BY <2>3, <2>4
<1>15. InsertAt(s, i, e) = all
  BY <1>3, <1>5, <1>7, <1>9, <1>11 DEF InsertAt
<1>16. QED
  BY <1>12, <1>13, <1>14, <1>15

\* An element that is removed from a sequence: the others keep their order.
LEMMA RemovedFrom ==
    ASSUME NEW S, NEW s \in Seq(S), NEW i \in 1 .. Len(s)
    PROVE  /\ RemoveAt(s, i) \in Seq(S) /\ Len(RemoveAt(s, i)) = Len(s) - 1
           /\ \A k \in 1 .. Len(s) - 1 : RemoveAt(s, i)[k] = IF k < i THEN s[k] ELSE s[k + 1]
<1>1. Len(s) \in Nat /\ \A k \in 1 .. Len(s) : s[k] \in S
  BY LenProperties, ElementOfSeq
<1>2. i \in Int /\ 1 <= i /\ i <= Len(s)
  BY <1>1
<1>3. PICK before : before = SubSeq(s, 1, i - 1)
  OBVIOUS
<1>4. before \in Seq(S) /\ Len(before) = i - 1 /\ \A k \in 1 .. i - 1 : before[k] = s[k]
  BY <1>1, <1>3, <1>2, SubSeqProperties
<1>5. PICK after : after = SubSeq(s, i + 1, Len(s))
  OBVIOUS
<1>6. /\ after \in Seq(S) /\ Len(after) = Len(s) - i
      /\ \A k \in 1 .. Len(s) - i : after[k] = s[i + k]
  BY <1>1, <1>2, <1>5, SubSeqProperties
<1>7. PICK all : all = before \o after
  OBVIOUS
<1>8. /\ all \in Seq(S) /\ Len(all) = Len(before) + Len(after)
      /\ \A k \in 1 .. Len(before) + Len(after) :
            all[k] = IF k <= Len(before) THEN before[k] ELSE after[k - Len(before)]
  BY <1>4, <1>6, <1>7, ConcatProperties
<1>9. Len(before) + Len(after) = Len(s) - 1
  BY <1>1, <1>4, <1>6, <1>2
<1>10. ASSUME NEW k \in 1 .. Len(s) - 1 PROVE all[k] = IF k < i THEN s[k] ELSE s[k + 1]
  <2>1. all[k] = IF k <= i - 1 THEN before[k] ELSE after[k - (i - 1)]
    BY <1>4, <1>8, <1>9
  <2>2. k \in Int /\ 1 <= k /\ k <= Len(s) - 1
    BY <1>1
  <2>3. CASE k < i
    BY <1>2, <2>2, <2>3, <1>4, <2>1
  <2>4. CASE ~(k < i)
    BY <1>1, <1>2, <2>2, <2>4, <1>6, <2>1
  <2>5. QED
    BY <2>3, <2>4
<1>11. RemoveAt(s, i) = all
  BY <1>3, <1>5, <1>7 DEF RemoveAt
<1>12. QED
  BY <1>8, <1>9, <1>10, <1>11

\* Where the style of an item goes when an item moves up.
LEMMA UpTargets ==
    ASSUME NEW item \in Int, NEW i \in Int, NEW j \in Int
    PROVE  /\ i \in {item - 1, item} => (j \in StyleTargets(item, "up", i) <=> j = 2 * item - 1 - i)
           /\ i \notin {item - 1, item} => (j \in StyleTargets(item, "up", i) <=> j = i)
BY DEF StyleTargets

\* Where the style of an item goes when an item moves down.
LEMMA DownTargets ==
    ASSUME NEW item \in Int, NEW i \in Int, NEW j \in Int
    PROVE  /\ i \in {item, item + 1} => (j \in StyleTargets(item, "down", i) <=> j = 2 * item + 1 - i)
           /\ i \notin {item, item + 1} => (j \in StyleTargets(item, "down", i) <=> j = i)
BY DEF StyleTargets

\* Where the style of an item goes when an item is deleted.
LEMMA DeleteTargets ==
    ASSUME NEW item \in Int, NEW i \in Int, NEW j \in Int
    PROVE  /\ i >= item => (j \in StyleTargets(item, "delete", i) <=> j = i - 1 /\ j # item - 1)
           /\ i < item => (j \in StyleTargets(item, "delete", i) <=> j = i)
BY DEF StyleTargets

\* Where the style of an item goes when an item is duplicated.
LEMMA DuplicateTargets ==
    ASSUME NEW item \in Int, NEW i \in Int, NEW j \in Int
    PROVE  /\ i = item => (j \in StyleTargets(item, "duplicate", i) <=> j \in {item, item + 1})
           /\ i > item => (j \in StyleTargets(item, "duplicate", i) <=> j = i + 1)
           /\ i < item => (j \in StyleTargets(item, "duplicate", i) <=> j = i)
BY DEF StyleTargets

\* The styles of a collection are those of its items.
Fitting(list, styles) == \A i \in 1 .. Len(list) : styles[i] <=> list[i].given

\* A place has a style when one of the items that go there had it.
LEMMA RemappedAre ==
    ASSUME NEW styles, NEW item, NEW operation, NEW after,
           after = RemappedStyles(styles, item, operation)
    PROVE  /\ after \in CardFlags
           /\ \A j \in 1 .. MostItems :
                 after[j] <=> \E i \in 1 .. MostItems :
                                 styles[i] /\ j \in StyleTargets(item, operation, i)
<1>1. \A j \in 1 .. MostItems :
         (\E i \in 1 .. MostItems : styles[i] /\ j \in StyleTargets(item, operation, i)) \in BOOLEAN
  BY Zenon
<1>2. after = [j \in 1 .. MostItems |->
                \E i \in 1 .. MostItems : styles[i] /\ j \in StyleTargets(item, operation, i)]
  BY Zenon DEF RemappedStyles
<1>3. after \in CardFlags
  BY <1>1, <1>2, Zenon DEF CardFlags
<1>4. QED
  BY <1>2, <1>3, Zenon

\* The items of a list are in its bounds.
LEMMA ItemsOfList ==
    ASSUME NEW list \in Lists
    PROVE  /\ list \in Seq(Item) /\ Len(list) \in Nat /\ Len(list) <= MostItems
           /\ \A i \in 1 .. Len(list) : list[i] \in Item /\ i \in 1 .. MostItems
BY LenProperties, ElementOfSeq, Bounds3 DEF Lists

\* Exchanging two items of a list.
LEMMA ExchangedStands ==
    ASSUME NEW list \in Lists, NEW i \in 1 .. Len(list), NEW j \in 1 .. Len(list),
           NEW next, next = Exchanged(list, i, j)
    PROVE  /\ next \in Lists /\ Len(next) = Len(list) /\ next[j] = list[i]
           /\ i # j => next[i] = list[j]
           /\ \A k \in 1 .. Len(list) : k \notin {i, j} => next[k] = list[k]
BY ItemsOfList DEF Exchanged, Lists

\* Moving an item up takes its style along.
LEMMA UpFits ==
    ASSUME NEW list \in Lists, NEW styles \in CardFlags, NEW item \in 1 .. Len(list), item > 1,
           NEW next, next = ChangedList(list, item, "up"),
           NEW after, after = RemappedStyles(styles, item, "up")
    PROVE  /\ next \in Lists /\ after \in CardFlags /\ Len(next) = Len(list)
           /\ Fitting(list, styles) => Fitting(next, after)
<1>1. Len(list) \in Nat /\ Len(list) <= MostItems /\ MostItems \in Nat
  BY ItemsOfList, Bounds3
<1>2. item - 1 \in 1 .. Len(list) /\ item \in Int /\ item # item - 1
  BY <1>1
<1>3. next = Exchanged(list, item, item - 1)
  BY DEF ChangedList
<1>4. /\ next \in Lists /\ Len(next) = Len(list) /\ next[item - 1] = list[item]
      /\ next[item] = list[item - 1]
      /\ \A k \in 1 .. Len(list) : k \notin {item, item - 1} => next[k] = list[k]
  <2>1. PICK other \in 1 .. Len(list) : other = item - 1
    BY <1>2
  <2>2. next = Exchanged(list, item, other) /\ item # other
    BY <1>2, <1>3, <2>1
  <2>3. /\ next \in Lists /\ Len(next) = Len(list) /\ next[other] = list[item]
        /\ next[item] = list[other]
        /\ \A k \in 1 .. Len(list) : k \notin {item, other} => next[k] = list[k]
    BY <2>2, ExchangedStands
  <2>4. QED
    BY <2>1, <2>3
<1>5. /\ after \in CardFlags
      /\ \A j \in 1 .. MostItems :
            after[j] <=> \E i \in 1 .. MostItems : styles[i] /\ j \in StyleTargets(item, "up", i)
  BY RemappedAre
<1>6. \A i, j \in Int : j \in StyleTargets(item, "up", i) <=>
         IF i \in {item - 1, item} THEN j = 2 * item - 1 - i ELSE j = i
  BY <1>2, UpTargets
<1>7. \A j \in 1 .. MostItems :
         after[j] <=> \E i \in 1 .. MostItems :
            styles[i] /\ (IF i \in {item - 1, item} THEN j = 2 * item - 1 - i ELSE j = i)
  BY <1>5, <1>6
<1>8. after[item] <=> styles[item - 1]
  BY <1>1, <1>2, <1>7
<1>9. after[item - 1] <=> styles[item]
  BY <1>1, <1>2, <1>7
<1>10. \A j \in 1 .. Len(list) : j \notin {item, item - 1} => (after[j] <=> styles[j])
  BY <1>1, <1>2, <1>7
<1>11. ASSUME Fitting(list, styles), NEW j \in 1 .. Len(next) PROVE after[j] <=> next[j].given
  BY <1>4, <1>2, <1>8, <1>11, <1>9, <1>10 DEF Fitting
<1>12. QED
  BY <1>4, <1>5, <1>11 DEF Fitting

\* Moving an item down takes its style along.
LEMMA DownFits ==
    ASSUME NEW list \in Lists, NEW styles \in CardFlags, NEW item \in 1 .. Len(list),
           item < Len(list), NEW next, next = ChangedList(list, item, "down"),
           NEW after, after = RemappedStyles(styles, item, "down")
    PROVE  /\ next \in Lists /\ after \in CardFlags /\ Len(next) = Len(list)
           /\ Fitting(list, styles) => Fitting(next, after)
<1>1. Len(list) \in Nat /\ Len(list) <= MostItems /\ MostItems \in Nat
  BY ItemsOfList, Bounds3
<1>2. item + 1 \in 1 .. Len(list) /\ item \in Int
  BY <1>1
<1>3. next = Exchanged(list, item, item + 1)
  BY DEF ChangedList
<1>4. /\ next \in Lists /\ Len(next) = Len(list) /\ next[item + 1] = list[item]
      /\ next[item] = list[item + 1]
      /\ \A k \in 1 .. Len(list) : k \notin {item, item + 1} => next[k] = list[k]
  BY <1>2, <1>3, ExchangedStands
<1>5. /\ after \in CardFlags
      /\ \A j \in 1 .. MostItems :
            after[j] <=> \E i \in 1 .. MostItems : styles[i] /\ j \in StyleTargets(item, "down", i)
  BY RemappedAre
<1>6. \A i, j \in Int : j \in StyleTargets(item, "down", i) <=>
         IF i \in {item, item + 1} THEN j = 2 * item + 1 - i ELSE j = i
  BY <1>2, DownTargets
<1>7. \A j \in 1 .. MostItems :
         after[j] <=> \E i \in 1 .. MostItems :
            styles[i] /\ (IF i \in {item, item + 1} THEN j = 2 * item + 1 - i ELSE j = i)
  BY <1>5, <1>6
<1>8. after[item] <=> styles[item + 1]
  BY <1>1, <1>2, <1>7
<1>9. after[item + 1] <=> styles[item]
  BY <1>1, <1>2, <1>7
<1>10. \A j \in 1 .. Len(list) : j \notin {item, item + 1} => (after[j] <=> styles[j])
  BY <1>1, <1>2, <1>7
<1>11. ASSUME Fitting(list, styles), NEW j \in 1 .. Len(next) PROVE after[j] <=> next[j].given
  BY <1>4, <1>2, <1>8, <1>11, <1>9, <1>10 DEF Fitting
<1>12. QED
  BY <1>4, <1>5, <1>11 DEF Fitting

\* Duplicating an item duplicates its style, and the styles of those behind move.
LEMMA DuplicateFits ==
    ASSUME NEW list \in Lists, NEW styles \in CardFlags, NEW item \in 1 .. Len(list),
           Len(list) < MostItems, NEW next, next = ChangedList(list, item, "duplicate"),
           NEW after, after = RemappedStyles(styles, item, "duplicate")
    PROVE  /\ next \in Lists /\ after \in CardFlags /\ Len(next) = Len(list) + 1
           /\ Fitting(list, styles) => Fitting(next, after)
<1>1. /\ Len(list) \in Nat /\ MostItems \in Nat /\ list \in Seq(Item) /\ list[item] \in Item
  BY ItemsOfList, Bounds3
<1>2. item + 1 \in 1 .. Len(list) + 1 /\ item \in Int
  BY <1>1
<1>3. next = InsertAt(list, item + 1, list[item])
  BY DEF ChangedList
<1>4. /\ next \in Seq(Item) /\ Len(next) = Len(list) + 1
      /\ \A k \in 1 .. Len(list) + 1 :
            next[k] = IF k < item + 1 THEN list[k] ELSE IF k = item + 1 THEN list[item]
                      ELSE list[k - 1]
  <2>1. PICK spot \in 1 .. Len(list) + 1 : spot = item + 1
    BY <1>2
  <2>2. PICK e \in Item : e = list[item]
    BY <1>1
  <2>3. /\ InsertAt(list, spot, e) \in Seq(Item) /\ Len(InsertAt(list, spot, e)) = Len(list) + 1
        /\ \A k \in 1 .. Len(list) + 1 :
              InsertAt(list, spot, e)[k] = IF k < spot THEN list[k] ELSE IF k = spot THEN e
                                           ELSE list[k - 1]
    BY <1>1, InsertedInto
  <2>4. QED
    BY <1>3, <2>1, <2>2, <2>3
<1>5. /\ after \in CardFlags
      /\ \A j \in 1 .. MostItems :
            after[j] <=> \E i \in 1 .. MostItems :
                            styles[i] /\ j \in StyleTargets(item, "duplicate", i)
  BY RemappedAre
<1>6. \A i, j \in Int : j \in StyleTargets(item, "duplicate", i) <=>
         \/ i = item /\ j \in {item, item + 1}
         \/ i > item /\ j = i + 1
         \/ i < item /\ j = i
  BY <1>2, DuplicateTargets
<1>7. \A j \in 1 .. MostItems :
         after[j] <=> \E i \in 1 .. MostItems :
            styles[i] /\ \/ i = item /\ j \in {item, item + 1}
                         \/ i > item /\ j = i + 1
                         \/ i < item /\ j = i
  BY <1>5, <1>6
<1>8. \A j \in 1 .. Len(list) + 1 : j \in 1 .. MostItems /\ j \in Int
  BY <1>1
<1>9. ASSUME NEW j \in 1 .. Len(list) + 1, NEW from, from = IF j <= item THEN j ELSE j - 1
      PROVE  from \in 1 .. Len(list) /\ (after[j] <=> styles[from]) /\ next[j] = list[from]
  <2>1. j \in Int /\ j \in 1 .. MostItems
    BY <1>8
  <2>2. from \in 1 .. Len(list) /\ from \in 1 .. MostItems
    BY <1>1, <1>2, <1>9, <2>1
  <2>3. after[j] <=> styles[from]
    BY <1>1, <1>2, <1>7, <1>9, <2>1, <2>2
  <2>4. next[j] = list[from]
    BY <1>2, <1>4, <1>9, <2>1
  <2>5. QED
    BY <2>2, <2>3, <2>4
<1>10. ASSUME Fitting(list, styles), NEW j \in 1 .. Len(next) PROVE after[j] <=> next[j].given
  BY <1>4, <1>9, <1>10 DEF Fitting
<1>11. next \in Lists
  BY <1>1, <1>4 DEF Lists
<1>12. QED
  BY <1>4, <1>5, <1>10, <1>11 DEF Fitting

\* Deleting an item deletes its style, and the styles of those behind move.
LEMMA DeleteFits ==
    ASSUME NEW list \in Lists, NEW styles \in CardFlags, NEW item \in 1 .. Len(list),
           NEW next, next = ChangedList(list, item, "delete"),
           NEW after, after = RemappedStyles(styles, item, "delete")
    PROVE  /\ next \in Lists /\ after \in CardFlags /\ Len(next) = Len(list) - 1
           /\ Fitting(list, styles) => Fitting(next, after)
<1>1. /\ Len(list) \in Nat /\ Len(list) <= MostItems /\ MostItems \in Nat /\ list \in Seq(Item)
  BY ItemsOfList, Bounds3
<1>2. item \in Int /\ 1 <= item /\ item <= Len(list)
  BY <1>1
<1>3. next = RemoveAt(list, item)
  BY DEF ChangedList
<1>4. /\ next \in Seq(Item) /\ Len(next) = Len(list) - 1
      /\ \A k \in 1 .. Len(list) - 1 : next[k] = IF k < item THEN list[k] ELSE list[k + 1]
  BY <1>1, <1>3, RemovedFrom
<1>5. /\ after \in CardFlags
      /\ \A j \in 1 .. MostItems :
            after[j] <=> \E i \in 1 .. MostItems :
                            styles[i] /\ j \in StyleTargets(item, "delete", i)
  BY RemappedAre
<1>6. \A i, j \in Int : j \in StyleTargets(item, "delete", i) <=>
         \/ i >= item /\ j = i - 1 /\ j # item - 1
         \/ i < item /\ j = i
  BY <1>2, DeleteTargets
<1>7. \A j \in 1 .. MostItems :
         after[j] <=> \E i \in 1 .. MostItems :
            styles[i] /\ \/ i >= item /\ j = i - 1 /\ j # item - 1
                         \/ i < item /\ j = i
  BY <1>5, <1>6
<1>8. ASSUME NEW j \in 1 .. Len(list) - 1, NEW from, from = IF j < item THEN j ELSE j + 1
      PROVE  from \in 1 .. Len(list) /\ (after[j] <=> styles[from]) /\ next[j] = list[from]
  BY <1>1, <1>2, <1>8, <1>7, <1>4
<1>9. ASSUME Fitting(list, styles), NEW j \in 1 .. Len(next) PROVE after[j] <=> next[j].given
  BY <1>4, <1>8, <1>9 DEF Fitting
<1>10. next \in Lists
  BY <1>1, <1>4 DEF Lists
<1>11. QED
  BY <1>4, <1>5, <1>9, <1>10 DEF Fitting

\* A change that Puck records.
LEMMA RecordedIs ==
    ASSUME CanvasInv, NEW doc \in Docs, NEW page, page = Recorded(canvasPage, doc)
    PROVE  /\ page \in Canvases /\ page.doc = doc
           /\ page.past = Append(canvasPage.past, canvasPage.doc) /\ page.due
           /\ page.puck = canvasPage.puck /\ page.mode = canvasPage.mode
           /\ page.astray = canvasPage.astray
<1>1. canvasPage \in Canvases /\ canvasPage.doc \in Docs /\ canvasPage.past \in Seq(Docs)
  BY CanvasFields DEF Canvases
<1>2. PICK past : past = Append(canvasPage.past, canvasPage.doc)
  OBVIOUS
<1>3. past \in Seq(Docs)
  BY <1>1, <1>2, AppendProperties
<1>4. PICK due \in BOOLEAN : due = TRUE
  BY Zenon
<1>5. page = [canvasPage EXCEPT !.doc = doc, !.past = past, !.due = due]
  BY <1>2, <1>4, Zenon DEF Recorded
<1>6. /\ page \in Canvases /\ page.doc = doc /\ page.past = past /\ page.due = due
      /\ page.puck = canvasPage.puck /\ page.mode = canvasPage.mode
      /\ page.astray = canvasPage.astray
  BY <1>1, <1>3, <1>5 DEF Canvases
<1>7. QED
  BY <1>2, <1>4, <1>6

\* A change that the history records waits to be heard, so nothing is judged before.
LEMMA RecordedStands ==
    ASSUME CanvasInv, NEW page \in Canvases, page.due,
           page.past = Append(canvasPage.past, canvasPage.doc),
           ~page.astray => ~canvasPage.astray /\ (StylesFit(canvasPage.doc) => StylesFit(page.doc))
    PROVE  PageFits(page) /\ \A c : Stands(page, c)
<1>1. /\ canvasPage.past \in Seq(Docs) /\ canvasPage.doc \in Docs /\ PageFits(canvasPage)
  BY CanvasFields DEF Canvases
<1>2. /\ Len(canvasPage.past) \in Nat /\ Len(page.past) = Len(canvasPage.past) + 1
      /\ \A k \in 1 .. Len(canvasPage.past) : page.past[k] = canvasPage.past[k]
      /\ page.past[Len(canvasPage.past) + 1] = canvasPage.doc
  BY <1>1, AppendProperties, LenProperties
<1>3. ASSUME ~page.astray, NEW k \in 1 .. Len(page.past) PROVE StylesFit(page.past[k])
  <2>1. /\ StylesFit(canvasPage.doc)
        /\ \A j \in 1 .. Len(canvasPage.past) : StylesFit(canvasPage.past[j])
    BY <1>1, <1>3 DEF PageFits
  <2>2. CASE k = Len(canvasPage.past) + 1
    BY <1>2, <2>1, <2>2
  <2>3. CASE k # Len(canvasPage.past) + 1
    BY <1>2, <2>3, <2>1
  <2>4. QED
    BY <2>2, <2>3
<1>4. ~page.astray => StylesFit(page.doc)
  BY <1>1 DEF PageFits
<1>5. QED
  BY <1>3, <1>4 DEF PageFits, Stands

\* The fields of a document.
LEMMA DocFields ==
    ASSUME NEW doc \in Docs
    PROVE  /\ doc.here \subseteq Cards /\ doc.own \in [Cards -> Owned]
           /\ doc.items \in [Cards -> Lists] /\ doc.styled \in [Cards -> CardFlags]
BY DEF Docs

\* Styles fit a document when they fit each of its cards.
LEMMA FitsIs ==
    ASSUME NEW doc \in Docs
    PROVE  StylesFit(doc) <=> \A card \in Cards : Fitting(doc.items[card], doc.styled[card])
BY DocFields, ItemsOfList, Bounds3 DEF StylesFit, Fitting

\* A document with another collection of one block.
LEMMA CollectionStands ==
    ASSUME NEW doc \in Docs, NEW next \in Docs, NEW card \in Cards,
           \A c \in Cards : c # card => /\ next.items[c] = doc.items[c]
                                       /\ next.styled[c] = doc.styled[c],
           Fitting(next.items[card], next.styled[card])
    PROVE  StylesFit(doc) => StylesFit(next)
BY FitsIs

\* Every operation gives a collection whose styles fit when they did, and the

\* selection goes to one of its items.
LEMMA CollectionChanges ==
    ASSUME NEW list \in Lists, NEW styles \in CardFlags, NEW item \in 1 .. Len(list),
           NEW operation \in {"up", "down", "duplicate", "delete"},
           CanChange(list, item, operation),
           NEW next, next = ChangedList(list, item, operation),
           NEW after, after = RemappedStyles(styles, item, operation)
    PROVE  /\ next \in Lists /\ after \in CardFlags
           /\ Fitting(list, styles) => Fitting(next, after)
           /\ NextIndex(list, item, operation) \in 0 .. MostItems
<1>1. /\ Len(list) \in Nat /\ Len(list) <= MostItems /\ MostItems \in Nat
      /\ LeastItems \in Nat \ {0}
  BY ItemsOfList, Bounds3
<1>2. CASE operation = "up"
  BY <1>2, <1>1, UpFits DEF CanChange, NextIndex
<1>3. CASE operation = "down"
  BY <1>3, <1>1, DownFits DEF CanChange, NextIndex
<1>4. CASE operation = "duplicate"
  BY <1>4, <1>1, DuplicateFits DEF CanChange, NextIndex
<1>5. CASE operation = "delete"
  BY <1>5, <1>1, DeleteFits DEF CanChange, NextIndex
<1>6. QED
  BY <1>2, <1>3, <1>4, <1>5

\* While the editing is not disabled, a readonly editor is not meant.
LEMMA EditableIsNotQuiet ==
    ASSUME NEW page, page.mode = canvasPage.mode, ~EditingDisabled(canvasPage)
    PROVE  \A c : IsQuiet(page, c)
BY DEF EditingDisabled, IsQuiet, CanEdit

\* An item is moved, duplicated or deleted.
LEMMA ChangeCollectionKeeps ==
    ASSUME CanvasInv, TouchesCount, NEW operation \in {"up", "down", "duplicate", "delete"},
           ChangeCollection(operation)
    PROVE  CanvasInv'
<1>1. PICK element : element = BarElement(canvasPage, context.element)
  OBVIOUS
<1>2. element \in Elements /\ element.card \in Cards /\ element \in Chosen
  BY <1>1, CanvasFields, NoElementStands, ElementFields DEF BarElement, ChangeCollection
<1>3. PICK card \in Cards : card = element.card
  BY <1>2
<1>4. canvasPage.doc \in Docs
  BY CanvasFields
<1>5. PICK list \in Lists : list = canvasPage.doc.items[card]
  BY <1>4, DocFields
<1>6. PICK styles \in CardFlags : styles = canvasPage.doc.styled[card]
  BY <1>4, DocFields
<1>7. CanChange(list, element.item, operation) /\ ~EditingDisabled(canvasPage) /\ ~IsRange(context)
  BY <1>1, <1>3, <1>5 DEF ChangeCollection
<1>8. PICK item \in 1 .. Len(list) : item = element.item
  BY <1>7 DEF CanChange
<1>9. PICK newList : newList = ChangedList(list, item, operation)
  OBVIOUS
<1>10. PICK newStyles : newStyles = RemappedStyles(styles, item, operation)
  OBVIOUS
<1>11. /\ newList \in Lists /\ newStyles \in CardFlags
       /\ Fitting(list, styles) => Fitting(newList, newStyles)
       /\ NextIndex(list, item, operation) \in 0 .. MostItems
  BY <1>7, <1>8, <1>9, <1>10, CollectionChanges
<1>12. PICK items : items = [canvasPage.doc.items EXCEPT ![card] = newList]
  OBVIOUS
<1>13. PICK styled : styled = [canvasPage.doc.styled EXCEPT ![card] = newStyles]
  OBVIOUS
<1>14. PICK doc : doc = [canvasPage.doc EXCEPT !.items = items, !.styled = styled]
  OBVIOUS
<1>15. /\ doc \in Docs
       /\ Fitting(newList, newStyles) => (StylesFit(canvasPage.doc) => StylesFit(doc))
  BY <1>4, <1>14, <1>12, <1>13, <1>11, DocFields, CollectionStands DEF Docs
<1>16. StylesFit(canvasPage.doc) => StylesFit(doc)
  BY <1>4, <1>5, <1>6, <1>11, <1>15, FitsIs
<1>17. PICK page : page = Recorded(canvasPage, doc)
  OBVIOUS
<1>18. /\ page \in Canvases /\ page.doc = doc
       /\ page.past = Append(canvasPage.past, canvasPage.doc) /\ page.due
       /\ page.mode = canvasPage.mode /\ page.astray = canvasPage.astray
  BY <1>15, <1>17, RecordedIs
<1>19. PageFits(page) /\ \A c : Stands(page, c)
  BY <1>16, <1>18, RecordedStands
<1>20. PICK next \in 0 .. MostItems : next = NextIndex(list, item, operation)
  BY <1>11
<1>21. PICK moved : moved = [element EXCEPT !.item = next]
  OBVIOUS
<1>22. moved \in Chosen
  BY <1>2, <1>21 DEF Elements, Chosen
<1>23. PICK replaced : replaced = RangeReplaced(context, moved)
  OBVIOUS
<1>24. replaced \in Contexts /\ Alone(replaced)
  BY <1>22, <1>23, CanvasFields, RangeReplacedStands
<1>25. PICK c : c = [replaced EXCEPT !.blind = FALSE]
  OBVIOUS
<1>26. /\ c \in Contexts /\ c.element = replaced.element /\ c.range = replaced.range
       /\ c.anchor = replaced.anchor /\ c.open = replaced.open /\ c.tools = replaced.tools
  BY <1>24, <1>25 DEF Contexts
<1>27. Alone(c)
  BY <1>24, <1>26 DEF Alone
<1>28. Rendered(page, c, pickers) /\ UNCHANGED canvasEvents
  BY <1>1, <1>3, <1>5, <1>6, <1>8, <1>9, <1>10, <1>14, <1>12, <1>13, <1>17, <1>20, <1>21, <1>23,
     <1>25, Zenon DEF ChangeCollection
<1>29. Told'
  BY <1>28, SameTold DEF CanvasInv
<1>30. IsQuiet(page, c)
  BY <1>7, <1>18, EditableIsNotQuiet
<1>31. QED
  BY <1>18, <1>19, <1>26, <1>27, <1>28, <1>29, <1>30, CanvasStep

\* An element is found in a card, or nowhere.
LEMMA LocatedIs ==
    ASSUME NEW page \in Canvases, NEW element \in Chosen
    PROVE  Located(page, element) \in Cards \cup {NoCard}
BY ElementFields DEF Canvases, Located

\* An element is given a style.
LEMMA StyleElementKeeps == CanvasInv /\ TouchesCount /\ StyleElement => CanvasInv'
<1> SUFFICES ASSUME CanvasInv, TouchesCount, StyleElement PROVE CanvasInv'
  OBVIOUS
<1>1. context.element \in Chosen /\ canvasPage \in Canvases /\ canvasPage.doc \in Docs
  BY CanvasFields
<1>2. PICK card \in Cards : card = Located(canvasPage, context.element)
  BY <1>1, LocatedIs DEF StyleElement
<1>3. PICK item \in 1 .. MostItems : item = context.element.item
  BY <1>1, ElementFields DEF StyleElement
<1>4. PICK before \in Docs : before = canvasPage.doc
  BY <1>1
<1>5. PICK list \in Lists : list = before.items[card]
  BY DocFields
<1>6. PICK styles \in CardFlags : styles = before.styled[card]
  BY DocFields
<1>7. PICK there \in BOOLEAN : there = HasItem(before, card, item)
  BY Zenon DEF HasItem
<1>8. PICK given \in BOOLEAN : given = ~styles[item]
  BY Zenon
<1>9. PICK newStyles : newStyles = [styles EXCEPT ![item] = given]
  OBVIOUS
<1>10. PICK newItem : newItem = [list[item] EXCEPT !.given = given]
  OBVIOUS
<1>11. PICK newList : newList = IF there THEN [list EXCEPT ![item] = newItem] ELSE list
  OBVIOUS
<1>12. newStyles \in CardFlags /\ newStyles[item] = given
       /\ \A i \in 1 .. MostItems : i # item => newStyles[i] = styles[i]
  BY <1>9 DEF CardFlags
<1>13. newList \in Lists /\ (there /\ Fitting(list, styles) => Fitting(newList, newStyles))
  <2>1. CASE there
    <3>1. item <= Len(list)
      BY <1>5, <1>7, <2>1 DEF HasItem
    <3>2. list \in Seq(Item) /\ Len(list) \in Nat /\ Len(list) <= MostItems
      BY ItemsOfList
    <3>3. item \in 1 .. Len(list)
      BY <3>1, <3>2
    <3>4. list[item] \in Item
      BY <3>3, ItemsOfList
    <3>5. newItem \in Item /\ newItem.given = given
      BY <1>10, <3>4 DEF Item
    <3>6. newList = [list EXCEPT ![item] = newItem]
      BY <1>11, <2>1
    <3>7. /\ newList \in Seq(Item) /\ Len(newList) = Len(list) /\ newList[item] = newItem
          /\ \A i \in 1 .. Len(list) : i # item => newList[i] = list[i]
      BY <3>2, <3>3, <3>5, <3>6
    <3>8. newList \in Lists
      BY <3>2, <3>7 DEF Lists
    <3>9. \A i \in 1 .. Len(list) : i \in 1 .. MostItems
      BY ItemsOfList
    <3>10. ASSUME Fitting(list, styles), NEW i \in 1 .. Len(newList)
           PROVE  newStyles[i] <=> newList[i].given
      BY <3>7, <3>9, <1>12, <3>5, <3>10 DEF Fitting
    <3>11. QED
      BY <3>8, <3>10 DEF Fitting
  <2>2. CASE ~there
    BY <1>11, <2>2
  <2>3. QED
    BY <2>1, <2>2
<1>14. PICK items : items = [before.items EXCEPT ![card] = newList]
  OBVIOUS
<1>15. PICK styled : styled = [before.styled EXCEPT ![card] = newStyles]
  OBVIOUS
<1>16. PICK doc : doc = [before EXCEPT !.items = items, !.styled = styled]
  OBVIOUS
<1>17. doc \in Docs /\ (Fitting(newList, newStyles) => (StylesFit(before) => StylesFit(doc)))
  BY <1>13, <1>14, <1>12, <1>15, <1>16, DocFields, CollectionStands DEF Docs
<1>18. there => (StylesFit(before) => StylesFit(doc))
  BY <1>5, <1>6, <1>13, <1>17, FitsIs
<1>19. PICK page : page = Recorded(canvasPage, doc)
  OBVIOUS
<1>20. /\ page \in Canvases /\ page.doc = doc
       /\ page.past = Append(canvasPage.past, canvasPage.doc) /\ page.due
       /\ page.mode = canvasPage.mode /\ page.astray = canvasPage.astray
  BY <1>17, <1>19, RecordedIs
<1>21. PICK astray \in BOOLEAN : astray = (page.astray \/ ~there)
  BY Zenon
<1>22. PICK styledPage : styledPage = [page EXCEPT !.puck = card, !.astray = astray]
  OBVIOUS
<1>23. /\ styledPage \in Canvases /\ styledPage.doc = doc /\ styledPage.past = page.past
       /\ styledPage.due = page.due /\ styledPage.mode = page.mode
       /\ styledPage.astray = astray
  BY <1>20, <1>22 DEF Canvases
<1>24. ~astray => ~canvasPage.astray /\ there
  BY <1>20, <1>21
<1>25. PageFits(styledPage) /\ \A c : Stands(styledPage, c)
  BY <1>20, <1>23, <1>4, <1>18, <1>24, RecordedStands
<1>26. doc = LET first == [before EXCEPT !.styled =
                             [before.styled EXCEPT ![card] = [styles EXCEPT ![item] = ~styles[item]]]]
             IN  IF ~there THEN first
                 ELSE [first EXCEPT !.items = [first.items EXCEPT ![card] =
                          [list EXCEPT ![item] = [list[item] EXCEPT !.given = ~styles[item]]]]]
  <2>1. PICK start : start = [before EXCEPT !.styled = styled]
    OBVIOUS
  <2>2. /\ before = [here |-> before.here, own |-> before.own, items |-> before.items,
                    styled |-> before.styled]
        /\ before.items \in [Cards -> Lists]
    BY DEF Docs
  <2>3. doc = [here |-> before.here, own |-> before.own, items |-> items, styled |-> styled]
    BY <1>16, <2>2
  <2>4. start = [here |-> before.here, own |-> before.own, items |-> before.items,
                 styled |-> styled]
    BY <2>1, <2>2
  <2>5. CASE ~there
    <3>1. items = before.items
      BY <1>5, <1>11, <1>14, <2>2, <2>5
    <3>2. doc = start
      BY <2>3, <2>4, <3>1
    <3>3. QED
      BY <1>8, <1>9, <1>15, <2>1, <2>5, <3>2, Zenon
  <2>6. CASE there
    <3>1. newList = [list EXCEPT ![item] = [list[item] EXCEPT !.given = ~styles[item]]]
      BY <1>8, <1>10, <1>11, <2>6, Zenon
    <3>2. start.items = before.items
      BY <2>4
    <3>3. items = [start.items EXCEPT ![card] = newList]
      BY <1>14, <3>2
    <3>4. doc = [start EXCEPT !.items = items]
      BY <2>3, <2>4
    <3>5. QED
      BY <1>8, <1>9, <1>15, <2>1, <2>6, <3>1, <3>3, <3>4, Zenon
  <2>7. QED
    BY <2>5, <2>6
<1>27. Rendered(styledPage, context, pickers) /\ UNCHANGED canvasEvents
  BY <1>2, <1>3, <1>4, <1>5, <1>6, <1>7, <1>19, <1>21, <1>22, <1>26, Zenon DEF StyleElement
<1>28. Told'
  BY <1>27, SameTold DEF CanvasInv
<1>29. ~EditingDisabled(canvasPage)
  BY DEF StyleElement
<1>30. IsQuiet(styledPage, context)
  BY <1>20, <1>23, <1>29, EditableIsNotQuiet
<1>31. QED
  BY <1>23, <1>25, <1>27, <1>28, <1>30, CanvasFields, CanvasStep

\* A card is deleted.
LEMMA DeleteCardKeeps == CanvasInv /\ TouchesCount /\ DeleteCard => CanvasInv'
<1> SUFFICES ASSUME CanvasInv, TouchesCount, DeleteCard PROVE CanvasInv'
  OBVIOUS
<1>1. PICK before \in Docs : before = canvasPage.doc
  BY CanvasFields
<1>2. PICK here : here = before.here \ {canvasPage.puck}
  OBVIOUS
<1>3. PICK doc : doc = [before EXCEPT !.here = here]
  OBVIOUS
<1>4. doc \in Docs /\ doc.items = before.items /\ doc.styled = before.styled
  BY <1>2, <1>3 DEF Docs
<1>5. StylesFit(canvasPage.doc) => StylesFit(doc)
  BY <1>1, <1>4 DEF StylesFit
<1>6. PICK page : page = Recorded(canvasPage, doc)
  OBVIOUS
<1>7. /\ page \in Canvases /\ page.doc = doc
      /\ page.past = Append(canvasPage.past, canvasPage.doc) /\ page.due
      /\ page.mode = canvasPage.mode /\ page.astray = canvasPage.astray
  BY <1>4, <1>6, RecordedIs
<1>8. PICK left : left = [page EXCEPT !.puck = NoCard]
  OBVIOUS
<1>9. /\ left \in Canvases /\ left.doc = doc /\ left.past = page.past /\ left.due
      /\ left.mode = page.mode /\ left.astray = page.astray
  BY <1>7, <1>8 DEF Canvases
<1>10. PageFits(left) /\ \A c : Stands(left, c)
  BY <1>5, <1>7, <1>9, RecordedStands
<1>11. PICK c : c = RangeReplaced(context, NoElement)
  OBVIOUS
<1>12. c \in Contexts /\ Alone(c)
  BY <1>11, NoElementStands, CanvasFields, RangeReplacedStands
<1>13. Rendered(left, c, pickers) /\ UNCHANGED canvasEvents /\ ~EditingDisabled(canvasPage)
  BY <1>1, <1>2, <1>3, <1>6, <1>8, <1>11, Zenon DEF DeleteCard
<1>14. Told'
  BY <1>13, SameTold DEF CanvasInv
<1>15. IsQuiet(left, c)
  BY <1>7, <1>9, <1>13, EditableIsNotQuiet
<1>16. QED
  BY <1>9, <1>10, <1>12, <1>13, <1>14, <1>15, CanvasStep

\* The last change is undone.
LEMMA UndoCardsKeeps == CanvasInv /\ TouchesCount /\ UndoCards => CanvasInv'
<1> SUFFICES ASSUME CanvasInv, TouchesCount, UndoCards PROVE CanvasInv'
  OBVIOUS
<1>1. PICK past \in Seq(Docs) : past = canvasPage.past
  BY CanvasFields DEF Canvases
<1>2. past # << >> /\ ~EditingDisabled(canvasPage)
  BY <1>1 DEF UndoCards
<1>3. Len(past) \in Nat /\ Len(past) >= 1
  BY <1>2, LenProperties, EmptySeq
<1>4. PICK doc : doc = Last(past)
  OBVIOUS
<1>5. doc = past[Len(past)] /\ doc \in Docs
  BY <1>3, <1>4, ElementOfSeq DEF Last
<1>6. PICK front : front = Front(past)
  OBVIOUS
<1>7. /\ front \in Seq(Docs) /\ Len(front) = Len(past) - 1
      /\ \A k \in 1 .. Len(past) - 1 : front[k] = past[k]
  <2>1. PICK n \in Nat : n = Len(past) - 1
    BY <1>3
  <2>2. front = SubSeq(past, 1, n)
    BY <1>6, <2>1 DEF Front
  <2>3. \A k \in 1 .. n : past[k] \in Docs
    BY <1>3, <2>1, ElementOfSeq
  <2>4. /\ front \in Seq(Docs) /\ Len(front) = IF 1 <= n THEN n - 1 + 1 ELSE 0
        /\ \A k \in 1 .. n - 1 + 1 : front[k] = past[1 + k - 1]
    BY <2>2, <2>3, SubSeqProperties
  <2>5. Len(front) = n
    BY <2>4
  <2>6. \A k \in 1 .. n : k \in 1 .. n - 1 + 1 /\ 1 + k - 1 = k
    OBVIOUS
  <2>7. QED
    BY <2>1, <2>4, <2>5, <2>6
<1>8. PICK due \in BOOLEAN : due = TRUE
  BY Zenon
<1>9. PICK page : page = [canvasPage EXCEPT !.doc = doc, !.past = front, !.due = due]
  OBVIOUS
<1>10. /\ page \in Canvases /\ page.doc = doc /\ page.past = front /\ page.due = due
       /\ page.mode = canvasPage.mode /\ page.astray = canvasPage.astray
  BY <1>5, <1>7, <1>9, CanvasFields DEF Canvases
<1>11. PageFits(page)
  BY <1>10, <1>1, <1>3, <1>5, <1>7, CanvasFields DEF PageFits
<1>12. \A c : Stands(page, c)
  BY <1>8, <1>10 DEF Stands
<1>13. Rendered(page, context, pickers) /\ UNCHANGED canvasEvents
  BY <1>1, <1>4, <1>6, <1>8, <1>9, Zenon DEF UndoCards
<1>14. Told'
  BY <1>13, SameTold DEF CanvasInv
<1>15. IsQuiet(page, context)
  BY <1>2, <1>10, EditableIsNotQuiet
<1>16. QED
  BY <1>10, <1>11, <1>12, <1>13, <1>14, <1>15, CanvasFields, CanvasStep

\* A value that is written leaves the styles where they are.
LEMMA ValueStands ==
    ASSUME NEW doc \in Docs, NEW card \in Cards, NEW item \in 0 .. MostItems,
           HasItem(doc, card, item), NEW kind \in Kinds2, NEW value \in {"first", "picked"},
           NEW next, next = WithValue(doc, card, item, kind, value)
    PROVE  next \in Docs /\ (StylesFit(doc) => StylesFit(next))
<1>1. doc.own \in [Cards -> Owned] /\ doc.items \in [Cards -> Lists]
  BY DocFields
<1>2. PICK list \in Lists : list = doc.items[card]
  BY <1>1
<1>3. CASE item = 0
  <2>1. PICK valued : valued = IF kind = "media" THEN [doc.own[card] EXCEPT !.media = value]
                               ELSE [doc.own[card] EXCEPT !.route = value]
    OBVIOUS
  <2>2. valued \in Owned
    BY <1>1, <2>1 DEF Owned
  <2>3. PICK own : own = [doc.own EXCEPT ![card] = valued]
    OBVIOUS
  <2>4. own \in [Cards -> Owned]
    BY <1>1, <2>2, <2>3
  <2>5. next = [doc EXCEPT !.own = own]
    BY <1>3, <2>1, <2>3, Zenon DEF WithValue
  <2>6. next \in Docs /\ next.items = doc.items /\ next.styled = doc.styled
    BY <2>4, <2>5 DEF Docs
  <2>7. QED
    BY <2>6 DEF StylesFit
<1>4. CASE item # 0
  <2>1. /\ list \in Seq(Item) /\ Len(list) \in Nat /\ Len(list) <= MostItems
        /\ item \in 1 .. Len(list)
    BY <1>2, <1>4, ItemsOfList DEF HasItem
  <2>2. PICK old \in Item : old = list[item]
    BY <2>1, ItemsOfList
  <2>3. PICK valued : valued = IF kind = "media" THEN [old EXCEPT !.media = value]
                               ELSE [old EXCEPT !.route = value]
    OBVIOUS
  <2>4. valued \in Item /\ valued.given = old.given
    BY <2>3 DEF Item
  <2>5. PICK newList : newList = [list EXCEPT ![item] = valued]
    OBVIOUS
  <2>6. /\ newList \in Seq(Item) /\ Len(newList) = Len(list)
        /\ newList[item] = valued /\ \A i \in 1 .. Len(list) : i # item => newList[i] = list[i]
    BY <2>1, <2>4, <2>5
  <2>7. newList \in Lists
    BY <2>1, <2>6 DEF Lists
  <2>8. PICK items : items = [doc.items EXCEPT ![card] = newList]
    OBVIOUS
  <2>9. /\ items \in [Cards -> Lists] /\ items[card] = newList
        /\ \A c \in Cards : c # card => items[c] = doc.items[c]
    BY <1>1, <2>7, <2>8
  <2>10. next = [doc EXCEPT !.items = items]
    BY <1>2, <1>4, <2>2, <2>3, <2>5, <2>8, Zenon DEF WithValue
  <2>11. next \in Docs /\ next.items = items /\ next.styled = doc.styled
    BY <2>9, <2>10 DEF Docs
  <2>12. ASSUME StylesFit(doc) PROVE StylesFit(next)
    <3>1. Fitting(list, doc.styled[card])
      BY <1>2, <2>12, FitsIs
    <3>2. ASSUME NEW i \in 1 .. Len(newList) PROVE doc.styled[card][i] <=> newList[i].given
      BY <2>6, <3>1, <2>2, <2>4 DEF Fitting
    <3>3. Fitting(next.items[card], next.styled[card])
      BY <2>9, <2>11, <3>2 DEF Fitting
    <3>4. QED
      BY <2>9, <2>11, <2>12, <3>3, CollectionStands
  <2>13. QED
    BY <2>11, <2>12
<1>5. QED
  BY <1>3, <1>4

\* A value that a session gives: to its own field, and at most once.
LEMMA ApplyKeeps ==
    ASSUME CanvasInv, TouchesCount, NEW kind \in Kinds2, NEW session \in Sessions,
           session.wrote = << >>, NEW live \in BOOLEAN, NEW p \in Dialogues, NoneWrote(p),
           NEW otherwise \in Contexts, Alone(otherwise), IsQuiet(canvasPage, otherwise),
           Stands(canvasPage, otherwise), Apply(kind, session, live, p, otherwise), Told'
    PROVE  CanvasInv'
<1>1. canvasPage \in Canvases /\ canvasPage.doc \in Docs /\ PageFits(canvasPage)
  BY CanvasFields
<1>2. SUFFICES /\ canvasPage' \in Canvases /\ context' \in Contexts /\ pickers' \in Dialogues
               /\ CanvasStands'
  BY DEF CanvasInv, CanvasTypes, TouchesCount
<1>3. PICK there \in BOOLEAN :
        there = HasItem(canvasPage.doc, session.target.card, session.target.item)
  BY Zenon DEF HasItem
<1>4. CASE ~AcceptsValue(session, live)
  <2>1. Rendered(canvasPage, otherwise, p)
    BY <1>4, Zenon DEF Apply
  <2>2. Unwritten(otherwise, p)
    BY DEF NoneWrote, Unwritten, Kinds2
  <2>3. QED
    BY <1>1, <2>1, <2>2, RenderedKeeps
<1>5. CASE AcceptsValue(session, live)
  <2>1. PICK target \in Places : target = session.target
    BY <1>5 DEF AcceptsValue, Sessions
  <2>2. target.card \in Cards /\ target.item \in 0 .. MostItems
    BY <2>1 DEF Places
  <2>3. PICK wrote \in Seq(Places) :
          wrote = IF there THEN Append(session.wrote, target) ELSE session.wrote
    BY AppendProperties DEF Sessions
  <2>4. PICK on \in BOOLEAN : on = TRUE
    BY Zenon
  <2>5. PICK off \in BOOLEAN : off = FALSE
    BY Zenon
  <2>6. PICK spent : spent = [session EXCEPT !.applied = on, !.uploading = off, !.wrote = wrote]
    OBVIOUS
  <2>7. spent \in Opened /\ spent.wrote = wrote /\ spent.uploading = off
    BY <2>6 DEF Sessions, Opened
  <2>8. PICK kept : kept = [p EXCEPT ![kind] = spent]
    OBVIOUS
  <2>9. /\ kept \in Dialogues /\ kept[kind] = spent /\ kept.late = p.late
        /\ \A k \in Kinds2 : k # kind => kept[k] = p[k]
    BY <2>7, <2>8 DEF Dialogues, Kinds2
  <2>10. \A k \in Kinds2 : p[k].wrote = << >>
    BY DEF NoneWrote, Kinds2
  <2>11. live
    BY <1>5 DEF AcceptsValue
  <2>12. CASE ~there
    <3>1. Rendered(canvasPage, context, kept)
      <4>1. wrote = session.wrote
        BY <2>3, <2>12
      <4>2. QED
        BY <1>3, <1>5, <2>1, <2>3, <2>4, <2>5, <2>6, <2>8, <2>11, <2>12, Zenon DEF Apply
    <3>2. wrote = << >>
      BY <2>3, <2>12
    <3>3. \A k \in Kinds2 : kept[k].wrote = << >>
      BY <2>7, <2>9, <2>10, <3>2
    <3>4. kept.media.wrote = << >>
      BY <3>3 DEF Kinds2
    <3>5. Unwritten(context, kept)
      BY <2>9, <3>3, <3>4 DEF Unwritten, NoneWrote
    <3>6. QED
      BY <1>1, <2>9, <3>1, <3>5, CanvasFields, RenderedKeeps
  <2>13. CASE there
    <3>1. PICK value \in {"first", "picked"} : value = "picked"
      OBVIOUS
    <3>2. PICK doc : doc = WithValue(canvasPage.doc, target.card, target.item, kind, value)
      OBVIOUS
    <3>3. HasItem(canvasPage.doc, target.card, target.item)
      BY <1>3, <2>1, <2>13
    <3>4. doc \in Docs /\ (StylesFit(canvasPage.doc) => StylesFit(doc))
      BY <1>1, <2>2, <3>2, <3>3, ValueStands
    <3>5. PICK page : page = Recorded(canvasPage, doc)
      OBVIOUS
    <3>6. /\ page \in Canvases /\ page.doc = doc
          /\ page.past = Append(canvasPage.past, canvasPage.doc) /\ page.due
          /\ page.mode = canvasPage.mode /\ page.astray = canvasPage.astray
      BY <3>4, <3>5, RecordedIs
    <3>7. PageFits(page) /\ \A c : Stands(page, c)
      BY <3>4, <3>6, RecordedStands
    <3>8. PICK c : c = [context EXCEPT !.open = [context.open EXCEPT ![kind] = off]]
      OBVIOUS
    <3>9. c \in Contexts /\ Alone(c) /\ IsQuiet(canvasPage, c) /\ ~c.open[kind]
      BY <2>5, <3>8, PickerIsDismissed
    <3>10. IsQuiet(page, c)
      BY <3>6, <3>9 DEF IsQuiet, CanEdit
    <3>11. Rendered(page, c, kept)
      BY <1>3, <1>5, <2>1, <2>3, <2>4, <2>5, <2>6, <2>8, <2>11, <2>13, <3>1, <3>2, <3>5, <3>8, Zenon
         DEF Apply
    <3>12. \A k \in Kinds2 : c.open[k] => kept[k].wrote = << >>
      BY <2>9, <2>10, <3>9
    <3>13. kept.media.uploading => kept.media.wrote = << >>
      BY <2>5, <2>7, <2>9, <2>10 DEF Kinds2
    <3>14. Unwritten(c, kept)
      BY <2>9, <3>12, <3>13 DEF Unwritten, NoneWrote
    <3>15. QED
      BY <2>9, <3>6, <3>7, <3>9, <3>10, <3>11, <3>14, RenderedKeeps
  <2>14. QED
    BY <2>12, <2>13
<1>6. QED
  BY <1>4, <1>5

\* A picker writes what was chosen.
LEMMA ChooseValueKeeps ==
    ASSUME CanvasInv, TouchesCount, NEW kind \in Kinds2, ChooseValue(kind)
    PROVE  CanvasInv'
<1>1. PICK session \in Opened : session = pickers[kind]
  BY CanvasFields DEF Dialogues, Kinds2
<1>2. session \in Sessions /\ session.wrote = << >>
  BY <1>1, CanvasFields DEF ChooseValue, NoneWrote, Kinds2, Opened
<1>3. PICK live \in BOOLEAN : live = TRUE
  BY Zenon
<1>4. Apply(kind, session, live, pickers, context) /\ UNCHANGED canvasEvents
  BY <1>1, <1>3, Zenon DEF ChooseValue
<1>5. Told'
  BY <1>4, SameTold DEF CanvasInv
<1>6. QED
  BY <1>2, <1>4, <1>5, CanvasFields, ApplyKeeps

\* The sessions of the pickers have written nothing yet.
LEMMA MediaFields ==
    ASSUME CanvasInv
    PROVE  /\ pickers.media \in Opened /\ pickers.late \in Opened /\ pickers.route \in Opened
           /\ pickers.media.wrote = << >> /\ pickers.late.wrote = << >>
           /\ pickers.route.wrote = << >>
           /\ pickers.media # NoSession => pickers.media \in Sessions
           /\ pickers.late # NoSession => pickers.late \in Sessions
BY CanvasFields DEF Dialogues, Opened, NoneWrote

\* Only a flag of the image dialog changes, or the one that is on its way is dropped.
LEMMA SessionsKept ==
    ASSUME CanvasInv, TouchesCount, NEW next \in Dialogues, NoneWrote(next),
           next.route = pickers.route, (pickers.media = NoSession => next.media = NoSession),
           pickers' = next, UNCHANGED <<canvasPage, context, canvasEvents>>
    PROVE  CanvasInv'
BY CanvasFields DEF CanvasInv, CanvasStands, CanvasTypes, TouchesCount, Told

\* An upload begins.
LEMMA StartUploadKeeps == CanvasInv /\ TouchesCount /\ StartUpload => CanvasInv'
<1> SUFFICES ASSUME CanvasInv, TouchesCount, StartUpload PROVE CanvasInv'
  OBVIOUS
<1>1. PICK on \in BOOLEAN : on = TRUE
  BY Zenon
<1>2. pickers.media \in Sessions /\ pickers.media.wrote = << >>
  BY MediaFields DEF StartUpload
<1>3. PICK media : media = [pickers.media EXCEPT !.uploading = on]
  OBVIOUS
<1>4. media \in Opened /\ media.wrote = << >>
  BY <1>2, <1>3 DEF Sessions, Opened
<1>5. PICK next : next = [pickers EXCEPT !.media = media]
  OBVIOUS
<1>6. /\ next \in Dialogues /\ next.media = media /\ next.route = pickers.route
      /\ next.late = pickers.late
  BY <1>4, <1>5, CanvasFields DEF Dialogues
<1>7. NoneWrote(next)
  BY <1>4, <1>6, MediaFields DEF NoneWrote
<1>8. pickers' = next /\ UNCHANGED <<canvasPage, context, canvasEvents>>
  BY <1>1, <1>3, <1>5, Zenon DEF StartUpload
<1>9. pickers.media # NoSession
  BY DEF StartUpload
<1>10. QED
  BY <1>6, <1>7, <1>8, <1>9, SessionsKept

\* The image dialog without its upload.
LEMMA UploadEnds ==
    ASSUME CanvasInv, pickers.media.uploading, NEW off \in BOOLEAN,
           NEW media, media = [pickers.media EXCEPT !.uploading = off],
           NEW next, next = [pickers EXCEPT !.media = media]
    PROVE  /\ pickers.media \in Sessions /\ pickers.media # NoSession
           /\ next \in Dialogues /\ NoneWrote(next) /\ next.route = pickers.route
BY NoSessionStands, MediaFields, CanvasFields DEF Sessions, Opened, Dialogues, NoneWrote

\* The upload of a dialog that is gone is dropped.
LEMMA LateEnds ==
    ASSUME CanvasInv, NEW next, next = [pickers EXCEPT !.late = NoSession]
    PROVE  /\ next \in Dialogues /\ NoneWrote(next) /\ next.route = pickers.route
           /\ next.media = pickers.media
BY NoSessionStands, CanvasFields, MediaFields DEF Dialogues, NoneWrote

\* An upload fails.
LEMMA UploadFailsKeeps == CanvasInv /\ TouchesCount /\ UploadFails => CanvasInv'
<1> SUFFICES ASSUME CanvasInv, TouchesCount, UploadFails PROVE CanvasInv'
  OBVIOUS
<1>1. UNCHANGED <<canvasPage, context, canvasEvents>>
  BY DEF UploadFails
<1>2. CASE pickers.late # NoSession
  BY <1>2, <1>1, LateEnds, SessionsKept DEF UploadFails
<1>3. CASE pickers.late = NoSession
  <2>1. PICK off \in BOOLEAN : off = FALSE
    BY Zenon
  <2>2. PICK media : media = [pickers.media EXCEPT !.uploading = off]
    OBVIOUS
  <2>3. PICK next : next = [pickers EXCEPT !.media = media]
    OBVIOUS
  <2>4. pickers' = next /\ pickers.media.uploading
    BY <1>3, <2>1, <2>2, <2>3, Zenon DEF UploadFails
  <2>5. /\ next \in Dialogues /\ NoneWrote(next) /\ next.route = pickers.route
        /\ pickers.media # NoSession
    BY <2>2, <2>3, <2>4, UploadEnds
  <2>6. QED
    BY <1>1, <2>4, <2>5, SessionsKept
<1>4. QED
  BY <1>2, <1>3

\* An upload arrives: at its place, or too late.
LEMMA UploadArrivesKeeps == CanvasInv /\ TouchesCount /\ UploadArrives => CanvasInv'
<1> SUFFICES ASSUME CanvasInv, TouchesCount, UploadArrives PROVE CanvasInv'
  OBVIOUS
<1>1. PICK off \in BOOLEAN : off = FALSE
  BY Zenon
<1>2. PICK kind \in Kinds2 : kind = "media"
  BY DEF Kinds2
<1>3. PICK closed : closed = [context EXCEPT !.open = [context.open EXCEPT ![kind] = off]]
  OBVIOUS
<1>4. /\ closed \in Contexts /\ Alone(closed) /\ IsQuiet(canvasPage, closed)
      /\ closed.element = context.element /\ closed.blind = context.blind
  BY <1>1, <1>3, PickerIsDismissed
<1>5. Stands(canvasPage, closed)
  BY <1>4, CanvasFields DEF Stands
<1>6. Told'
  BY SameTold DEF UploadArrives, CanvasInv
<1>7. PICK media : media = [pickers.media EXCEPT !.uploading = off]
  OBVIOUS
<1>8. PICK ended : ended = [pickers EXCEPT !.media = media]
  OBVIOUS
<1>9. PICK dropped : dropped = [pickers EXCEPT !.late = NoSession]
  OBVIOUS
<1>10. PICK live \in BOOLEAN : live = TRUE
  BY Zenon
<1>11. PICK gone \in BOOLEAN : gone = FALSE
  BY Zenon
<1>12. \/ pickers.media.uploading /\ Apply(kind, pickers.media, live, ended, closed)
       \/ pickers.late # NoSession /\ Apply(kind, pickers.late, gone, dropped, closed)
  BY <1>1, <1>2, <1>3, <1>7, <1>8, <1>9, <1>10, <1>11, Zenon DEF UploadArrives
<1>13. ASSUME pickers.media.uploading, Apply(kind, pickers.media, live, ended, closed)
       PROVE  CanvasInv'
  BY <1>7, <1>8, <1>13, <1>4, <1>5, <1>6, UploadEnds, MediaFields, ApplyKeeps
<1>14. ASSUME pickers.late # NoSession, Apply(kind, pickers.late, gone, dropped, closed)
       PROVE  CanvasInv'
  BY <1>9, <1>14, <1>4, <1>5, <1>6, LateEnds, MediaFields, ApplyKeeps
<1>15. QED
  BY <1>12, <1>13, <1>14

\* The media of an element is cleared.
LEMMA ClearMediaKeeps == CanvasInv /\ TouchesCount /\ ClearMedia => CanvasInv'
<1> SUFFICES ASSUME CanvasInv, TouchesCount, ClearMedia PROVE CanvasInv'
  OBVIOUS
<1>1. PICK item : item = FieldOf("media", canvasPage.puck,
                                 BarElement(canvasPage, context.element))
  OBVIOUS
<1>2. PICK card : card = canvasPage.puck
  OBVIOUS
<1>3. HasItem(canvasPage.doc, card, item) /\ item # NoField /\ ~EditingDisabled(canvasPage)
  BY <1>1, <1>2, Zenon DEF ClearMedia
<1>4. card \in Cards
  BY <1>3, CanvasFields DEF HasItem
<1>5. item \in 0 .. MostItems
  BY <1>1, <1>3, CanvasFields, NoElementStands, ElementFields, Bounds3 DEF BarElement, FieldOf
<1>6. PICK kind \in Kinds2 : kind = "media"
  BY DEF Kinds2
<1>7. PICK value \in {"first", "picked"} : value = "first"
  OBVIOUS
<1>8. PICK doc : doc = WithValue(canvasPage.doc, card, item, kind, value)
  OBVIOUS
<1>9. doc \in Docs /\ (StylesFit(canvasPage.doc) => StylesFit(doc))
  BY <1>3, <1>4, <1>5, <1>8, CanvasFields, ValueStands
<1>10. PICK page : page = Recorded(canvasPage, doc)
  OBVIOUS
<1>11. /\ page \in Canvases /\ page.doc = doc
       /\ page.past = Append(canvasPage.past, canvasPage.doc) /\ page.due
       /\ page.mode = canvasPage.mode /\ page.astray = canvasPage.astray
  BY <1>9, <1>10, RecordedIs
<1>12. PageFits(page) /\ \A c : Stands(page, c)
  BY <1>9, <1>11, RecordedStands
<1>13. Rendered(page, context, pickers) /\ UNCHANGED canvasEvents
  BY <1>1, <1>2, <1>6, <1>7, <1>8, <1>10, Zenon DEF ClearMedia
<1>14. Told'
  BY <1>13, SameTold DEF CanvasInv
<1>15. IsQuiet(page, context)
  BY <1>3, <1>11, EditableIsNotQuiet
<1>16. QED
  BY <1>11, <1>12, <1>13, <1>14, <1>15, CanvasFields, CanvasStep

\* The canvas starts there: nothing is selected, and no item has a style.
LEMMA CanvasStarts == CanvasContextInit => CanvasInv
<1> SUFFICES ASSUME CanvasContextInit PROVE CanvasInv
  OBVIOUS
<1>1. PICK off \in BOOLEAN : off = FALSE
  BY Zenon
<1>2. FreshItem \in Item /\ FreshItem.given = FALSE
  <2>1. FreshItem = [media |-> "first", route |-> "first", given |-> off]
    BY <1>1, Zenon DEF FreshItem
  <2>2. FreshItem \in Item /\ FreshItem.given = off
    BY <2>1 DEF Item
  <2>3. QED
    BY <1>1, <2>2, Zenon
<1>3. PICK items : items = [c \in Cards |-> [i \in 1 .. FirstItems[c] |-> FreshItem]]
  OBVIOUS
<1>4. PICK styled : styled = [c \in Cards |-> [i \in 1 .. MostItems |-> FALSE]]
  OBVIOUS
<1>5. PICK own : own = [c \in Cards |-> [media |-> "first", route |-> "first"]]
  OBVIOUS
<1>6. own \in [Cards -> Owned]
  BY <1>5 DEF Owned
<1>7. styled \in [Cards -> CardFlags]
  <2>1. \A c \in Cards : [i \in 1 .. MostItems |-> FALSE] \in [1 .. MostItems -> BOOLEAN]
    BY Zenon
  <2>2. QED
    BY <1>4, <2>1, Zenon DEF CardFlags
<1>8. ASSUME NEW c \in Cards
      PROVE  items[c] \in Lists /\ \A i \in 1 .. Len(items[c]) : items[c][i] = FreshItem
  BY <1>2, <1>3, Bounds3 DEF Lists
<1>9. items \in [Cards -> Lists]
  BY <1>3, <1>8
<1>10. PICK doc : doc = [here |-> Cards, own |-> own, items |-> items, styled |-> styled]
  OBVIOUS
<1>11. doc \in Docs /\ doc.items = items /\ doc.styled = styled
  BY <1>6, <1>7, <1>9, <1>10 DEF Docs
<1>12. \A c \in Cards : Fitting(items[c], styled[c])
  <2> SUFFICES ASSUME NEW c \in Cards, NEW i \in 1 .. Len(items[c])
               PROVE  styled[c][i] <=> items[c][i].given
    BY DEF Fitting
  <2>1. i \in 1 .. MostItems
    BY <1>8, ItemsOfList
  <2>2. styled[c][i] = FALSE
    BY <1>4, <2>1, Zenon
  <2>3. items[c][i].given = FALSE
    BY <1>2, <1>8, Zenon
  <2>4. QED
    BY <2>2, <2>3, Zenon
<1>13. StylesFit(doc)
  BY <1>11, <1>12, FitsIs
<1>14. PICK past \in Seq(Docs) : past = << >> /\ Len(past) = 0
  BY EmptySeq
<1>15. canvasPage = [doc |-> doc, past |-> past, puck |-> NoCard, due |-> off,
                     mode |-> "edit", astray |-> off]
  BY <1>1, <1>3, <1>4, <1>5, <1>10, <1>14, Zenon DEF CanvasContextInit, FirstCards
<1>16. canvasPage \in Canvases
  BY <1>11, <1>15 DEF Canvases
<1>17. PageFits(canvasPage)
  BY <1>13, <1>14, <1>15 DEF PageFits
<1>18. context = NoContext /\ touches = 0
  BY DEF CanvasContextInit
<1>19. pickers = [media |-> NoSession, route |-> NoSession, late |-> NoSession]
  BY DEF CanvasContextInit
<1>20. /\ pickers \in Dialogues /\ NoneWrote(pickers)
       /\ NoSession = pickers.media /\ NoSession = pickers.route
  BY <1>19, NoSessionStands DEF Dialogues, NoneWrote
<1>21. Told
  BY NoElementStands DEF CanvasContextInit, Told
<1>22. touches \in 0 .. MaxTouches
  BY <1>18, Bounds3
<1>23. /\ context \in Contexts /\ Stands(canvasPage, context) /\ Alone(context)
       /\ IsQuiet(canvasPage, context)
  BY <1>18, NoContextStands DEF IsQuiet
<1>24. QED
  BY <1>16, <1>17, <1>20, <1>21, <1>22, <1>23 DEF CanvasInv, CanvasTypes, CanvasStands

\* Every act of the user keeps the canvas sound.
LEMMA UserActsKeep == CanvasInv /\ TouchesCount /\ UserActs => CanvasInv'
<1> SUFFICES ASSUME CanvasInv, TouchesCount, UserActs PROVE CanvasInv'
  OBVIOUS
<1>1. CASE \E e \in Outlined(canvasPage.doc) : PointAt(e) \/ PostSelection(e)
  BY <1>1, PointAtKeeps, PostSelectionKeeps
<1>2. CASE \E text \in EditedTexts \cup {NoEditedText} : SelectRange(text)
  BY <1>2, SelectRangeKeeps
<1>3. CASE \E card \in Cards \cup {NoCard} : SelectInOutline(card)
  BY <1>3, SelectInOutlineKeeps
<1>4. CASE SelectParent \/ ToggleTools \/ PressElsewhere \/ PressEscape
  BY <1>4, SelectParentKeeps, ToggleToolsKeeps, PressElsewhereKeeps, PressEscapeKeeps
<1>5. CASE \E kind \in Kinds2 : OpenPicker(kind) \/ DismissPicker(kind) \/ ChooseValue(kind)
  BY <1>5, OpenPickerKeeps, DismissPickerKeeps, ChooseValueKeeps
<1>6. CASE \E operation \in {"up", "down", "duplicate", "delete"} : ChangeCollection(operation)
  BY <1>6, ChangeCollectionKeeps
<1>7. CASE StyleElement \/ DeleteCard \/ UndoCards \/ ClearMedia \/ StartUpload
  BY <1>7, StyleElementKeeps, DeleteCardKeeps, UndoCardsKeeps, ClearMediaKeeps, StartUploadKeeps
<1>8. CASE \E mode \in {"edit", "recovering", "readonly"} : ChangeMode(mode)
  BY <1>8, ChangeModeKeeps
<1>9. QED
  BY <1>1, <1>2, <1>3, <1>4, <1>5, <1>6, <1>7, <1>8 DEF UserActs

\* Every step of the canvas keeps it sound.
LEMMA CanvasKept == CanvasInv /\ [CanvasContextNext]_contextVars => CanvasInv'
<1> SUFFICES ASSUME CanvasInv, [CanvasContextNext]_contextVars PROVE CanvasInv'
  OBVIOUS
<1>1. touches \in 0 .. MaxTouches
  BY DEF CanvasInv, CanvasTypes
<1>2. CASE touches < MaxTouches /\ touches' = touches + 1 /\ UserActs
  BY <1>1, <1>2, Bounds3, UserActsKeep DEF TouchesCount
<1>3. CASE UNCHANGED touches /\ (HearSelection \/ SignalRange \/ FrameRuns
                                   \/ HearDocument \/ UploadArrives \/ UploadFails)
  BY <1>1, <1>3, HearSelectionKeeps, SignalRangeKeeps, FrameRunsKeeps, HearDocumentKeeps,
     UploadArrivesKeeps, UploadFailsKeeps DEF TouchesCount
<1>4. CASE UNCHANGED contextVars
  BY <1>4 DEF contextVars, CanvasInv, CanvasTypes, CanvasStands, Told
<1>5. QED
  BY <1>2, <1>3, <1>4 DEF CanvasContextNext

\* The documents with their lists as sequences are the documents of the canvas.
LEMMA DocsAreTyped == Docs \subseteq CardDocuments
<1>1. ASSUME NEW list \in Lists PROVE list \in ItemLists
  <2>1. list \in Seq(Item) /\ Len(list) \in Nat /\ Len(list) <= MostItems
    BY ItemsOfList
  <2>2. PICK n \in 0 .. MostItems : n = Len(list)
    BY <2>1, Bounds3
  <2>3. list \in [1 .. n -> Item]
    BY <2>1, <2>2
  <2>4. QED
    BY <2>3, Zenon DEF ItemLists
<1>2. Lists \subseteq ItemLists
  BY <1>1
<1>3. ASSUME NEW doc \in Docs PROVE doc \in CardDocuments
  BY <1>2, DocFields DEF Docs, CardDocuments, Owned, CardFlags
<1>4. QED
  BY <1>3

\* What the invariant says of the canvas.
LEMMA CanvasIsRight ==
    CanvasInv => /\ CanvasContextTypeOK /\ SelectsWhatIsThere /\ StylesFollowItems
                 /\ RangeIsAlone /\ ReadonlyIsQuiet /\ PicksStayHome
<1> SUFFICES ASSUME CanvasInv
             PROVE  /\ CanvasContextTypeOK /\ SelectsWhatIsThere /\ StylesFollowItems
                    /\ RangeIsAlone /\ ReadonlyIsQuiet /\ PicksStayHome
  OBVIOUS
<1>1. CanvasContextTypeOK
  <2>1. canvasPage.doc \in CardDocuments
    BY CanvasFields, DocsAreTyped
  <2>2. canvasPage.past \in Seq(CardDocuments)
    BY CanvasFields, DocsAreTyped DEF Canvases
  <2>3. canvasPage \in [doc : CardDocuments, past : Seq(CardDocuments),
                        puck : Cards \cup {NoCard}, due : BOOLEAN,
                        mode : {"edit", "recovering", "readonly"}, astray : BOOLEAN]
    BY <2>1, <2>2, CanvasFields DEF Canvases
  <2>4. QED
    BY <2>3 DEF CanvasContextTypeOK, CanvasInv, CanvasTypes, Told, Contexts, Chosen, Dialogues,
       Opened
<1>2. SelectsWhatIsThere
  BY CanvasFields DEF Stands, SelectsWhatIsThere
<1>3. StylesFollowItems
  BY CanvasFields DEF PageFits, StylesFollowItems, StylesFit, HasItem
<1>4. RangeIsAlone
  BY CanvasFields DEF Alone, RangeIsAlone
<1>5. ReadonlyIsQuiet
  BY CanvasFields DEF IsQuiet, ReadonlyIsQuiet
<1>6. PicksStayHome
  BY CanvasFields DEF NoneWrote, PicksStayHome
<1>7. QED
  BY <1>1, <1>2, <1>3, <1>4, <1>5, <1>6
-----------------------------------------------------------------------------
(***************************************************************************)
(* The inline menu of rich text. A handler works on a copy of the bar and  *)
(* its menus, the world; each helper keeps that copy fitting, arms         *)
(* nothing, and leaves alone what it does not name. A gesture that has     *)
(* made a choice has nothing armed any more.                               *)
(***************************************************************************)

\* The stages of a gesture.
Stages == {"up", "down", "click"}

\* The gesture of a pointer: its stage, where it began, how many choices it made.
Hands == [stage : Stages, at : Controls, done : Nat]

\* What may be armed in a menu: an option, by a pointer.
Arms(m) == [pointer : Pointers, value : OptionsOf(m)]

\* The states of a menu.
MenuStates == [suppress : BOOLEAN, closing : BOOLEAN, armed : SUBSET [pointer : Pointers, value : Nat]]

\* The states of the bar over a text.
Bars ==
    [editor : Editors, readOnly : BOOLEAN, range : BOOLEAN, small : BOOLEAN, selection : Nat, changes : Nat,
     open : Menus \cup {NoMenu}, advanced : BOOLEAN, moreSuppress : BOOLEAN, boldSuppress : BOOLEAN,
     linkOpen : BOOLEAN, linkValue : {"none", "safe", "unsafe"}, linkError : BOOLEAN, linkFor : Nat, acts : Nat]

\* What the text looks like where the range is.
Looks == [mark : Marks, bold : BOOLEAN, link : {"none", "safe"}]

\* In each menu only options of its own are armed.
MenusTyped(menus) ==
    /\ menus \in [Menus -> MenuStates]
    /\ \A m \in Menus : menus[m].armed \subseteq Arms(m)

\* The variables have their types.
TextTypes ==
    /\ textBar \in Bars /\ MenusTyped(rangeMenus) /\ look \in Looks
    /\ hands \in [Pointers -> Hands] /\ DOMAIN pressedNow = Menus
    /\ lastChoice \in [n : Nat, menu : Menus \cup {NoMenu}, value : Nat, by : 0..2]

\* What is armed in a menu, or is about to close it, is so while it is open.
MenusStand ==
    \A m \in Menus :
        /\ rangeMenus[m].armed # {} \/ rangeMenus[m].closing => textBar.open = m
        /\ rangeMenus[m].closing => rangeMenus[m].armed = {}
        /\ \A a \in rangeMenus[m].armed : <<a.pointer, a.value>> \in pressedNow[m]

\* A gesture that has made its choice has nothing armed any more.
HandsStand ==
    \A p \in Pointers :
        /\ hands[p].done <= 1
        /\ hands[p].stage = "down" /\ hands[p].done = 1 =>
              \A m \in Menus : \A a \in rangeMenus[m].armed : a.pointer # p

\* The inductive invariant of the inline menu.
TextInv == TextTypes /\ MenusStand /\ HandsStand /\ LinkStaysHome /\ ChoiceIsShown

\* Four bits make a size.
LEMMA BitsOfSize ==
    ASSUME NEW n \in 0..15
    PROVE n = Bit((n \div 1) % 2 = 1) + 2 * Bit((n \div 2) % 2 = 1) + 4 * Bit((n \div 4) % 2 = 1)
                + 8 * Bit((n \div 8) % 2 = 1)
BY DEF Bit

\* A mark that is written as flags is read back as it was.
LEMMA MarkSurvives ==
    ASSUME NEW mark \in Marks
    PROVE MarkOf(Flags(mark)) = mark
  <1> DEFINE flags == Flags(mark)
             fonts == {f \in FontChoices : mark.font = f}
             bits == [k \in 0..3 |-> mark.rem > 0 /\ ((mark.rem - 1) \div <<1, 2, 4, 8>>[k + 1]) % 2 = 1]
  <1>0. mark.font \in FontChoices \cup {0} /\ mark.rem \in 0..16 /\ mark.size \in {"base", "large"}
    BY DEF Marks
  <1>1. mark = [font |-> mark.font, rem |-> mark.rem, size |-> mark.size]
    BY DEF Marks
  <1>2. flags = [fonts |-> fonts, set |-> mark.rem > 0, large |-> mark.size = "large", bits |-> bits]
    BY DEF Flags
  <1> HIDE DEF flags, bits, fonts
  <1>3. /\ flags.fonts = fonts /\ (flags.set <=> mark.rem > 0) /\ (flags.large <=> mark.size = "large")
        /\ flags.bits = bits
    BY <1>2
  <1>4. (IF flags.fonts = {} THEN 0 ELSE CHOOSE f \in flags.fonts : TRUE) = mark.font
    <2>1. CASE mark.font = 0
      BY <2>1, <1>3, RichTextAssumption DEF fonts
    <2>2. CASE mark.font \in FontChoices
      BY <2>2, <1>3 DEF fonts
    <2>. QED
      BY <1>0, <2>1, <2>2
  <1>5. (IF flags.large THEN "large" ELSE "base") = mark.size
    BY <1>0, <1>3
  <1>6. (IF flags.set THEN 1 + Bit(flags.bits[0]) + 2 * Bit(flags.bits[1])
                             + 4 * Bit(flags.bits[2]) + 8 * Bit(flags.bits[3]) ELSE 0) = mark.rem
    <2>1. CASE mark.rem = 0
      BY <1>3, <2>1
    <2>2. CASE mark.rem > 0
      <3>1. PICK n \in 0..15 : n = mark.rem - 1 /\ mark.rem = n + 1
        BY <1>0, <2>2
      <3>2. /\ bits[0] <=> (n \div 1) % 2 = 1
            /\ bits[1] <=> (n \div 2) % 2 = 1
            /\ bits[2] <=> (n \div 4) % 2 = 1
            /\ bits[3] <=> (n \div 8) % 2 = 1
        <4>1. /\ <<1, 2, 4, 8>>[1] = 1 /\ <<1, 2, 4, 8>>[2] = 2
              /\ <<1, 2, 4, 8>>[3] = 4 /\ <<1, 2, 4, 8>>[4] = 8
          OBVIOUS
        <4>2. /\ bits[0] <=> (n \div <<1, 2, 4, 8>>[1]) % 2 = 1
              /\ bits[1] <=> (n \div <<1, 2, 4, 8>>[2]) % 2 = 1
              /\ bits[2] <=> (n \div <<1, 2, 4, 8>>[3]) % 2 = 1
              /\ bits[3] <=> (n \div <<1, 2, 4, 8>>[4]) % 2 = 1
          <5>1. 0 + 1 = 1 /\ 1 + 1 = 2 /\ 2 + 1 = 3 /\ 3 + 1 = 4
            OBVIOUS
          <5>2. \A k \in 0..3 : bits[k] <=> (n \div <<1, 2, 4, 8>>[k + 1]) % 2 = 1
            BY <2>2, <3>1 DEF bits
          <5>. QED
            BY <5>1, <5>2
        <4>. QED
          BY <4>1, <4>2
      <3>3. /\ Bit(bits[0]) = Bit((n \div 1) % 2 = 1) /\ Bit(bits[1]) = Bit((n \div 2) % 2 = 1)
            /\ Bit(bits[2]) = Bit((n \div 4) % 2 = 1) /\ Bit(bits[3]) = Bit((n \div 8) % 2 = 1)
        BY <3>2 DEF Bit
      <3>4. n = Bit(bits[0]) + 2 * Bit(bits[1]) + 4 * Bit(bits[2]) + 8 * Bit(bits[3])
        BY <3>3, BitsOfSize
      <3>5. /\ Bit(bits[0]) \in Nat /\ Bit(bits[1]) \in Nat /\ Bit(bits[2]) \in Nat /\ Bit(bits[3]) \in Nat
        BY DEF Bit
      <3>. QED
        BY <1>3, <2>2, <3>1, <3>4, <3>5
    <2>. QED
      BY <1>0, <2>1, <2>2
  <1>7. MarkOf(flags) = [font |-> mark.font, rem |-> mark.rem, size |-> mark.size]
    BY <1>4, <1>5, <1>6 DEF MarkOf
  <1>. QED
    BY <1>1, <1>7 DEF flags

\* A choice that a step makes.
Dids == [menu : Menus \cup {NoMenu}, value : Nat]

\* What a handler works on: the bar, the menus, the text, and what it chose.
Worlds == [bar : Bars, menus : [Menus -> MenuStates], look : Looks, did : SUBSET Dids]

\* The choices that are remembered.
MenuChoices == [n : Nat, menu : Menus \cup {NoMenu}, value : Nat, by : 0..2]

\* What is armed in a menu, or is about to close it, is so while it is open.
MenuFits(m, s) ==
    /\ s.armed \subseteq Arms(m)
    /\ s.armed # {} \/ s.closing => textBar.open = m
    /\ s.closing => s.armed = {}

\* The panel of a link is of the range that is selected, unless the bar leaves it.
LinkFits(bar) == bar.linkOpen => bar.linkFor = bar.selection \/ Over(bar) # Over(textBar)

\* The world that a handler works on fits the bar as it was before.
WorldStands(w) ==
    /\ w \in Worlds
    /\ LinkFits(w.bar)
    /\ \A m \in Menus : MenuFits(m, w.menus[m])

\* The options of the menus.
LEMMA OptionFacts ==
    /\ \A m \in Menus : OptionsOf(m) \subseteq Nat /\ 0 \in OptionsOf(m)
    /\ OptionsOf("font") = FontChoices \cup {0}
    /\ OptionsOf("size") \subseteq 0..16
  <1>1. OptionsOf("font") = FontChoices \cup {0} /\ OptionsOf("size") = SizeChoices \cup {0}
    BY DEF OptionsOf
  <1>2. FontChoices \subseteq Nat /\ SizeChoices \subseteq 1..16 /\ 0 \in Nat
    BY RichTextAssumption
  <1>3. ASSUME NEW v \in SizeChoices PROVE v \in 0..16
    BY <1>2
  <1>4. 0 \in 0..16 /\ 0..16 \subseteq Nat
    OBVIOUS
  <1>5. OptionsOf("font") \subseteq Nat /\ OptionsOf("size") \subseteq 0..16 /\ OptionsOf("size") \subseteq Nat
    BY <1>1, <1>2, <1>3, <1>4, Zenon
  <1>6. 0 \in OptionsOf("font") /\ 0 \in OptionsOf("size")
    BY <1>1
  <1>. QED
    BY <1>1, <1>5, <1>6 DEF Menus

\* The controls that a pointer may press.
LEMMA ControlFacts ==
    ASSUME NEW el \in Controls
    PROVE /\ el.kind \in {"trigger", "bold", "more", "page", "option"}
          /\ el.kind = "trigger" => el.menu \in Menus
          /\ el.kind = "option" => el.menu \in Menus /\ el.value \in OptionsOf(el.menu)
BY DEF Controls, Trigger, BoldButton, MoreButton, Page, El

\* The fields of a world.
LEMMA WorldFields ==
    ASSUME NEW w \in Worlds
    PROVE /\ w.bar \in Bars /\ w.menus \in [Menus -> MenuStates] /\ w.look \in Looks /\ w.did \in SUBSET Dids
          /\ \A m \in Menus : w.menus[m] \in MenuStates
BY DEF Worlds

\* The fields of a bar.
LEMMA BarFields ==
    ASSUME NEW bar \in Bars
    PROVE /\ bar.editor \in Editors /\ bar.readOnly \in BOOLEAN /\ bar.range \in BOOLEAN /\ bar.small \in BOOLEAN
          /\ bar.selection \in Nat /\ bar.changes \in Nat /\ bar.open \in Menus \cup {NoMenu}
          /\ bar.advanced \in BOOLEAN /\ bar.moreSuppress \in BOOLEAN /\ bar.boldSuppress \in BOOLEAN
          /\ bar.linkOpen \in BOOLEAN /\ bar.linkValue \in {"none", "safe", "unsafe"}
          /\ bar.linkError \in BOOLEAN /\ bar.linkFor \in Nat /\ bar.acts \in Nat
BY DEF Bars

\* The fields of a menu.
LEMMA MenuFields ==
    ASSUME NEW s \in MenuStates
    PROVE /\ s.suppress \in BOOLEAN /\ s.closing \in BOOLEAN
          /\ s.armed \in SUBSET [pointer : Pointers, value : Nat]
BY DEF MenuStates

\* The world as it is before a step.
LEMMA WorldIsThere ==
    ASSUME TextTypes, MenusStand, LinkStaysHome
    PROVE WorldStands(World) /\ World.did = {} /\ World.bar = textBar /\ World.menus = rangeMenus
          /\ World.look = look
  <1> DEFINE none == {}
  <1>1. PICK d \in SUBSET Dids : d = {}
    OBVIOUS
  <1>2. World = [bar |-> textBar, menus |-> rangeMenus, look |-> look, did |-> d]
    BY <1>1 DEF World
  <1>3. World \in Worlds
    BY <1>2 DEF Worlds, TextTypes, MenusTyped
  <1>4. World.did = {} /\ World.bar = textBar /\ World.menus = rangeMenus /\ World.look = look
    BY <1>1, <1>2
  <1>. QED
    BY <1>3, <1>4 DEF WorldStands, LinkFits, LinkStaysHome, MenuFits, MenusStand, TextTypes,
       MenusTyped

\* A world whose bar moves on, over the same range.
LEMMA BarMoves ==
    ASSUME NEW w, WorldStands(w), NEW b \in Bars, LinkFits(b), NEW n, n = [w EXCEPT !.bar = b]
    PROVE WorldStands(n) /\ n.bar = b /\ n.menus = w.menus /\ n.look = w.look /\ n.did = w.did
BY DEF WorldStands, Worlds

\* A menu that changes on its own.
LEMMA MenuMoves ==
    ASSUME NEW w, WorldStands(w), NEW m \in Menus, NEW s \in MenuStates, MenuFits(m, s),
           NEW f \in [Menus -> MenuStates], f[m] = s, \A k \in Menus : k # m => f[k] = w.menus[k],
           NEW n, n = [w EXCEPT !.menus = f]
    PROVE /\ WorldStands(n) /\ n.bar = w.bar /\ n.look = w.look /\ n.did = w.did
          /\ n.menus[m] = s /\ \A k \in Menus : k # m => n.menus[k] = w.menus[k]
BY WorldFields DEF WorldStands, Worlds

\* A menu in which nothing is armed.
LEMMA IdleFits ==
    IdleMenu \in MenuStates /\ IdleMenu.armed = {} /\ IdleMenu.closing = FALSE
    /\ \A m \in Menus : MenuFits(m, IdleMenu)
BY DEF IdleMenu, MenuStates, MenuFits

\* What the layout effect leaves of the menu.
ResetTo(old, new) ==
    /\ new.editor = old.editor /\ new.readOnly = old.readOnly /\ new.range = old.range /\ new.small = old.small
    /\ new.open \in {old.open, NoMenu}
    /\ new.linkFor = old.linkFor /\ new.selection = old.selection
    /\ new.linkOpen => old.linkOpen /\ Over(old) = Over(textBar)

\* What React resets of a bar when it is shown anew.
LEMMA ResetStands ==
    ASSUME NEW bar \in Bars
    PROVE Reset(bar) \in Bars /\ ResetTo(bar, Reset(bar))
  <1>1. CASE Over(bar) = Over(textBar)
    BY <1>1 DEF Reset, ResetTo
  <1>2. CASE Over(bar) # Over(textBar)
    BY <1>2 DEF Reset, Bars, ResetTo
  <1>. QED
    BY <1>1, <1>2

\* Showing the advanced tools changes nothing that is reset.
LEMMA AdvancedIsBar ==
    ASSUME NEW bar \in Bars, NEW b \in BOOLEAN, NEW n, n = [bar EXCEPT !.advanced = b]
    PROVE n \in Bars /\ (\A old : ResetTo(old, bar) => ResetTo(old, n))
BY DEF Bars, ResetTo

\* A menu after a render: it keeps what is armed only while it is open.
LEMMA SettledStands ==
    ASSUME NEW bar, NEW m \in Menus, NEW s \in MenuStates, MenuFits(m, s)
    PROVE LET n == Settled(bar, m, s)
          IN  /\ n \in MenuStates /\ n.armed \subseteq s.armed /\ (n.closing => n.armed = {})
              /\ n.armed # {} \/ n.closing => bar.open = m
              /\ n.armed # {} => ControlsShown(bar) /\ bar.editor = textBar.editor
                                 /\ bar.readOnly = textBar.readOnly
  <1> DEFINE n == Settled(bar, m, s)
             fresh == \/ ~ControlsShown(bar) \/ ~ControlsShown(textBar) \/ Narrow(bar) # Narrow(textBar)
                      \/ bar.editor # textBar.editor \/ bar.readOnly # textBar.readOnly
  <1>1. CASE fresh
    BY <1>1, IdleFits DEF Settled
  <1>2. CASE ~fresh /\ bar.open # m /\ textBar.open = m
    BY <1>2 DEF Settled, MenuStates, n
  <1>3. CASE ~fresh /\ ~(bar.open # m /\ textBar.open = m)
    BY <1>3 DEF Settled, MenuFits
  <1>. QED
    BY <1>1, <1>2, <1>3

\* The pointers after a step: none has made a choice more than it is given.
Handed(hand) ==
    /\ hands' \in [Pointers -> Hands]
    /\ \A p \in Pointers : /\ hands'[p].done = hand[p].done
                           /\ hands'[p].stage = "down" => hand[p].stage = "down"

\* What a step makes of a world: it is rendered, and menus that are closed are idle.
LEMMA BecomesIs ==
    ASSUME TextTypes, NEW w, WorldStands(w), NEW hand \in [Pointers -> Hands], Becomes(w, hand)
    PROVE /\ textBar' \in Bars /\ ResetTo(w.bar, textBar')
          /\ look' = w.look
          /\ rangeMenus' \in [Menus -> MenuStates]
          /\ \A m \in Menus :
                /\ rangeMenus'[m].armed \subseteq w.menus[m].armed
                /\ rangeMenus'[m].closing => rangeMenus'[m].armed = {}
                /\ rangeMenus'[m].armed # {} \/ rangeMenus'[m].closing => textBar'.open = m
                /\ rangeMenus'[m].armed # {} => ControlsShown(textBar') /\ textBar'.editor = textBar.editor
                                                /\ textBar'.readOnly = textBar.readOnly
          /\ Handed(hand)
  <1>1. w \in Worlds /\ w.bar \in Bars /\ w.menus \in [Menus -> MenuStates]
    BY WorldFields DEF WorldStands
  <1>2. PICK r \in Bars : r = Reset(w.bar) /\ ResetTo(w.bar, r)
    BY <1>1, ResetStands
  <1>3. textBar' = [r EXCEPT !.advanced = @ /\ Narrow(r)]
    BY <1>2 DEF Becomes
  <1>4. PICK b \in BOOLEAN : b = (r.advanced /\ Narrow(r))
    OBVIOUS
  <1>5. textBar' = [r EXCEPT !.advanced = b]
    BY <1>3, <1>4
  <1>6. textBar' \in Bars /\ ResetTo(w.bar, textBar')
    BY <1>2, <1>5, AdvancedIsBar
  <1>7. rangeMenus' = [m \in Menus |-> Settled(textBar', m, w.menus[m])]
    BY DEF Becomes
  <1>8. \A m \in Menus : rangeMenus'[m] = Settled(textBar', m, w.menus[m])
    BY <1>7
  <1>9. ASSUME NEW m \in Menus
        PROVE /\ rangeMenus'[m] \in MenuStates
              /\ rangeMenus'[m].armed \subseteq w.menus[m].armed
              /\ rangeMenus'[m].closing => rangeMenus'[m].armed = {}
              /\ rangeMenus'[m].armed # {} \/ rangeMenus'[m].closing => textBar'.open = m
              /\ rangeMenus'[m].armed # {} => ControlsShown(textBar') /\ textBar'.editor = textBar.editor
                                              /\ textBar'.readOnly = textBar.readOnly
    <2>1. w.menus[m] \in MenuStates /\ MenuFits(m, w.menus[m])
      BY <1>1 DEF WorldStands
    <2>. QED
      BY <1>8, <2>1, SettledStands
  <1>10. rangeMenus' \in [Menus -> MenuStates]
    BY <1>7, <1>8, <1>9
  <1>11. Handed(hand)
    <2>1. \A p \in Pointers :
              hands'[p] = IF hand[p].stage = "up" \/ (hand[p].stage = "click" /\ ~There(textBar', hand[p].at))
                          THEN [hand[p] EXCEPT !.stage = "up", !.at = Page] ELSE hand[p]
      BY DEF Becomes
    <2>2. DOMAIN hands' = Pointers /\ hands' = [p \in Pointers |-> hands'[p]]
      BY DEF Becomes
    <2>3. Page \in Controls
      BY DEF Controls
    <2>4. ASSUME NEW p \in Pointers
          PROVE /\ hands'[p] \in Hands /\ hands'[p].done = hand[p].done
                /\ hands'[p].stage = "down" => hand[p].stage = "down"
      <3>1. hand[p] \in Hands
        OBVIOUS
      <3>2. CASE hands'[p] = hand[p]
        BY <3>1, <3>2
      <3>3. CASE hands'[p] = [hand[p] EXCEPT !.stage = "up", !.at = Page]
        BY <3>1, <2>3, <3>3 DEF Hands, Stages
      <3>. QED
        BY <2>1, <3>2, <3>3
    <2>. QED
      BY <2>2, <2>4 DEF Handed
  <1>. QED
    BY <1>6, <1>9, <1>10, <1>11 DEF Becomes

\* A mark shows a choice of a menu.
ShowsChoice(mark, m, v) ==
    /\ m = "font" => mark.font = v
    /\ m = "size" => v = IF mark.rem > 0 THEN mark.rem ELSE IF mark.size = "base" THEN 0 ELSE 17

\* The mark that a choice writes shows it.
LEMMA UpdatedIs ==
    ASSUME NEW mark \in Marks, NEW m \in Menus, NEW v \in OptionsOf(m)
    PROVE Updated(mark, m, v) \in Marks /\ ShowsChoice(Updated(mark, m, v), m, v)
  <1>0. /\ mark.font \in FontChoices \cup {0} /\ mark.rem \in 0..16 /\ mark.size \in {"base", "large"}
        /\ PlainMark.font = 0 /\ PlainMark.rem = 0 /\ PlainMark.size = "base"
    BY DEF Marks, PlainMark
  <1>1. PlainMark \in Marks
    BY DEF Marks, PlainMark
  <1>2. ASSUME m = "font" PROVE Updated(mark, m, v) \in Marks /\ ShowsChoice(Updated(mark, m, v), m, v)
    <2>1. v \in FontChoices \cup {0}
      BY <1>2, OptionFacts
    <2>2. PICK next : next = [mark EXCEPT !.font = v]
      OBVIOUS
    <2>3. next \in Marks /\ next.font = v /\ next.rem = mark.rem
      BY <2>1, <2>2 DEF Marks
    <2>4. PICK full : full = [next EXCEPT !.rem = mark.rem]
      OBVIOUS
    <2>5. full \in Marks /\ full.font = v
      BY <1>0, <2>3, <2>4 DEF Marks
    <2>6. Merged(mark, next) \in {next, full}
      BY <2>3, <2>4 DEF Merged
    <2>7. Updated(mark, m, v) = IF next = PlainMark THEN PlainMark ELSE Merged(mark, next)
      BY <1>2, <2>2 DEF Updated
    <2>8. ASSUME next = PlainMark PROVE PlainMark.font = v
      BY <2>3, <2>8
    <2>9. Updated(mark, m, v) \in Marks /\ Updated(mark, m, v).font = v
      BY <1>1, <2>3, <2>5, <2>6, <2>7, <2>8
    <2>. QED
      BY <1>2, <2>9 DEF ShowsChoice
  <1>3. ASSUME m = "size" PROVE Updated(mark, m, v) \in Marks /\ ShowsChoice(Updated(mark, m, v), m, v)
    <2>1. v \in 0..16
      BY <1>3, OptionFacts
    <2>2. PICK next : next = [mark EXCEPT !.rem = v, !.size = "base"]
      OBVIOUS
    <2>3. next \in Marks /\ next.rem = v /\ next.size = "base"
      BY <2>1, <2>2 DEF Marks
    <2>4. v # 0 => Merged(mark, next) = [next EXCEPT !.rem = v]
      BY <2>3 DEF Merged
    <2>5. PICK full : full = [next EXCEPT !.rem = v]
      OBVIOUS
    <2>6. full \in Marks /\ full.rem = v /\ full.size = "base"
      BY <2>1, <2>3, <2>5 DEF Marks
    <2>7. Updated(mark, m, v) = IF next = PlainMark THEN PlainMark
                                ELSE IF v = 0 THEN next ELSE Merged(mark, next)
      BY <1>3, <2>2 DEF Updated
    <2>8. Updated(mark, m, v) \in {next, full}
      BY <2>4, <2>5, <2>7
    <2>9. PICK n \in Marks : n = Updated(mark, m, v) /\ n.rem = v /\ n.size = "base"
      BY <2>3, <2>6, <2>8
    <2>10. v = IF n.rem > 0 THEN n.rem ELSE IF n.size = "base" THEN 0 ELSE 17
      BY <2>1, <2>9
    <2>. QED
      BY <1>3, <2>9, <2>10 DEF ShowsChoice
  <1>. QED
    BY <1>2, <1>3 DEF Menus

\* What a menu shows is what the mark shows.
LEMMA LookIsShown ==
    look \in Looks => \A m \in Menus, v \in Nat : ShownIn(m) = v <=> ShowsChoice(look.mark, m, v)
BY MarkSurvives DEF Looks, ShownMark, Marks, ShownIn, ShowsChoice, Menus

\* What the state stands on after a handler and what is remembered of it.
LEMMA TextStandsOn ==
    ASSUME TextTypes, NEW w, WorldStands(w), NEW hand \in [Pointers -> Hands], Becomes(w, hand),
           NEW pressed, NEW choice \in MenuChoices, Remembers(pressed, choice),
           \A m \in Menus : \A a \in w.menus[m].armed : <<a.pointer, a.value>> \in pressed[m],
           \A p \in Pointers : hand[p].done <= 1,
           \A p \in Pointers : hand[p].stage = "down" /\ hand[p].done = 1 =>
                \/ w.bar.open = NoMenu
                \/ \A m \in Menus : \A a \in w.menus[m].armed : a.pointer # p,
           choice.menu \in Menus => ShowsChoice(w.look.mark, choice.menu, choice.value)
    PROVE TextInv'
  <1>1. /\ textBar' \in Bars /\ ResetTo(w.bar, textBar')
        /\ look' = w.look
        /\ rangeMenus' \in [Menus -> MenuStates]
        /\ Handed(hand)
    BY BecomesIs
  <1>2. \A m \in Menus :
            /\ rangeMenus'[m].armed \subseteq w.menus[m].armed
            /\ rangeMenus'[m].closing => rangeMenus'[m].armed = {}
            /\ rangeMenus'[m].armed # {} \/ rangeMenus'[m].closing => textBar'.open = m
            /\ rangeMenus'[m].armed # {} => ControlsShown(textBar') /\ textBar'.editor = textBar.editor
                                            /\ textBar'.readOnly = textBar.readOnly
    BY BecomesIs
  <1>3. \A m \in Menus :
            pressedNow'[m] = IF There(textBar', El("option", m, 0)) /\ textBar'.editor = textBar.editor
                                /\ textBar'.readOnly = textBar.readOnly THEN pressed[m] ELSE {}
    BY DEF Remembers
  <1>4. DOMAIN pressedNow' = Menus /\ lastChoice' = choice
    BY DEF Remembers
  <1>5. ASSUME NEW m \in Menus, NEW a \in rangeMenus'[m].armed
        PROVE <<a.pointer, a.value>> \in pressedNow'[m]
    BY <1>2, <1>5, <1>3 DEF There, El
  <1>6. MenusStand'
    BY <1>2, <1>5 DEF MenusStand
  <1>7. \A m \in Menus : rangeMenus'[m].armed \subseteq Arms(m)
    BY <1>2 DEF WorldStands, MenuFits
  <1>8. look' \in Looks
    BY <1>1, WorldFields DEF WorldStands
  <1>9. hands' \in [Pointers -> Hands] /\ \A p \in Pointers : hands'[p].done = hand[p].done
                           /\ (hands'[p].stage = "down" => hand[p].stage = "down")
    BY <1>1 DEF Handed
  <1>10. MenusTyped(rangeMenus')
    BY <1>1, <1>7 DEF MenusTyped
  <1>11. TextTypes'
    BY <1>1, <1>4, <1>8, <1>9, <1>10 DEF TextTypes, MenusTyped, MenuChoices
  <1>12. ASSUME NEW p \in Pointers, hands'[p].stage = "down", hands'[p].done = 1,
                NEW m \in Menus, NEW a \in rangeMenus'[m].armed
         PROVE a.pointer # p
    <2>1. CASE w.bar.open = NoMenu
      BY <1>1, <1>2, <1>12, <2>1 DEF ResetTo, Menus, NoMenu
    <2>2. CASE \A k \in Menus : \A b \in w.menus[k].armed : b.pointer # p
      BY <1>2, <1>12, <2>2
    <2>. QED
      BY <1>9, <1>12, <2>1, <2>2
  <1>13. HandsStand'
    BY <1>9, <1>12 DEF HandsStand
  <1>14. LinkStaysHome'
    BY <1>1 DEF LinkStaysHome, ResetTo, WorldStands, LinkFits
  <1>15. ChoiceIsShown'
    <2>1. CASE lastChoice'.menu \in Menus
      <3>1. PICK c : c = lastChoice' /\ c.menu \in Menus /\ c.value \in Nat
        BY <1>4, <2>1 DEF MenuChoices
      <3>2. ShowsChoice(look'.mark, c.menu, c.value)
        BY <1>1, <1>4, <2>1, <3>1
      <3>3. (look \in Looks => \A m \in Menus, v \in Nat : ShownIn(m) = v <=> ShowsChoice(look.mark, m, v))'
        BY LookIsShown, PTL
      <3>4. ShownIn(c.menu)' = c.value
        BY <1>8, <3>1, <3>2, <3>3
      <3>. QED
        BY <3>1, <3>4 DEF ChoiceIsShown, ShownIn
    <2>2. CASE lastChoice'.menu \notin Menus
      BY <2>2 DEF ChoiceIsShown
    <2>. QED
      BY <2>1, <2>2
  <1>. QED
    BY <1>6, <1>11, <1>13, <1>14, <1>15 DEF TextInv

\* Counting an act.
LEMMA ActsFits ==
    ASSUME NEW w, WorldStands(w)
    PROVE LET n == Acts(w)
          IN  WorldStands(n) /\ n.menus = w.menus /\ n.look = w.look /\ n.did = w.did /\ n.bar.open = w.bar.open
  <1>1. PICK bar \in Bars : bar = w.bar /\ LinkFits(bar) /\ bar.acts \in Nat
    BY WorldFields, BarFields DEF WorldStands
  <1>2. PICK next \in Nat : next = bar.acts + 1
    BY <1>1
  <1>3. PICK b : b = [bar EXCEPT !.acts = next]
    OBVIOUS
  <1>4. b \in Bars /\ LinkFits(b) /\ b.open = bar.open
    BY <1>1, <1>3 DEF Bars, LinkFits, Over
  <1>5. PICK n : n = [w EXCEPT !.bar = b]
    OBVIOUS
  <1>6. Acts(w) = n
    BY <1>1, <1>2, <1>3, <1>5 DEF Acts
  <1>7. WorldStands(n) /\ n.bar = b /\ n.menus = w.menus /\ n.look = w.look /\ n.did = w.did
    BY <1>4, <1>5, BarMoves
  <1>. QED
    BY <1>1, <1>4, <1>6, <1>7

\* Opening a menu, or none.
LEMMA OpenFits ==
    ASSUME NEW w, WorldStands(w), NEW o \in Menus \cup {NoMenu}, NEW b, b = [w.bar EXCEPT !.open = o],
           NEW n, n = [w EXCEPT !.bar = b]
    PROVE WorldStands(n) /\ n.menus = w.menus /\ n.look = w.look /\ n.did = w.did /\ n.bar.open = o
BY WorldFields, BarMoves DEF WorldStands, Bars, LinkFits, Over

\* Closing a menu.
LEMMA CloseFits ==
    ASSUME NEW w, WorldStands(w), NEW m \in Menus
    PROVE LET n == Close(w, m)
          IN  WorldStands(n) /\ n.menus = w.menus /\ n.look = w.look /\ n.did = w.did
  <1>1. w.bar.open \in Menus \cup {NoMenu}
    BY WorldFields, BarFields DEF WorldStands
  <1>2. PICK o \in Menus \cup {NoMenu} : o = IF w.bar.open = m THEN NoMenu ELSE w.bar.open
    BY <1>1
  <1>3. PICK b : b = [w.bar EXCEPT !.open = o]
    OBVIOUS
  <1>4. PICK n : n = [w EXCEPT !.bar = b]
    OBVIOUS
  <1>5. Close(w, m) = n
    BY <1>2, <1>3, <1>4 DEF Close
  <1>. QED
    BY <1>3, <1>4, <1>5, OpenFits

\* The trigger of a menu opens or closes it.
LEMMA ToggleFits ==
    ASSUME NEW w, WorldStands(w), NEW m \in Menus
    PROVE LET n == Toggle(w, m)
          IN  WorldStands(n) /\ n.menus = w.menus /\ n.look = w.look /\ n.did = w.did
  <1>1. PICK o \in Menus \cup {NoMenu} : o = IF w.bar.open = m THEN NoMenu ELSE m
    OBVIOUS
  <1>2. PICK b : b = [w.bar EXCEPT !.open = o]
    OBVIOUS
  <1>3. PICK n : n = [w EXCEPT !.bar = b]
    OBVIOUS
  <1>4. Toggle(w, m) = n
    BY <1>1, <1>2, <1>3 DEF Toggle
  <1>. QED
    BY <1>2, <1>3, <1>4, OpenFits

\* The click that follows a press is to be ignored.
LEMMA SuppressFits ==
    ASSUME NEW w, WorldStands(w), NEW x \in BOOLEAN, NEW n,
           \/ n = [w EXCEPT !.bar = [@ EXCEPT !.boldSuppress = x]]
           \/ n = [w EXCEPT !.bar = [@ EXCEPT !.moreSuppress = x]]
    PROVE WorldStands(n) /\ n.menus = w.menus /\ n.look = w.look /\ n.did = w.did
BY WorldFields, BarMoves DEF WorldStands, Bars, LinkFits, Over

\* What the native control chooses, which is of no menu.
BoldDid == {[menu |-> NoMenu, value |-> 0]}

\* Bold is turned on or off.
LEMMA BoldFits ==
    ASSUME NEW w, WorldStands(w)
    PROVE LET n == ApplyBold(w)
          IN  WorldStands(n) /\ n.menus = w.menus /\ n.look.mark = w.look.mark /\ n.did = BoldDid
              /\ n.bar.open = NoMenu
  <1>1. PICK bar \in Bars : bar = w.bar /\ LinkFits(bar)
    BY WorldFields DEF WorldStands
  <1>2. PICK b : b = [bar EXCEPT !.open = NoMenu]
    OBVIOUS
  <1>3. b \in Bars /\ LinkFits(b) /\ b.open = NoMenu
    BY <1>1, <1>2 DEF Bars, LinkFits, Over
  <1>4. PICK l \in Looks : l = w.look
    BY WorldFields DEF WorldStands
  <1>5. PICK x \in BOOLEAN : x = ~l.bold
    OBVIOUS
  <1>6. PICK k : k = [l EXCEPT !.bold = x]
    OBVIOUS
  <1>7. k \in Looks /\ k.mark = l.mark
    BY <1>6 DEF Looks
  <1>8. PICK d \in SUBSET Dids : d = BoldDid
    <2>1. [menu |-> NoMenu, value |-> 0] \in Dids
      BY DEF Dids
    <2>. QED
      BY <2>1 DEF BoldDid
  <1>9. ApplyBold(w) = [w EXCEPT !.look = k, !.bar = b, !.did = d]
    BY <1>1, <1>2, <1>4, <1>5, <1>6, <1>8 DEF ApplyBold, BoldDid
  <1>10. PICK n : n = [w EXCEPT !.look = k, !.bar = b, !.did = d]
    OBVIOUS
  <1>11. n \in Worlds /\ n.bar = b /\ n.menus = w.menus /\ n.look = k /\ n.did = d
    BY <1>3, <1>7, <1>8, <1>10 DEF WorldStands, Worlds
  <1>12. WorldStands(n)
    BY <1>3, <1>11 DEF WorldStands
  <1>. QED
    BY <1>3, <1>4, <1>7, <1>8, <1>9, <1>10, <1>11, <1>12

\* The advanced tools are shown or hidden.
LEMMA AdvanceFits ==
    ASSUME NEW w, WorldStands(w), NEW menuToo \in BOOLEAN
    PROVE LET n == Advance(w, menuToo)
          IN  WorldStands(n) /\ n.menus = w.menus /\ n.look = w.look /\ n.did = w.did
  <1>1. PICK bar \in Bars : bar = w.bar /\ LinkFits(bar)
    BY WorldFields DEF WorldStands
  <1>2. bar.open \in Menus \cup {NoMenu} /\ bar.linkOpen \in BOOLEAN
    BY BarFields
  <1>3. PICK x \in BOOLEAN : x = ~bar.advanced
    OBVIOUS
  <1>4. PICK o \in Menus \cup {NoMenu} : o = IF menuToo THEN NoMenu ELSE bar.open
    BY <1>2
  <1>5. PICK y \in BOOLEAN : y = (bar.linkOpen /\ ~menuToo) /\ (y => bar.linkOpen)
    BY <1>2
  <1>6. PICK b : b = [bar EXCEPT !.advanced = x, !.open = o, !.linkOpen = y]
    OBVIOUS
  <1>7. b \in Bars /\ LinkFits(b)
    BY <1>1, <1>5, <1>6 DEF Bars, LinkFits, Over
  <1>8. Advance(w, menuToo) = [w EXCEPT !.bar = b]
    BY <1>1, <1>3, <1>4, <1>5, <1>6 DEF Advance
  <1>9. PICK n : n = [w EXCEPT !.bar = b]
    OBVIOUS
  <1>10. WorldStands(n) /\ n.bar = b /\ n.menus = w.menus /\ n.look = w.look /\ n.did = w.did
    BY <1>7, <1>9, BarMoves
  <1>. QED
    BY <1>8, <1>9, <1>10

\* A choice is written and its menu closed.
LEMMA ChooseFits ==
    ASSUME NEW w, WorldStands(w), NEW m \in Menus, NEW v \in OptionsOf(m)
    PROVE LET n == Choose(w, m, v)
          IN  /\ WorldStands(n) /\ n.menus = w.menus /\ n.bar = w.bar /\ n.did = {[menu |-> m, value |-> v]}
              /\ ShowsChoice(n.look.mark, m, v)
  <1>1. PICK l \in Looks : l = w.look /\ l.mark \in Marks
    BY WorldFields DEF WorldStands, Looks
  <1>2. PICK mark \in Marks : mark = Updated(MarkOf(Flags(l.mark)), m, v) /\ ShowsChoice(mark, m, v)
    BY <1>1, MarkSurvives, UpdatedIs
  <1>3. PICK k : k = [l EXCEPT !.mark = mark]
    OBVIOUS
  <1>4. k \in Looks /\ k.mark = mark
    BY <1>3 DEF Looks
  <1>5. PICK d \in SUBSET Dids : d = {[menu |-> m, value |-> v]}
    <2>1. [menu |-> m, value |-> v] \in Dids
      BY OptionFacts DEF Dids
    <2>. QED
      BY <2>1
  <1>6. Choose(w, m, v) = [w EXCEPT !.look = k, !.did = d]
    BY <1>1, <1>2, <1>3, <1>5 DEF Choose
  <1>7. PICK n : n = [w EXCEPT !.look = k, !.did = d]
    OBVIOUS
  <1>8. n \in Worlds /\ n.bar = w.bar /\ n.menus = w.menus /\ n.look = k /\ n.did = d
    BY <1>4, <1>5, <1>7 DEF WorldStands, Worlds
  <1>9. WorldStands(n)
    BY <1>8 DEF WorldStands
  <1>. QED
    BY <1>2, <1>4, <1>5, <1>6, <1>7, <1>8, <1>9

\* Nothing is armed that was not.
Fewer(menus, old) == \A m \in Menus : menus[m].armed \subseteq old[m].armed

\* A menu that was activated closes in time.
LEMMA ActivatedFits ==
    ASSUME NEW m \in Menus, NEW s \in MenuStates, MenuFits(m, s)
    PROVE LET n == Activated(s) IN n \in MenuStates /\ MenuFits(m, n) /\ n.armed = s.armed /\ ~n.closing
BY DEF MenuStates, MenuFits, Activated

\* An option of an open menu is armed.
LEMMA ArmedFits ==
    ASSUME NEW m \in Menus, NEW s \in MenuStates, textBar.open = m, ~s.closing,
           NEW f \in SUBSET Arms(m), NEW n, n = [s EXCEPT !.armed = f]
    PROVE n \in MenuStates /\ MenuFits(m, n) /\ n.armed = f
BY MenuFields, OptionFacts DEF Arms, MenuStates, MenuFits

\* A menu that changes on its own and arms nothing.
LEMMA MenuKeeps ==
    ASSUME NEW w, WorldStands(w), NEW m \in Menus, NEW s \in MenuStates, MenuFits(m, s),
           s.armed \subseteq w.menus[m].armed,
           NEW f \in [Menus -> MenuStates], f[m] = s, \A k \in Menus : k # m => f[k] = w.menus[k],
           NEW n, n = [w EXCEPT !.menus = f]
    PROVE WorldStands(n) /\ n.bar = w.bar /\ n.look = w.look /\ n.did = w.did /\ Fewer(n.menus, w.menus)
BY MenuMoves DEF Fewer

\* An option can be pressed only while its menu is open.
LEMMA OptionIsOpen ==
    ASSUME NEW el \in Controls, There(textBar, el), el.kind = "option"
    PROVE textBar.open = el.menu
BY DEF There

\* What a press leaves: at most bold was chosen, and only what is pressed is armed.
PressedRight(w, p, el) ==
    /\ WorldStands(w) /\ w.look.mark = look.mark
    /\ w.did = {} \/ (w.did = BoldDid /\ w.bar.open = NoMenu)
    /\ \A m \in Menus : \A a \in w.menus[m].armed :
          \/ a \in rangeMenus[m].armed
          \/ el.kind = "option" /\ m = el.menu /\ a = [pointer |-> p, value |-> el.value]

\* A press arms the option that it is on, and chooses nothing of a menu.
LEMMA PressedIs ==
    ASSUME TextTypes, MenusStand, LinkStaysHome, NEW p \in Pointers, NEW el \in Controls, There(textBar, el),
           NEW w, w = Pressed(World, p, el)
    PROVE PressedRight(w, p, el)
  <1>1. /\ WorldStands(World) /\ World.did = {} /\ World.bar = textBar /\ World.menus = rangeMenus
        /\ World.look = look
    BY WorldIsThere
  <1>2. PICK v : v = World
    OBVIOUS
  <1>3. WorldStands(v) /\ v.did = {} /\ v.bar = textBar /\ v.menus = rangeMenus /\ v.look = look
    BY <1>1, <1>2
  <1>4. ASSUME NEW m \in Menus PROVE v.menus[m] \in MenuStates /\ MenuFits(m, v.menus[m])
    BY <1>3, WorldFields DEF WorldStands
  <1>5. v.menus \in [Menus -> MenuStates]
    BY <1>3, WorldFields DEF WorldStands
  <1>6. ASSUME el.kind = "trigger" PROVE PressedRight(w, p, el)
    <2>1. PICK m \in Menus : m = el.menu
      BY <1>6, ControlFacts
    <2>2. PICK s \in MenuStates : s = Activated(v.menus[m]) /\ MenuFits(m, s) /\ s.armed = v.menus[m].armed
      BY <1>4, ActivatedFits
    <2>3. PICK f : f = [v.menus EXCEPT ![m] = s]
      OBVIOUS
    <2>9. f \in [Menus -> MenuStates] /\ f[m] = s /\ \A k \in Menus : k # m => f[k] = v.menus[k]
      BY <1>5, <2>3
    <2>4. PICK n : n = [v EXCEPT !.menus = f]
      OBVIOUS
    <2>5. s.armed \subseteq v.menus[m].armed
      BY <2>2
    <2>6. WorldStands(n) /\ n.look = v.look /\ n.did = v.did /\ Fewer(n.menus, v.menus)
      BY <1>3, <2>2, <2>4, <2>5, <2>9, MenuKeeps
    <2>7. w = Toggle(n, m)
      BY <1>2, <1>6, <2>1, <2>2, <2>3, <2>4 DEF Pressed
    <2>8. WorldStands(w) /\ w.menus = n.menus /\ w.look = n.look /\ w.did = n.did
      BY <2>6, <2>7, ToggleFits
    <2>. QED
      BY <1>3, <2>6, <2>8 DEF PressedRight, Fewer
  <1>7. ASSUME el.kind = "option" PROVE PressedRight(w, p, el)
    <2>1. PICK m \in Menus : m = el.menu /\ el.value \in OptionsOf(m) /\ textBar.open = m
      BY <1>7, ControlFacts, OptionIsOpen
    <2>2. PICK s \in MenuStates : s = Activated(v.menus[m]) /\ ~s.closing
      BY <1>4, ActivatedFits
    <2>3. PICK a \in Arms(m) : a = [pointer |-> p, value |-> el.value]
      BY <2>1 DEF Arms
    <2>4. PICK g \in SUBSET Arms(m) : g = {a}
      OBVIOUS
    <2>5. PICK t : t = [s EXCEPT !.armed = g]
      OBVIOUS
    <2>6. t \in MenuStates /\ MenuFits(m, t) /\ t.armed = g
      BY <2>1, <2>2, <2>5, ArmedFits
    <2>7. PICK f : f = [v.menus EXCEPT ![m] = t]
      OBVIOUS
    <2>10. f \in [Menus -> MenuStates] /\ f[m] = t /\ \A k \in Menus : k # m => f[k] = v.menus[k]
      BY <1>5, <2>6, <2>7
    <2>8. w = [v EXCEPT !.menus = f]
      BY <1>2, <1>7, <2>1, <2>2, <2>3, <2>4, <2>5, <2>7 DEF Pressed
    <2>9. /\ WorldStands(w) /\ w.look = v.look /\ w.did = v.did
          /\ w.menus[m] = t /\ \A k \in Menus : k # m => w.menus[k] = v.menus[k]
      BY <1>3, <2>6, <2>8, <2>10, MenuMoves
    <2>. QED
      BY <1>3, <1>7, <2>1, <2>3, <2>4, <2>6, <2>9 DEF PressedRight
  <1>8. ASSUME el.kind = "bold" PROVE PressedRight(w, p, el)
    <2>1. PICK n : n = [v EXCEPT !.bar = [@ EXCEPT !.boldSuppress = TRUE]]
      OBVIOUS
    <2>2. WorldStands(n) /\ n.menus = v.menus /\ n.look = v.look /\ n.did = v.did
      BY <1>3, <2>1, SuppressFits
    <2>3. w = ApplyBold(n)
      BY <1>2, <1>8, <2>1 DEF Pressed
    <2>4. WorldStands(w) /\ w.menus = n.menus /\ w.look.mark = n.look.mark /\ w.did = BoldDid /\ w.bar.open = NoMenu
      BY <2>2, <2>3, BoldFits
    <2>. QED
      BY <1>3, <2>2, <2>4 DEF PressedRight
  <1>9. ASSUME el.kind = "more" PROVE PressedRight(w, p, el)
    <2>1. PICK n : n = [v EXCEPT !.bar = [@ EXCEPT !.moreSuppress = TRUE]]
      OBVIOUS
    <2>2. WorldStands(n) /\ n.menus = v.menus /\ n.look = v.look /\ n.did = v.did
      BY <1>3, <2>1, SuppressFits
    <2>3. w = Advance(n, TRUE)
      BY <1>2, <1>9, <2>1 DEF Pressed
    <2>4. WorldStands(w) /\ w.menus = n.menus /\ w.look = n.look /\ w.did = n.did
      BY <2>2, <2>3, AdvanceFits
    <2>. QED
      BY <1>3, <2>2, <2>4 DEF PressedRight
  <1>10. ASSUME el.kind = "page" PROVE PressedRight(w, p, el)
    BY <1>2, <1>10, <1>3 DEF Pressed, PressedRight
  <1>. QED
    BY <1>6, <1>7, <1>8, <1>9, <1>10, ControlFacts

\* A world with another state of one menu.
WithMenu(w, m, s) == [w EXCEPT !.menus = [@ EXCEPT ![m] = s]]

\* A menu that is put in a state that arms nothing more.
LEMMA PutKeeps ==
    ASSUME NEW w, WorldStands(w), NEW m \in Menus, NEW s \in MenuStates, MenuFits(m, s),
           s.armed \subseteq w.menus[m].armed
    PROVE LET n == WithMenu(w, m, s)
          IN  WorldStands(n) /\ n.bar = w.bar /\ n.look = w.look /\ n.did = w.did /\ Fewer(n.menus, w.menus)
  <1>1. PICK menus \in [Menus -> MenuStates] : menus = w.menus
    BY WorldFields DEF WorldStands
  <1>2. PICK f : f = [menus EXCEPT ![m] = s]
    OBVIOUS
  <1>3. f \in [Menus -> MenuStates] /\ f[m] = s /\ \A k \in Menus : k # m => f[k] = menus[k]
    BY <1>1, <1>2
  <1>4. PICK n : n = [w EXCEPT !.menus = f]
    OBVIOUS
  <1>5. WorldStands(n) /\ n.bar = w.bar /\ n.look = w.look /\ n.did = w.did /\ Fewer(n.menus, w.menus)
    <2>1. f[m] = s /\ \A k \in Menus : k # m => f[k] = w.menus[k]
      BY <1>1, <1>3
    <2>2. f \in [Menus -> MenuStates]
      BY <1>3
    <2>3. /\ WorldStands(n) /\ n.bar = w.bar /\ n.look = w.look /\ n.did = w.did
          /\ n.menus[m] = s /\ \A k \in Menus : k # m => n.menus[k] = w.menus[k]
      BY <1>4, <2>1, <2>2, MenuMoves
    <2>. QED
      BY <2>3 DEF Fewer
  <1>6. WithMenu(w, m, s) = n
    BY <1>1, <1>2, <1>4 DEF WithMenu
  <1>. QED
    BY <1>5, <1>6

\* A menu that is put at rest.
LEMMA PutIdle ==
    ASSUME NEW w, WorldStands(w), NEW m \in Menus
    PROVE LET n == WithMenu(w, m, IdleMenu)
          IN  WorldStands(n) /\ n.bar = w.bar /\ n.look = w.look /\ n.did = w.did /\ Fewer(n.menus, w.menus)
BY IdleFits, PutKeeps

\* Less than less is less.
LEMMA FewerThrough ==
    ASSUME NEW a, NEW b, NEW c, Fewer(a, b), Fewer(b, c)
    PROVE Fewer(a, c)
BY DEF Fewer

\* The same is not more.
LEMMA FewerSame ==
    ASSUME NEW a
    PROVE Fewer(a, a)
BY DEF Fewer

\* What a choice of a menu leaves of the world.
Chose(w, v, m, x) ==
    /\ WorldStands(w) /\ Fewer(w.menus, v.menus)
    /\ w.did = {[menu |-> m, value |-> x]} /\ ShowsChoice(w.look.mark, m, x)

\* What leaves the look as it is.
Quiet(w, v) == WorldStands(w) /\ Fewer(w.menus, v.menus) /\ w.look = v.look /\ w.did = v.did

\* A release chooses what its pointer had armed, or nothing.
LEMMA ReleasedIs ==
    ASSUME NEW v, WorldStands(v), v.did = {}, NEW p \in Pointers, NEW el \in Controls,
           NEW w, w = Released(v, p, el)
    PROVE \/ w = v
          \/ /\ el.kind = "option" /\ [pointer |-> p, value |-> el.value] \in v.menus[el.menu].armed
             /\ Chose(w, v, el.menu, el.value)
  <1>1. CASE ~(el.kind = "option" /\ [pointer |-> p, value |-> el.value] \in v.menus[el.menu].armed)
    BY <1>1 DEF Released
  <1>2. ASSUME el.kind = "option", [pointer |-> p, value |-> el.value] \in v.menus[el.menu].armed
        PROVE Chose(w, v, el.menu, el.value)
    <2>1. PICK m \in Menus : m = el.menu /\ el.value \in OptionsOf(m)
      BY <1>2, ControlFacts
    <2>2. v.menus[m] \in MenuStates /\ MenuFits(m, v.menus[m])
      BY WorldFields DEF WorldStands
    <2>3. PICK s : s = [v.menus[m] EXCEPT !.armed = {}, !.closing = TRUE]
      OBVIOUS
    <2>4. s \in MenuStates /\ s.armed = {}
      BY <2>2, <2>3 DEF MenuStates
    <2>5. textBar.open = m
      BY <1>2, <2>1, <2>2 DEF MenuFits
    <2>6. MenuFits(m, s) /\ s.armed \subseteq v.menus[m].armed
      BY <2>4, <2>5 DEF MenuFits
    <2>7. PICK n : n = WithMenu(v, m, s)
      OBVIOUS
    <2>8. WorldStands(n) /\ Fewer(n.menus, v.menus)
      BY <2>4, <2>6, <2>7, PutKeeps
    <2>9. w = Choose(n, m, el.value)
      BY <1>2, <2>1, <2>3, <2>7 DEF Released, WithMenu
    <2>10. WorldStands(w) /\ w.menus = n.menus /\ w.did = {[menu |-> m, value |-> el.value]}
           /\ ShowsChoice(w.look.mark, m, el.value)
      BY <2>1, <2>8, <2>9, ChooseFits
    <2>. QED
      BY <2>1, <2>8, <2>10 DEF Chose
  <1>. QED
    BY <1>1, <1>2

\* A click, or a key, chooses what it is on and disarms.
LEMMA ClearedWorldIs ==
    ASSUME NEW v, WorldStands(v), NEW el \in Controls, NEW key \in BOOLEAN, NEW w, w = Cleared(v, el, key)
    PROVE Quiet(w, v)
  <1>1. ASSUME el.kind \in {"trigger", "option"} PROVE Quiet(w, v)
    BY <1>1, ControlFacts, PutIdle DEF Cleared, WithMenu, Quiet
  <1>2. ASSUME el.kind = "bold" PROVE Quiet(w, v)
    BY <1>2, SuppressFits DEF Cleared, Quiet, Fewer
  <1>3. ASSUME el.kind = "more", ~key PROVE Quiet(w, v)
    BY <1>3, SuppressFits DEF Cleared, Quiet, Fewer
  <1>4. ASSUME (el.kind = "more" /\ key) \/ el.kind = "page" PROVE Quiet(w, v)
    BY <1>4 DEF Cleared, Quiet, Fewer
  <1>. QED
    BY <1>1, <1>2, <1>3, <1>4, ControlFacts

\* Only a click of the keyboard, whose detail is 0, chooses.
LEMMA ClickedIs ==
    ASSUME NEW v, WorldStands(v), v.did = {}, NEW el \in Controls, NEW detail \in {0, 1},
           NEW w, w = Clicked(v, el, detail)
    PROVE \/ Quiet(w, v)
          \/ /\ detail = 0
             /\ \/ /\ WorldStands(w) /\ Fewer(w.menus, v.menus) /\ w.did = BoldDid
                   /\ w.look.mark = v.look.mark
                \/ el.menu \in Menus /\ el.value \in OptionsOf(el.menu) /\ Chose(w, v, el.menu, el.value)
  <1> DEFINE Goal == \/ Quiet(w, v)
                     \/ /\ detail = 0
                        /\ \/ /\ WorldStands(w) /\ Fewer(w.menus, v.menus) /\ w.did = BoldDid
                              /\ w.look.mark = v.look.mark
                           \/ /\ el.menu \in Menus /\ el.value \in OptionsOf(el.menu)
                              /\ Chose(w, v, el.menu, el.value)
  <1>0. Quiet(v, v) /\ (ByKeyboard(detail) <=> detail = 0)
    BY DEF Quiet, Fewer, ByKeyboard
  <1>1. ASSUME el.kind = "trigger" PROVE Goal
    <2>1. PICK m \in Menus : m = el.menu
      BY <1>1, ControlFacts
    <2>2. CASE v.menus[m].suppress
      <3>1. v.menus[m] \in MenuStates /\ MenuFits(m, v.menus[m])
        BY WorldFields DEF WorldStands
      <3>2. PICK s : s = [v.menus[m] EXCEPT !.suppress = FALSE]
        OBVIOUS
      <3>3. s \in MenuStates /\ s.armed = v.menus[m].armed /\ s.closing = v.menus[m].closing
        BY <3>1, <3>2 DEF MenuStates
      <3>4. MenuFits(m, s) /\ s.armed \subseteq v.menus[m].armed
        BY <3>1, <3>3 DEF MenuFits
      <3>5. w = WithMenu(v, m, s)
        BY <1>1, <2>1, <2>2, <3>2 DEF Clicked, WithMenu
      <3>. QED
        BY <3>3, <3>4, <3>5, PutKeeps DEF Quiet
    <2>3. CASE ~v.menus[m].suppress /\ detail = 0
      BY <1>0, <1>1, <2>1, <2>3, ToggleFits DEF Clicked, Quiet, Fewer
    <2>4. CASE ~v.menus[m].suppress /\ detail # 0
      BY <1>0, <1>1, <2>1, <2>4 DEF Clicked
    <2>. QED
      BY <2>2, <2>3, <2>4
  <1>2. ASSUME el.kind = "option" PROVE Goal
    <2>1. PICK m \in Menus : m = el.menu /\ el.value \in OptionsOf(m)
      BY <1>2, ControlFacts
    <2>2. CASE v.menus[m].suppress
      <3>1. PICK n : n = WithMenu(v, m, IdleMenu)
        OBVIOUS
      <3>2. WorldStands(n) /\ n.look = v.look /\ n.did = v.did /\ Fewer(n.menus, v.menus)
        BY <3>1, PutIdle
      <3>3. w = Close(n, m)
        BY <1>2, <2>1, <2>2, <3>1 DEF Clicked, WithMenu
      <3>4. WorldStands(w) /\ w.menus = n.menus /\ w.look = n.look /\ w.did = n.did
        BY <3>2, <3>3, CloseFits
      <3>. QED
        BY <3>2, <3>4 DEF Quiet
    <2>3. CASE ~v.menus[m].suppress /\ detail = 0
      BY <2>1, <1>0, <1>2, <2>3, ChooseFits, CloseFits DEF Clicked, Chose, Fewer
    <2>4. CASE ~v.menus[m].suppress /\ detail # 0
      BY <1>0, <1>2, <2>1, <2>4 DEF Clicked
    <2>. QED
      BY <2>2, <2>3, <2>4
  <1>3. ASSUME el.kind = "bold" PROVE Goal
    <2>1. CASE v.bar.boldSuppress
      BY <1>3, <2>1, SuppressFits DEF Clicked, Quiet, Fewer
    <2>2. CASE ~v.bar.boldSuppress /\ detail = 0
      BY <1>0, <1>3, <2>2, BoldFits, FewerSame DEF Clicked
    <2>3. CASE ~v.bar.boldSuppress /\ detail # 0
      BY <1>0, <1>3, <2>3 DEF Clicked
    <2>. QED
      BY <2>1, <2>2, <2>3
  <1>4. ASSUME el.kind = "more" PROVE Goal
    <2>1. CASE v.bar.moreSuppress
      BY <1>4, <2>1, SuppressFits DEF Clicked, Quiet, Fewer
    <2>2. CASE ~v.bar.moreSuppress /\ detail = 0
      BY <1>0, <1>4, <2>2, AdvanceFits DEF Clicked, Quiet, Fewer
    <2>3. CASE ~v.bar.moreSuppress /\ detail # 0
      BY <1>0, <1>4, <2>3 DEF Clicked
    <2>. QED
      BY <2>1, <2>2, <2>3
  <1>5. ASSUME el.kind = "page" PROVE Goal
    BY <1>0, <1>5 DEF Clicked
  <1>. QED
    BY <1>1, <1>2, <1>3, <1>4, <1>5, ControlFacts

\* A pointer makes only a choice that it pressed.
ChoicePressed ==
    lastChoice'.n # lastChoice.n /\ lastChoice'.by # 0 /\ lastChoice'.menu \in Menus =>
        <<lastChoice'.by, lastChoice'.value>> \in pressedNow[lastChoice'.menu]

\* What the invariant says, in fields.
LEMMA InvFacts ==
    ASSUME TextInv
    PROVE /\ TextTypes /\ MenusStand /\ HandsStand /\ LinkStaysHome
          /\ hands \in [Pointers -> Hands] /\ lastChoice \in MenuChoices /\ look \in Looks /\ textBar \in Bars
          /\ \A m \in Menus : \A a \in rangeMenus[m].armed : <<a.pointer, a.value>> \in pressedNow[m]
          /\ \A p \in Pointers : hands[p].done <= 1
          /\ \A p \in Pointers : hands[p].stage = "down" /\ hands[p].done = 1 =>
                \A m \in Menus : \A a \in rangeMenus[m].armed : a.pointer # p
          /\ lastChoice.menu \in Menus => ShowsChoice(look.mark, lastChoice.menu, lastChoice.value)
  <1>1. /\ TextTypes /\ MenusStand /\ HandsStand /\ LinkStaysHome /\ ChoiceIsShown
        /\ hands \in [Pointers -> Hands] /\ lastChoice \in MenuChoices /\ look \in Looks /\ textBar \in Bars
    BY DEF TextInv, TextTypes, MenuChoices
  <1>2. \A m \in Menus : \A a \in rangeMenus[m].armed : <<a.pointer, a.value>> \in pressedNow[m]
    BY <1>1 DEF MenusStand
  <1>3. \A p \in Pointers : hands[p].done <= 1
    BY <1>1 DEF HandsStand
  <1>4. \A p \in Pointers : hands[p].stage = "down" /\ hands[p].done = 1 =>
                \A m \in Menus : \A a \in rangeMenus[m].armed : a.pointer # p
    BY <1>1 DEF HandsStand
  <1>5. lastChoice.menu \in Menus => ShowsChoice(look.mark, lastChoice.menu, lastChoice.value)
    BY <1>1, LookIsShown DEF MenuChoices, ChoiceIsShown
  <1>. QED
    BY <1>1, <1>2, <1>3, <1>4, <1>5

\* The choice that is remembered after a step.
LEMMA MadeIs ==
    ASSUME lastChoice \in MenuChoices, NEW w, NEW p \in 0..2
    PROVE /\ w.did = {} => Made(w, p) = lastChoice
          /\ \A d \in Dids : w.did = {d} => /\ Made(w, p) \in MenuChoices /\ Made(w, p).menu = d.menu
                                            /\ Made(w, p).value = d.value /\ Made(w, p).by = p
  <1>1. w.did = {} => Made(w, p) = lastChoice
    BY DEF Made
  <1>2. ASSUME NEW d \in Dids, w.did = {d}
        PROVE /\ Made(w, p) \in MenuChoices /\ Made(w, p).menu = d.menu
              /\ Made(w, p).value = d.value /\ Made(w, p).by = p
    BY <1>2 DEF MenuChoices, Made, Dids
  <1>. QED
    BY <1>1, <1>2

\* The gesture that made a choice counts it.
LEMMA CountedIs ==
    ASSUME NEW h \in Hands, NEW w
    PROVE /\ Counted(h, w) \in Hands /\ Counted(h, w).stage = h.stage
          /\ Counted(h, w).done = IF w.did = {} THEN h.done ELSE h.done + 1
BY DEF Hands, Counted

\* Bold is a choice of no menu.
LEMMA BoldIsDid ==
    ASSUME NEW d, d = [menu |-> NoMenu, value |-> 0]
    PROVE d \in Dids /\ BoldDid = {d} /\ BoldDid # {} /\ d.menu \notin Menus
BY DEF BoldDid, Dids, NoMenu, Menus

\* A pointer is pressed on a control.
LEMMA PressKeeps ==
    ASSUME TextInv, NEW p \in Pointers, NEW el \in Controls, PressOn(p, el)
    PROVE TextInv' /\ ChoicePressed
  <1>1. /\ TextTypes /\ MenusStand /\ HandsStand /\ LinkStaysHome
        /\ hands \in [Pointers -> Hands] /\ lastChoice \in MenuChoices /\ look \in Looks
    BY InvFacts
  <1>2. There(textBar, el)
    BY DEF PressOn
  <1>3. PICK w : w = IF textBar.readOnly THEN World ELSE Pressed(World, p, el)
    OBVIOUS
  <1>4. PICK hand : hand = [hands EXCEPT ![p] = Counted([stage |-> "down", at |-> el, done |-> 0], w)]
    OBVIOUS
  <1>5. PICK pressed : pressed = IF el.kind = "option" /\ ~textBar.readOnly
                                 THEN [pressedNow EXCEPT ![el.menu] = @ \cup {<<p, el.value>>}] ELSE pressedNow
    OBVIOUS
  <1>6. Becomes(Acts(w), hand) /\ Remembers(pressed, Made(w, p))
    BY <1>3, <1>4, <1>5 DEF PressOn
  <1>7. PressedRight(w, p, el) /\ (textBar.readOnly => w = World)
    <2>1. CASE textBar.readOnly
      BY <1>3, <2>1, <1>1, WorldIsThere DEF PressedRight
    <2>2. CASE ~textBar.readOnly
      BY <1>3, <2>2, <1>1, <1>2, PressedIs
    <2>. QED
      BY <2>1, <2>2
  <1>8. /\ WorldStands(w) /\ w.look.mark = look.mark
        /\ w.did = {} \/ (w.did = BoldDid /\ w.bar.open = NoMenu)
    BY <1>7 DEF PressedRight
  <1>9. PICK n : n = Acts(w)
    OBVIOUS
  <1>10. WorldStands(n) /\ n.menus = w.menus /\ n.look = w.look /\ n.bar.open = w.bar.open
    BY <1>8, <1>9, ActsFits
  <1>11. \A m \in Menus : \A a \in n.menus[m].armed : <<a.pointer, a.value>> \in pressed[m]
    <2>1. SUFFICES ASSUME NEW m \in Menus, NEW a \in n.menus[m].armed PROVE <<a.pointer, a.value>> \in pressed[m]
      OBVIOUS
    <2>2. DOMAIN pressedNow = Menus
      BY <1>1 DEF TextTypes
    <2>3. pressedNow[m] \subseteq pressed[m]
      BY <2>2, <1>5
    <2>4. CASE a \in rangeMenus[m].armed
      BY <1>1, <2>3, <2>4 DEF MenusStand
    <2>5. CASE a \notin rangeMenus[m].armed
      BY <1>7, <1>10, <2>5, <1>1, <1>5, <2>2, WorldIsThere DEF PressedRight
    <2>. QED
      BY <2>4, <2>5
  <1>12. PICK h : h = [stage |-> "down", at |-> el, done |-> 0]
    OBVIOUS
  <1>13. h \in Hands /\ h = [stage |-> "down", at |-> el, done |-> 0] /\ h.done = 0
    BY <1>12 DEF Hands, Stages
  <1>14. PICK c \in Hands : c = Counted(h, w) /\ c.done = IF w.did = {} THEN 0 ELSE 1
    BY <1>13, CountedIs
  <1>15. hand = [hands EXCEPT ![p] = c]
    BY <1>4, <1>13, <1>14
  <1>16. hand \in [Pointers -> Hands] /\ hand[p] = c /\ \A q \in Pointers : q # p => hand[q] = hands[q]
    BY <1>1, <1>15
  <1>17. \A q \in Pointers : hand[q].done <= 1
    BY <1>1, <1>14, <1>16 DEF HandsStand
  <1>18. ASSUME NEW q \in Pointers, hand[q].stage = "down", hand[q].done = 1
         PROVE n.bar.open = NoMenu \/ \A m \in Menus : \A a \in n.menus[m].armed : a.pointer # q
    <2>1. CASE w.did = {}
      BY <1>14, <1>16, <1>18, <2>1, <1>1, <1>7, <1>10 DEF HandsStand, PressedRight
    <2>2. CASE w.did # {}
      BY <1>8, <1>10, <2>2
    <2>. QED
      BY <2>1, <2>2
  <1>19. PICK choice \in MenuChoices : choice = Made(w, p) /\ (choice = lastChoice \/ choice.menu \notin Menus)
    <2>1. p \in 0..2
      BY DEF Pointers
    <2>2. PICK d : d = [menu |-> NoMenu, value |-> 0]
      OBVIOUS
    <2>3. d \in Dids /\ BoldDid = {d} /\ d.menu \notin Menus
      BY <2>2, BoldIsDid
    <2>. QED
      BY <1>1, <1>8, <2>1, <2>3, MadeIs
  <1>20. choice.menu \in Menus => ShowsChoice(n.look.mark, choice.menu, choice.value)
    BY <1>8, <1>10, <1>19, InvFacts
  <1>21. Becomes(n, hand) /\ Remembers(pressed, choice)
    BY <1>6, <1>9, <1>19
  <1>22. \A q \in Pointers : hand[q].stage = "down" /\ hand[q].done = 1 =>
                \/ n.bar.open = NoMenu
                \/ \A m \in Menus : \A a \in n.menus[m].armed : a.pointer # q
    BY <1>18
  <1>23. TextInv'
    BY <1>1, <1>10, <1>11, <1>16, <1>17, <1>20, <1>21, <1>22, TextStandsOn
  <1>24. ChoicePressed
    BY <1>21, <1>19 DEF Remembers, ChoicePressed
  <1>. QED
    BY <1>23, <1>24

\* The state after a handler that neither chooses nor presses.
LEMMA QuietKeeps ==
    ASSUME TextInv, NEW w, WorldStands(w), Fewer(w.menus, rangeMenus), w.look.mark = look.mark,
           NEW hand \in [Pointers -> Hands], Becomes(w, hand), Remembers(pressedNow, lastChoice),
           \A p \in Pointers : hand[p].done = hands[p].done /\ (hand[p].stage = "down" => hands[p].stage = "down")
    PROVE TextInv' /\ ChoicePressed
BY InvFacts, TextStandsOn DEF Fewer, Remembers, ChoicePressed

\* A pointer is released on a control.
LEMMA ReleaseKeeps ==
    ASSUME TextInv, NEW p \in Pointers, NEW el \in Controls, ReleaseOn(p, el)
    PROVE TextInv' /\ ChoicePressed
  <1>1. /\ TextTypes /\ MenusStand /\ HandsStand /\ LinkStaysHome
        /\ hands \in [Pointers -> Hands] /\ lastChoice \in MenuChoices /\ look \in Looks
    BY InvFacts
  <1>2. PICK v : v = World /\ WorldStands(v) /\ v.did = {} /\ v.menus = rangeMenus /\ v.look = look
    BY <1>1, WorldIsThere
  <1>3. PICK w : w = IF textBar.readOnly THEN v ELSE Released(v, p, el)
    OBVIOUS
  <1>4. PICK stage \in Stages : stage = (IF el = hands[p].at /\ el # Page THEN "click" ELSE "up") /\ stage # "down"
    BY DEF Stages
  <1>5. PICK h : h = [hands[p] EXCEPT !.stage = stage]
    OBVIOUS
  <1>6. h \in Hands /\ h.stage = stage /\ h.done = hands[p].done
    BY <1>1, <1>5 DEF Hands
  <1>7. PICK c \in Hands : c = Counted(h, w) /\ c.stage = stage
                           /\ c.done = IF w.did = {} THEN h.done ELSE h.done + 1
    BY <1>6, CountedIs
  <1>8. PICK hand : hand = [hands EXCEPT ![p] = c]
    OBVIOUS
  <1>9. Becomes(w, hand) /\ Remembers(pressedNow, Made(w, p)) /\ hands[p].stage = "down"
    BY <1>2, <1>3, <1>4, <1>5, <1>7, <1>8 DEF ReleaseOn
  <1>10. hand \in [Pointers -> Hands] /\ hand[p] = c /\ \A q \in Pointers : q # p => hand[q] = hands[q]
    BY <1>1, <1>8
  <1>11. \/ w = v
         \/ /\ el.kind = "option" /\ [pointer |-> p, value |-> el.value] \in rangeMenus[el.menu].armed
            /\ Chose(w, v, el.menu, el.value)
    BY <1>2, <1>3, ReleasedIs
  <1>12. CASE w = v
    <2>1. WorldStands(w) /\ Fewer(w.menus, rangeMenus) /\ w.look.mark = look.mark /\ w.did = {}
      BY <1>2, <1>12 DEF Fewer
    <2>2. p \in 0..2
      BY DEF Pointers
    <2>3. Made(w, p) = lastChoice
      BY <1>1, <2>1, <2>2, MadeIs
    <2>4. Becomes(w, hand) /\ Remembers(pressedNow, lastChoice)
      BY <1>9, <2>3
    <2>5. \A q \in Pointers : hand[q].done = hands[q].done /\ (hand[q].stage = "down" => hands[q].stage = "down")
      BY <1>4, <1>6, <1>7, <1>10, <2>1
    <2>. QED
      BY <1>10, <2>1, <2>4, <2>5, QuietKeeps
  <1>13. ASSUME el.kind = "option", [pointer |-> p, value |-> el.value] \in rangeMenus[el.menu].armed,
                Chose(w, v, el.menu, el.value)
         PROVE TextInv' /\ ChoicePressed
    <2>1. PICK m \in Menus : m = el.menu /\ el.value \in OptionsOf(m)
      BY <1>13, ControlFacts
    <2>2. PICK a : a = [pointer |-> p, value |-> el.value]
      OBVIOUS
    <2>3. a \in rangeMenus[m].armed /\ a.pointer = p /\ a.value = el.value
      BY <1>13, <2>1, <2>2
    <2>4. <<p, el.value>> \in pressedNow[m]
      BY <2>3, InvFacts
    <2>5. PICK d : d = [menu |-> m, value |-> el.value]
      OBVIOUS
    <2>6. d \in Dids /\ d.menu = m /\ d.value = el.value
      BY <2>1, <2>5, OptionFacts DEF Dids
    <2>7. WorldStands(w) /\ Fewer(w.menus, rangeMenus) /\ w.did = {d} /\ ShowsChoice(w.look.mark, m, el.value)
      BY <1>2, <1>13, <2>1, <2>5 DEF Chose
    <2>8. p \in 0..2
      BY DEF Pointers
    <2>9. PICK choice \in MenuChoices : choice = Made(w, p) /\ choice.menu = m /\ choice.value = el.value /\ choice.by = p
      BY <1>1, <2>6, <2>7, <2>8, MadeIs
    <2>10. Becomes(w, hand) /\ Remembers(pressedNow, choice)
      BY <1>9, <2>9
    <2>11. h.done # 1
      BY <1>9, <2>3, <1>6, InvFacts
    <2>12. c.done <= 1
      BY <1>1, <1>6, <1>7, <2>11 DEF HandsStand, Hands
    <2>13. \A q \in Pointers : hand[q].done <= 1
      BY <1>10, <2>12, InvFacts
    <2>14. \A k \in Menus : \A b \in w.menus[k].armed : b \in rangeMenus[k].armed
      BY <2>7 DEF Fewer
    <2>15. \A k \in Menus : \A b \in w.menus[k].armed : <<b.pointer, b.value>> \in pressedNow[k]
      BY <2>14, InvFacts
    <2>16. \A q \in Pointers : hand[q].stage = "down" /\ hand[q].done = 1 =>
                \/ w.bar.open = NoMenu
                \/ \A k \in Menus : \A b \in w.menus[k].armed : b.pointer # q
      BY <1>4, <1>7, <1>10, <2>14, InvFacts
    <2>17. choice.menu \in Menus => ShowsChoice(w.look.mark, choice.menu, choice.value)
      BY <2>7, <2>9
    <2>18. TextInv'
      BY <1>1, <1>10, <2>7, <2>10, <2>13, <2>15, <2>16, <2>17, TextStandsOn
    <2>19. ChoicePressed
      BY <2>10, <2>4, <2>9 DEF Remembers, ChoicePressed
    <2>. QED
      BY <2>18, <2>19
  <1>. QED
    BY <1>11, <1>12, <1>13

\* The click that follows a release.
LEMMA ClickFollowKeeps ==
    ASSUME TextInv, NEW p \in Pointers, ClickFollows(p)
    PROVE TextInv' /\ ChoicePressed
  <1>1. /\ TextTypes /\ MenusStand /\ HandsStand /\ LinkStaysHome
        /\ hands \in [Pointers -> Hands] /\ lastChoice \in MenuChoices /\ look \in Looks
    BY InvFacts
  <1>2. PICK v : v = World /\ WorldStands(v) /\ v.did = {} /\ v.menus = rangeMenus /\ v.look = look
    BY <1>1, WorldIsThere
  <1>3. PICK el \in Controls : el = hands[p].at
    BY <1>1 DEF Hands
  <1>4. PICK w : w = IF textBar.readOnly THEN v ELSE Clicked(v, el, 1)
    OBVIOUS
  <1>5. Quiet(w, v)
    BY <1>2, <1>4, ClickedIs DEF Quiet, Fewer
  <1>6. PICK h : h = [hands[p] EXCEPT !.stage = "up"]
    OBVIOUS
  <1>7. h \in Hands /\ h.stage = "up" /\ h.done = hands[p].done
    BY <1>1, <1>6 DEF Hands, Stages
  <1>8. PICK c \in Hands : c = Counted(h, w) /\ c.stage = "up" /\ c.done = h.done
    BY <1>2, <1>5, <1>7, CountedIs DEF Quiet
  <1>9. PICK hand : hand = [hands EXCEPT ![p] = c]
    OBVIOUS
  <1>10. Becomes(w, hand) /\ Remembers(pressedNow, Made(w, p))
    BY <1>2, <1>3, <1>4, <1>6, <1>8, <1>9 DEF ClickFollows
  <1>11. hand \in [Pointers -> Hands] /\ hand[p] = c /\ \A q \in Pointers : q # p => hand[q] = hands[q]
    BY <1>1, <1>9
  <1>12. p \in 0..2
    BY DEF Pointers
  <1>13. Made(w, p) = lastChoice
    BY <1>1, <1>2, <1>5, <1>12, MadeIs DEF Quiet
  <1>14. Becomes(w, hand) /\ Remembers(pressedNow, lastChoice)
    BY <1>10, <1>13
  <1>15. WorldStands(w) /\ Fewer(w.menus, rangeMenus) /\ w.look.mark = look.mark
    BY <1>2, <1>5 DEF Quiet
  <1>16. \A q \in Pointers : hand[q].done = hands[q].done /\ (hand[q].stage = "down" => hands[q].stage = "down")
    BY <1>7, <1>8, <1>11
  <1>. QED
    BY <1>11, <1>14, <1>15, <1>16, QuietKeeps

\* A pointer is cancelled or leaves.
LEMMA PointerEndKeeps ==
    ASSUME TextInv, NEW p \in Pointers, PointerEnds(p)
    PROVE TextInv' /\ ChoicePressed
  <1>1. /\ TextTypes /\ MenusStand /\ HandsStand /\ LinkStaysHome
        /\ hands \in [Pointers -> Hands] /\ lastChoice \in MenuChoices /\ look \in Looks
    BY InvFacts
  <1>2. PICK v : v = World /\ WorldStands(v) /\ v.did = {} /\ v.menus = rangeMenus /\ v.look = look
    BY <1>1, WorldIsThere
  <1>3. PICK el \in Controls : el = hands[p].at
    BY <1>1 DEF Hands
  <1>4. PICK key \in BOOLEAN : key = FALSE
    OBVIOUS
  <1>5. PICK w : w = IF hands[p].stage = "down" /\ There(textBar, el) /\ ~textBar.readOnly
                     THEN Cleared(v, el, key) ELSE v
    OBVIOUS
  <1>6. Quiet(w, v)
    BY <1>2, <1>5, ClearedWorldIs DEF Quiet, Fewer
  <1>7. PICK h : h = [hands[p] EXCEPT !.stage = "up"]
    OBVIOUS
  <1>8. h \in Hands /\ h.stage = "up" /\ h.done = hands[p].done
    BY <1>1, <1>7 DEF Hands, Stages
  <1>9. PICK hand : hand = [hands EXCEPT ![p] = h]
    OBVIOUS
  <1>10. w = IF hands[p].stage = "down" /\ There(textBar, hands[p].at) /\ ~textBar.readOnly
             THEN Cleared(World, hands[p].at, FALSE) ELSE World
    BY <1>2, <1>3, <1>4, <1>5, Zenon
  <1>11. Becomes(w, hand) /\ Remembers(pressedNow, lastChoice)
    <2>1. hand = [hands EXCEPT ![p] = [@ EXCEPT !.stage = "up"]]
      BY <1>7, <1>9
    <2>. QED
      BY <1>10, <2>1, Zenon DEF PointerEnds
  <1>12. hand \in [Pointers -> Hands] /\ hand[p] = h /\ \A q \in Pointers : q # p => hand[q] = hands[q]
    BY <1>1, <1>8, <1>9
  <1>13. WorldStands(w) /\ Fewer(w.menus, rangeMenus) /\ w.look.mark = look.mark
    BY <1>2, <1>6 DEF Quiet
  <1>14. \A q \in Pointers : hand[q].done = hands[q].done /\ (hand[q].stage = "down" => hands[q].stage = "down")
    BY <1>8, <1>12
  <1>. QED
    BY <1>11, <1>12, <1>13, <1>14, QuietKeeps

\* A control is activated by a key, or clicked by a program.
LEMMA ActivateKeeps ==
    ASSUME TextInv, NEW el \in Controls, NEW key \in BOOLEAN, Activate(el, key)
    PROVE TextInv' /\ ChoicePressed
  <1>1. /\ TextTypes /\ MenusStand /\ HandsStand /\ LinkStaysHome
        /\ hands \in [Pointers -> Hands] /\ lastChoice \in MenuChoices /\ look \in Looks
    BY InvFacts
  <1>2. PICK v : v = World /\ WorldStands(v) /\ v.did = {} /\ v.menus = rangeMenus /\ v.look = look
    BY <1>1, WorldIsThere
  <1>3. PICK yes \in BOOLEAN : yes = TRUE
    OBVIOUS
  <1>4. PICK u : u = IF key THEN Cleared(v, el, yes) ELSE v
    OBVIOUS
  <1>5. Quiet(u, v)
    BY <1>2, <1>4, ClearedWorldIs DEF Quiet, Fewer
  <1>6. PICK w : w = Clicked(u, el, 0)
    OBVIOUS
  <1>7. u = IF key THEN Cleared(World, el, TRUE) ELSE World
    BY <1>2, <1>3, <1>4, Zenon
  <1>8. Becomes(Acts(w), hands) /\ Remembers(pressedNow, Made(w, 0))
    BY <1>6, <1>7, Zenon DEF Activate
  <1>9. WorldStands(u) /\ u.did = {} /\ Fewer(u.menus, rangeMenus) /\ u.look = look
    BY <1>2, <1>5 DEF Quiet
  <1>10. PICK zero \in {0, 1} : zero = 0
    OBVIOUS
  <1>11. \/ Quiet(w, u)
         \/ WorldStands(w) /\ Fewer(w.menus, u.menus) /\ w.did = BoldDid /\ w.look.mark = u.look.mark
         \/ el.menu \in Menus /\ el.value \in OptionsOf(el.menu) /\ Chose(w, u, el.menu, el.value)
    BY <1>6, <1>9, <1>10, ClickedIs
  <1>12. PICK n : n = Acts(w)
    OBVIOUS
  <1>13. WorldStands(w) /\ Fewer(w.menus, u.menus)
    BY <1>11 DEF Quiet, Chose
  <1>14. WorldStands(n) /\ n.menus = w.menus /\ n.look = w.look
    BY <1>12, <1>13, ActsFits
  <1>15. Fewer(n.menus, rangeMenus)
    BY <1>9, <1>13, <1>14, FewerThrough
  <1>16. Becomes(n, hands) /\ Remembers(pressedNow, Made(w, 0))
    BY <1>8, <1>12
  <1>17. PICK choice \in MenuChoices :
            /\ choice = Made(w, 0) /\ (choice.n # lastChoice.n => choice.by = 0)
            /\ choice.menu \in Menus => ShowsChoice(n.look.mark, choice.menu, choice.value)
    <2>1. CASE Quiet(w, u)
      BY <1>9, <1>14, <2>1, <1>1, MadeIs, InvFacts DEF Quiet
    <2>2. CASE w.did = BoldDid
      <3>1. PICK d : d = [menu |-> NoMenu, value |-> 0]
        OBVIOUS
      <3>2. d \in Dids /\ w.did = {d} /\ d.menu \notin Menus
        BY <2>2, <3>1, BoldIsDid
      <3>3. Made(w, 0) \in MenuChoices /\ Made(w, 0).menu = d.menu /\ Made(w, 0).by = 0
        BY <1>1, <3>2, MadeIs
      <3>. QED
        BY <3>2, <3>3
    <2>3. CASE el.menu \in Menus /\ el.value \in OptionsOf(el.menu) /\ Chose(w, u, el.menu, el.value)
      <3>1. PICK d : d = [menu |-> el.menu, value |-> el.value]
        OBVIOUS
      <3>2. d \in Dids /\ d.menu = el.menu /\ d.value = el.value
        BY <2>3, <3>1, OptionFacts DEF Dids
      <3>3. w.did = {d} /\ ShowsChoice(w.look.mark, el.menu, el.value)
        BY <2>3, <3>1 DEF Chose
      <3>4. Made(w, 0) \in MenuChoices /\ Made(w, 0).menu = el.menu /\ Made(w, 0).value = el.value /\ Made(w, 0).by = 0
        BY <1>1, <3>2, <3>3, MadeIs
      <3>. QED
        BY <1>14, <3>3, <3>4
    <2>. QED
      BY <1>11, <2>1, <2>2, <2>3
  <1>18. Becomes(n, hands) /\ Remembers(pressedNow, choice)
    BY <1>16, <1>17
  <1>19. \A k \in Menus : \A b \in n.menus[k].armed : <<b.pointer, b.value>> \in pressedNow[k]
    BY <1>15, InvFacts DEF Fewer
  <1>20. \A q \in Pointers : hands[q].stage = "down" /\ hands[q].done = 1 =>
                \/ n.bar.open = NoMenu
                \/ \A k \in Menus : \A b \in n.menus[k].armed : b.pointer # q
    BY <1>15, InvFacts DEF Fewer
  <1>21. \A q \in Pointers : hands[q].done <= 1
    BY InvFacts
  <1>22. TextInv'
    BY <1>1, <1>14, <1>17, <1>18, <1>19, <1>20, <1>21, TextStandsOn
  <1>23. ChoicePressed
    BY <1>18, <1>17 DEF Remembers, ChoicePressed
  <1>. QED
    BY <1>22, <1>23

\* The state after a handler that makes no choice and moves no pointer; the choice that

\* was made last is forgotten where the look changes.
LEMMA StillKeeps ==
    ASSUME TextInv, NEW w, WorldStands(w), Fewer(w.menus, rangeMenus), NEW choice \in MenuChoices,
           choice.n = lastChoice.n, choice.menu \in Menus => choice = lastChoice /\ w.look.mark = look.mark,
           Becomes(w, hands), Remembers(pressedNow, choice)
    PROVE TextInv' /\ ChoicePressed
  <1>1. /\ TextTypes /\ hands \in [Pointers -> Hands]
        /\ \A m \in Menus : \A a \in w.menus[m].armed : <<a.pointer, a.value>> \in pressedNow[m]
        /\ choice.menu \in Menus => ShowsChoice(w.look.mark, choice.menu, choice.value)
    BY InvFacts DEF Fewer
  <1>2. \A p \in Pointers : hands[p].done <= 1
    BY InvFacts
  <1>3. \A p \in Pointers : hands[p].stage = "down" /\ hands[p].done = 1 =>
                \/ w.bar.open = NoMenu
                \/ \A m \in Menus : \A a \in w.menus[m].armed : a.pointer # p
    BY InvFacts DEF Fewer
  <1>4. TextInv'
    BY <1>1, <1>2, <1>3, TextStandsOn
  <1>5. lastChoice' = choice
    BY DEF Remembers
  <1>. QED
    BY <1>4, <1>5 DEF ChoicePressed

\* The timer of a menu that was activated closes it.
LEMMA CloseInTimeKeeps ==
    ASSUME TextInv, NEW m \in Menus, CloseInTime(m)
    PROVE TextInv' /\ ChoicePressed
  <1>1. /\ TextTypes /\ MenusStand /\ LinkStaysHome /\ lastChoice \in MenuChoices
    BY InvFacts
  <1>2. PICK v : v = World /\ WorldStands(v) /\ v.menus = rangeMenus /\ v.look = look
    BY <1>1, WorldIsThere
  <1>3. PICK u : u = WithMenu(v, m, IdleMenu)
    OBVIOUS
  <1>4. WorldStands(u) /\ u.look = v.look /\ Fewer(u.menus, v.menus)
    BY <1>2, <1>3, PutIdle
  <1>5. PICK w : w = Close(u, m)
    OBVIOUS
  <1>6. WorldStands(w) /\ w.menus = u.menus /\ w.look = u.look
    BY <1>4, <1>5, CloseFits
  <1>7. Becomes(w, hands) /\ Remembers(pressedNow, lastChoice)
    BY <1>2, <1>3, <1>5 DEF CloseInTime, WithMenu
  <1>8. Fewer(w.menus, rangeMenus) /\ w.look.mark = look.mark
    BY <1>2, <1>4, <1>6
  <1>. QED
    BY <1>1, <1>6, <1>7, <1>8, StillKeeps

\* A world over another bar, of another look, or both.
InBar(w, b) == [w EXCEPT !.bar = b]

\* A world with another look.
InLook(w, l) == [w EXCEPT !.look = l]

\* A world with another look and another bar.
WithLookAndBar(w, l, b) == [w EXCEPT !.look = l, !.bar = b]

\* Another bar or another look leaves the menus alone.
LEMMA WorldTurns ==
    ASSUME NEW w, WorldStands(w), NEW b \in Bars, LinkFits(b), NEW l \in Looks
    PROVE /\ LET n == InBar(w, b) IN WorldStands(n) /\ n.menus = w.menus /\ n.look = w.look
          /\ LET n == InLook(w, l) IN WorldStands(n) /\ n.menus = w.menus /\ n.look = l
          /\ LET n == WithLookAndBar(w, l, b) IN WorldStands(n) /\ n.menus = w.menus /\ n.look = l
BY DEF WorldStands, Worlds, InBar, InLook, WithLookAndBar

\* A step in the panel of a link: it chooses nothing.
LEMMA LinkStepKeeps ==
    ASSUME TextInv, NEW w, WorldStands(w), w.menus = rangeMenus, w.look.mark = look.mark, LinkStep(w)
    PROVE TextInv' /\ ChoicePressed
BY ActsFits, InvFacts, StillKeeps DEF LinkStep, Fewer

\* What the handlers of a link make of the menu and the look.
LEMMA LinkTurns ==
    ASSUME TextInv, NEW b \in Bars, LinkFits(b), NEW l \in Looks, l.mark = look.mark,
           NEW w \in {InBar(World, b), InLook(World, l), WithLookAndBar(World, l, b)}, LinkStep(w)
    PROVE TextInv' /\ ChoicePressed
BY InvFacts, WorldIsThere, WorldTurns, LinkStepKeeps

\* The panel of a link is opened, typed in, submitted, or removes its link.
LEMMA LinksKeep ==
    ASSUME TextInv, ToggleLink \/ TypeLink \/ SubmitLink \/ RemoveLink
    PROVE TextInv' /\ ChoicePressed
  <1>0. textBar \in Bars /\ look \in Looks /\ LinkStaysHome /\ World.bar = textBar /\ World.look = look
    BY InvFacts, WorldIsThere
  <1>1. LinkFits(textBar) /\ textBar.linkOpen \in BOOLEAN /\ textBar.linkValue \in {"none", "safe", "unsafe"}
        /\ textBar.selection \in Nat /\ look.link \in {"none", "safe"}
    BY <1>0, BarFields DEF LinkFits, LinkStaysHome, Looks
  <1>2. ASSUME ToggleLink PROVE TextInv' /\ ChoicePressed
    <2>1. PICK open \in BOOLEAN : open = ~textBar.linkOpen
      OBVIOUS
    <2>2. PICK value \in {"none", "safe", "unsafe"} : value = IF textBar.linkOpen THEN textBar.linkValue ELSE look.link
      BY <1>1
    <2>3. PICK b : b = [textBar EXCEPT !.linkOpen = open, !.linkValue = value, !.linkError = FALSE,
                                       !.linkFor = textBar.selection]
      OBVIOUS
    <2>4. b \in Bars /\ LinkFits(b)
      BY <1>0, <1>1, <2>3 DEF Bars, LinkFits
    <2>5. LinkStep(InBar(World, b))
      BY <1>0, <1>2, <2>1, <2>2, <2>3 DEF ToggleLink, InBar
    <2>. QED
      BY <1>0, <2>4, <2>5, LinkTurns
  <1>3. ASSUME TypeLink PROVE TextInv' /\ ChoicePressed
    BY <1>3, <1>0, <1>1, LinkTurns DEF TypeLink, Bars, LinkFits, Over, InBar
  <1>4. ASSUME SubmitLink PROVE TextInv' /\ ChoicePressed
    <2>1. PICK l : l = [look EXCEPT !.link = "safe"]
      OBVIOUS
    <2>2. PICK b : b = [textBar EXCEPT !.linkOpen = FALSE, !.linkError = FALSE]
      OBVIOUS
    <2>3. PICK c : c = [textBar EXCEPT !.linkError = TRUE]
      OBVIOUS
    <2>4. l \in Looks /\ l.mark = look.mark
      BY <1>0, <2>1 DEF Looks
    <2>5. b \in Bars /\ LinkFits(b)
      BY <1>0, <1>1, <2>2 DEF Bars, LinkFits
    <2>6. c \in Bars /\ LinkFits(c)
      BY <1>0, <1>1, <2>3 DEF Bars, LinkFits, Over
    <2>7. LinkStep(WithLookAndBar(World, l, b)) \/ LinkStep(InBar(World, c))
      BY <1>0, <1>4, <2>1, <2>2, <2>3 DEF SubmitLink, WithLookAndBar, InBar
    <2>. QED
      BY <1>0, <2>4, <2>5, <2>6, <2>7, LinkTurns
  <1>5. ASSUME RemoveLink PROVE TextInv' /\ ChoicePressed
    BY <1>0, <1>5, <1>1, LinkTurns DEF Looks, RemoveLink, InLook
  <1>. QED
    BY <1>2, <1>3, <1>4, <1>5

\* The choice of a text that is left is forgotten.
LEMMA ForgottenChoice ==
    ASSUME lastChoice \in MenuChoices
    PROVE LET c == [lastChoice EXCEPT !.menu = NoMenu]
          IN  c \in MenuChoices /\ c.n = lastChoice.n /\ c.menu \notin Menus
BY DEF MenuChoices, NoMenu, Menus

\* The marks of the range are cleared.
LEMMA ClearMarksKeeps ==
    ASSUME TextInv, ClearMarks
    PROVE TextInv' /\ ChoicePressed
  <1>0. World.bar = textBar /\ textBar \in Bars /\ WorldStands(World) /\ World.menus = rangeMenus
        /\ lastChoice \in MenuChoices
    BY InvFacts, WorldIsThere
  <1>1. PICK l : l = [mark |-> PlainMark, bold |-> FALSE, link |-> "none"]
    OBVIOUS
  <1>2. l \in Looks
    BY <1>1 DEF Looks, Marks, PlainMark
  <1>3. PICK w : w = InLook(World, l)
    OBVIOUS
  <1>4. PICK b \in Bars : b = textBar /\ LinkFits(b)
    BY InvFacts DEF LinkFits, LinkStaysHome
  <1>5. WorldStands(w) /\ w.menus = rangeMenus
    BY <1>0, <1>2, <1>3, <1>4, WorldTurns
  <1>6. PICK n : n = Acts(w)
    OBVIOUS
  <1>7. WorldStands(n) /\ n.menus = w.menus
    BY <1>5, <1>6, ActsFits
  <1>8. PICK choice : choice = [lastChoice EXCEPT !.menu = NoMenu]
    OBVIOUS
  <1>9. choice \in MenuChoices /\ choice.n = lastChoice.n /\ choice.menu \notin Menus
    BY <1>0, <1>8, ForgottenChoice
  <1>10. Becomes(n, hands) /\ Remembers(pressedNow, choice)
    BY <1>1, <1>3, <1>6, <1>8 DEF ClearMarks, InLook
  <1>11. Fewer(n.menus, rangeMenus)
    BY <1>5, <1>7 DEF Fewer
  <1>. QED
    BY <1>7, <1>9, <1>10, <1>11, StillKeeps

\* The bar changes beneath its menus.
LEMMA BeneathKeeps ==
    ASSUME TextInv, NEW b \in Bars, b.linkOpen = textBar.linkOpen, b.linkFor = textBar.linkFor,
           b.selection = textBar.selection, NEW l \in Looks, Beneath(b, l)
    PROVE TextInv' /\ ChoicePressed
  <1>0. WorldStands(World) /\ World.menus = rangeMenus /\ lastChoice \in MenuChoices /\ LinkStaysHome
    BY InvFacts, WorldIsThere
  <1>1. b.changes \in Nat /\ b.selection \in Nat
    BY BarFields
  <1>2. PICK changes \in Nat : changes = b.changes + 1
    BY <1>1
  <1>3. PICK selection \in Nat : selection = IF Over(b) = Over(textBar) THEN b.selection ELSE b.selection + 1
    BY <1>1
  <1>4. PICK c : c = [b EXCEPT !.changes = changes, !.selection = selection]
    OBVIOUS
  <1>5. /\ c \in Bars /\ c.editor = b.editor /\ c.readOnly = b.readOnly /\ c.range = b.range
        /\ c.linkOpen = b.linkOpen /\ c.linkFor = b.linkFor /\ c.selection = selection
    BY <1>4 DEF Bars
  <1>6. LinkFits(c)
    BY <1>5, <1>0, <1>3 DEF Over, LinkFits, LinkStaysHome
  <1>7. PICK w : w = WithLookAndBar(World, l, c)
    OBVIOUS
  <1>8. WorldStands(w) /\ w.menus = rangeMenus /\ w.look = l
    BY <1>0, <1>5, <1>6, <1>7, WorldTurns
  <1>9. PICK choice : choice = IF l = look THEN lastChoice ELSE [lastChoice EXCEPT !.menu = NoMenu]
    OBVIOUS
  <1>10. choice \in MenuChoices /\ choice.n = lastChoice.n
         /\ (choice.menu \in Menus => choice = lastChoice /\ w.look.mark = look.mark)
    <2>1. CASE l = look
      BY <1>0, <1>8, <1>9, <2>1
    <2>2. CASE l # look
      BY <1>9, <2>2, <1>0, ForgottenChoice
    <2>. QED
      BY <2>1, <2>2
  <1>11. Becomes(w, hands) /\ Remembers(pressedNow, choice)
    BY <1>2, <1>3, <1>4, <1>7, <1>9 DEF WithLookAndBar, Beneath
  <1>12. Fewer(w.menus, rangeMenus)
    BY <1>8 DEF Fewer
  <1>. QED
    BY <1>8, <1>10, <1>11, <1>12, StillKeeps

\* The menus have a first choice.
LEMMA FirstChoices ==
    (CHOOSE f \in FontChoices : TRUE) \in FontChoices /\ (CHOOSE n \in SizeChoices : TRUE) \in 0..16
  <1>1. (CHOOSE f \in FontChoices : TRUE) \in FontChoices
    BY RichTextAssumption
  <1>2. PICK n : n = (CHOOSE k \in SizeChoices : TRUE) /\ n \in SizeChoices
    BY RichTextAssumption
  <1>3. n \in 1..16
    BY <1>2, RichTextAssumption
  <1>4. n \in 0..16
    BY <1>3
  <1>. QED
    BY <1>1, <1>2, <1>4

\* Another range is selected, the text becomes readonly, or the window is resized.
LEMMA TextChangesKeep ==
    ASSUME TextInv, SelectText \/ ChangePermission \/ ResizeWindow
    PROVE TextInv' /\ ChoicePressed
  <1>0. textBar \in Bars /\ look \in Looks
    BY InvFacts
  <1>1. textBar.range \in BOOLEAN /\ textBar.readOnly \in BOOLEAN /\ textBar.small \in BOOLEAN
    BY <1>0, BarFields
  <1>2. ASSUME SelectText PROVE TextInv' /\ ChoicePressed
    <2>1. PICK e \in Editors, l \in FirstLooks :
              Beneath([textBar EXCEPT !.editor = e, !.range = IF e = textBar.editor THEN ~@ ELSE TRUE], l)
      BY <1>2 DEF SelectText
    <2>2. l \in Looks
      <3>1. (CHOOSE f \in FontChoices : TRUE) \in FontChoices /\ (CHOOSE n \in SizeChoices : TRUE) \in 0..16
        BY FirstChoices
      <3>2. PICK font \in FontChoices, rem \in 0..16 :
                Marked = [mark |-> [font |-> font, rem |-> rem, size |-> "base"], bold |-> TRUE, link |-> "safe"]
        BY <3>1 DEF Marked
      <3>3. Marked \in Looks
        BY <3>2 DEF Marks, Looks
      <3>4. PICK plain : plain = [PlainMark EXCEPT !.size = "large"]
        OBVIOUS
      <3>5. plain \in Marks
        BY <3>4 DEF Marks, PlainMark
      <3>6. [mark |-> plain, bold |-> FALSE, link |-> "none"] \in Looks
        BY <3>5 DEF Looks
      <3>. QED
        BY <3>3, <3>4, <3>6 DEF FirstLooks
    <2>3. PICK range \in BOOLEAN : range = IF e = textBar.editor THEN ~textBar.range ELSE TRUE
      OBVIOUS
    <2>4. PICK b : b = [textBar EXCEPT !.editor = e, !.range = range]
      OBVIOUS
    <2>5. b \in Bars /\ b.linkOpen = textBar.linkOpen /\ b.linkFor = textBar.linkFor
          /\ b.selection = textBar.selection
      BY <1>0, <2>4 DEF Bars
    <2>6. Beneath(b, l)
      BY <2>1, <2>3, <2>4
    <2>. QED
      BY <2>2, <2>5, <2>6, BeneathKeeps
  <1>3. ASSUME ChangePermission PROVE TextInv' /\ ChoicePressed
    BY <1>0, <1>3, BeneathKeeps DEF Bars, ChangePermission
  <1>4. ASSUME ResizeWindow PROVE TextInv' /\ ChoicePressed
    BY <1>0, <1>4, BeneathKeeps DEF Bars, ResizeWindow
  <1>. QED
    BY <1>2, <1>3, <1>4

\* Every step of the inline menu keeps its invariant and chooses what was pressed.
LEMMA TextKept ==
    ASSUME TextInv, RichTextNext
    PROVE TextInv' /\ ChoicePressed
BY PressKeeps, ReleaseKeeps, ClickFollowKeeps, PointerEndKeeps, ActivateKeeps, CloseInTimeKeeps,
   LinksKeep, ClearMarksKeeps, TextChangesKeep DEF RichTextNext

\* A step beside the text.
LEMMA TextRests ==
    ASSUME TextInv, UNCHANGED richTextVars
    PROVE TextInv'
  <1>1. /\ textBar' = textBar /\ rangeMenus' = rangeMenus /\ look' = look /\ hands' = hands
        /\ pressedNow' = pressedNow /\ lastChoice' = lastChoice
    BY DEF richTextVars
  <1>2. TextTypes' /\ MenusStand' /\ HandsStand' /\ LinkStaysHome' /\ ChoiceIsShown'
    BY <1>1 DEF TextInv, TextTypes, MenusTyped, MenusStand, HandsStand, LinkStaysHome,
       ChoiceIsShown, ShownIn, ShownMark
  <1>. QED
    BY <1>2 DEF TextInv

\* The bar starts with nothing pressed and nothing open.
LEMMA TextStarts ==
    ASSUME RichTextInit
    PROVE TextInv
  <1>1. (CHOOSE e \in Editors : TRUE) \in Editors
    BY RichTextAssumption
  <1>2. PICK e \in Editors : textBar = [editor |-> e, readOnly |-> FALSE, range |-> TRUE, small |-> FALSE,
                  selection |-> 0, changes |-> 0, open |-> NoMenu, advanced |-> FALSE, moreSuppress |-> FALSE,
                  boldSuppress |-> FALSE, linkOpen |-> FALSE, linkValue |-> "none", linkError |-> FALSE,
                  linkFor |-> 0, acts |-> 0]
    BY <1>1 DEF RichTextInit
  <1>3. textBar \in Bars /\ ~textBar.linkOpen
    BY <1>2 DEF Bars
  <1>4. rangeMenus \in [Menus -> MenuStates] /\ \A m \in Menus : rangeMenus[m] = IdleMenu
    BY IdleFits DEF RichTextInit
  <1>5. MenusTyped(rangeMenus) /\ \A m \in Menus : rangeMenus[m].armed = {} /\ rangeMenus[m].closing = FALSE
    BY <1>4, IdleFits DEF MenusTyped
  <1>6. look \in Looks
    BY FirstChoices DEF Marked, RichTextInit, Marks, Looks
  <1>7. hands \in [Pointers -> Hands] /\ \A p \in Pointers : hands[p].done = 0 /\ hands[p].stage = "up"
    BY DEF Hands, Stages, Controls, RichTextInit
  <1>8. DOMAIN pressedNow = Menus
    BY DEF RichTextInit
  <1>9. lastChoice \in MenuChoices /\ lastChoice.menu \notin Menus
    BY DEF RichTextInit, MenuChoices, NoMenu, Menus
  <1>10. TextTypes
    BY <1>3, <1>5, <1>6, <1>7, <1>8, <1>9 DEF TextTypes, MenuChoices
  <1>11. MenusStand /\ HandsStand /\ LinkStaysHome /\ ChoiceIsShown
    BY <1>3, <1>5, <1>7, <1>9 DEF MenusStand, HandsStand, LinkStaysHome, ChoiceIsShown
  <1>. QED
    BY <1>10, <1>11 DEF TextInv

\* What the invariant says of the inline menu.
LEMMA TextIsRight ==
    ASSUME TextInv
    PROVE RichTextTypeOK /\ OneChoiceAPress /\ LateCloseIsAimed /\ ChoiceIsShown /\ LinkStaysHome
  <1>1. TextTypes /\ MenusStand /\ HandsStand /\ LinkStaysHome /\ ChoiceIsShown
    BY DEF TextInv
  <1>2. OneChoiceAPress /\ LateCloseIsAimed
    BY <1>1 DEF MenusStand, HandsStand, OneChoiceAPress, LateCloseIsAimed
  <1>3. /\ textBar.open \in Menus \cup {NoMenu} /\ textBar.editor \in Editors
        /\ textBar.linkValue \in {"none", "safe", "unsafe"}
    BY <1>1, BarFields DEF TextTypes
  <1>4. look.mark \in Marks /\ look.link \in {"none", "safe"}
    BY <1>1 DEF TextTypes, Looks
  <1>5. \A m \in Menus : rangeMenus[m].armed \subseteq [pointer : Pointers, value : OptionsOf(m)]
    BY <1>1 DEF TextTypes, MenusTyped, Arms
  <1>6. \A p \in Pointers : hands[p].stage \in {"up", "down", "click"} /\ hands[p].at \in Controls
    BY <1>1 DEF TextTypes, Hands, Stages
  <1>. QED
    BY <1>1, <1>2, <1>3, <1>4, <1>5, <1>6 DEF RichTextTypeOK
-----------------------------------------------------------------------------
(***************************************************************************)
(* The layer that floats. The frames that were counted are the last        *)
(* placements, so that three of them are at one place when the layer is    *)
(* shown.                                                                  *)
(***************************************************************************)

\* Where a layer is: by its anchor, with what is free around it.
Places3 == Anchors \X FreeParts \X FreeParts

\* The variables have their types.
LayerTypes ==
    /\ ground \in [place : Anchors, free : FreeParts, reports : BOOLEAN, moves : Nat]
    /\ layer \in [limits : FreeParts, known : Places3, placed : Places3, pending : Places3 \cup {<< >>},
                  frames : 0..StableFrames, shown : BOOLEAN, scheduled : BOOLEAN]
    /\ placements \in Seq(Places3) /\ Len(placements) \in 1..StableFrames

\* The frames that were counted are the last placements.
FramesCount ==
    /\ layer.frames <= Len(placements)
    /\ \A i \in 1..StableFrames :
          i <= Len(placements) /\ Len(placements) - i < layer.frames => placements[i] = layer.pending

\* A layer is shown exactly when no frame is due, and then it is where its anchor was last.
LayerStands ==
    /\ layer.shown => layer.placed = layer.known
    /\ layer.shown <=> ~layer.scheduled
    /\ layer.frames < StableFrames \/ layer.shown
    /\ layer.shown => layer.placed = Geometry(ground, layer.limits) \/ ground.reports

\* The inductive invariant of the layer.
LayerInv == LayerTypes /\ FramesCount /\ LayerStands

\* The layer starts hidden, with a frame due.
LEMMA LayerStarts == FloatingInit => LayerInv
<1> SUFFICES ASSUME FloatingInit PROVE LayerInv
  OBVIOUS
<1>1. (CHOOSE p \in Anchors : TRUE) \in Anchors /\ (CHOOSE f \in FreeParts : TRUE) \in FreeParts
  BY FloatingAssumption
<1>2. PICK p \in Anchors, f \in FreeParts :
        ground = [place |-> p, free |-> f, reports |-> TRUE, moves |-> 0]
  BY <1>1 DEF FloatingInit
<1> DEFINE g == <<p, f, f>>
<1>3. g \in Places3
  BY DEF Places3
<1>4. /\ layer = [limits |-> f, known |-> g, placed |-> g, pending |-> g, frames |-> 1,
                  shown |-> FALSE, scheduled |-> TRUE]
      /\ placements = <<g>>
  <2>1. ground.free = f /\ ground.place = p /\ Geometry(ground, f) = g
    BY <1>2 DEF Geometry
  <2> HIDE DEF g
  <2>2. QED
    BY <2>1 DEF FloatingInit
<1>5. placements \in Seq(Places3) /\ Len(placements) = 1 /\ placements[1] = g
  BY <1>3, <1>4
<1> HIDE DEF g
<1>6. LayerTypes
  BY <1>2, <1>3, <1>4, <1>5 DEF LayerTypes, StableFrames
<1>7. FramesCount
  BY <1>4, <1>5 DEF FramesCount, StableFrames
<1>8. LayerStands
  BY <1>4 DEF LayerStands, StableFrames
<1>9. QED
  BY <1>6, <1>7, <1>8 DEF LayerInv

\* An observer reports: a layer that moved is hidden.
LEMMA ReportKeeps == LayerInv /\ Report => LayerInv'
<1> SUFFICES ASSUME LayerInv, Report PROVE LayerInv'
  OBVIOUS
<1> DEFINE g == Geometry(ground, layer.limits)
<1>1. g \in Places3
  BY DEF LayerInv, LayerTypes, Places3, Geometry
<1>2. ground' = [ground EXCEPT !.reports = FALSE] /\ placements' = placements
  BY DEF Report
<1>3. g = Geometry(ground', layer.limits)
  BY <1>2 DEF Geometry, LayerInv, LayerTypes
<1>4. CASE HasMoved(g)
  <2>1. layer' = [layer EXCEPT !.known = g, !.shown = FALSE, !.pending = << >>, !.frames = 0, !.scheduled = TRUE]
    BY <1>4 DEF Report
  <2> HIDE DEF g
  <2>a. ground' \in [place : Anchors, free : FreeParts, reports : BOOLEAN, moves : Nat]
    BY <1>2 DEF LayerInv, LayerTypes
  <2>b. layer' \in [limits : FreeParts, known : Places3, placed : Places3, pending : Places3 \cup {<< >>},
                    frames : 0..StableFrames, shown : BOOLEAN, scheduled : BOOLEAN]
    <3>1. PICK none \in Places3 \cup {<< >>} : none = << >>
      OBVIOUS
    <3>2. 0 \in 0..StableFrames
      BY DEF StableFrames
    <3>3. layer' = [layer EXCEPT !.known = g, !.shown = FALSE, !.pending = none, !.frames = 0, !.scheduled = TRUE]
      BY <2>1, <3>1
    <3>4. QED
      BY <1>1, <3>2, <3>3 DEF LayerInv, LayerTypes
  <2>2. LayerTypes'
    BY <1>2, <2>a, <2>b DEF LayerInv, LayerTypes
  <2>3. FramesCount'
    BY <1>2, <2>1 DEF LayerInv, LayerTypes, FramesCount, StableFrames
  <2>4. LayerStands'
    BY <2>1 DEF LayerInv, LayerTypes, LayerStands, StableFrames
  <2>5. QED
    BY <2>2, <2>3, <2>4 DEF LayerInv
<1>5. CASE ~HasMoved(g)
  BY <1>5, <1>2, <1>3 DEF Report, HasMoved, LayerInv, LayerTypes, FramesCount, LayerStands
<1>6. QED
  BY <1>4, <1>5

\* Where a frame leaves the placements.
LEMMA PlacementsAfter ==
    ASSUME NEW S, NEW s \in Seq(S), NEW e \in S, Len(s) \in 1..StableFrames,
           NEW t, t = Append(IF Len(s) < StableFrames THEN s ELSE Tail(s), e)
    PROVE  /\ t \in Seq(S)
           /\ Len(s) < StableFrames => Len(t) = Len(s) + 1 /\ \A i \in 1 .. Len(s) : t[i] = s[i]
           /\ Len(s) = StableFrames => Len(t) = StableFrames /\ \A i \in 1 .. StableFrames - 1 : t[i] = s[i + 1]
           /\ t[Len(t)] = e
<1>1. CASE Len(s) < StableFrames
  BY <1>1, AppendProperties DEF StableFrames
<1>2. CASE Len(s) = StableFrames
  <2>1. s # << >>
    BY <1>2, EmptySeq DEF StableFrames
  <2>2. /\ Tail(s) \in Seq(S) /\ Len(Tail(s)) = Len(s) - 1
        /\ \A i \in 1 .. Len(Tail(s)) : Tail(s)[i] = s[i + 1]
    BY <2>1, HeadTailProperties
  <2>3. PICK r \in Seq(S) : r = Tail(s) /\ Len(r) = Len(s) - 1 /\ \A i \in 1 .. Len(r) : r[i] = s[i + 1]
    BY <2>2
  <2>4. t = Append(r, e)
    BY <1>2, <2>3 DEF StableFrames
  <2>5. Len(r) = 2 /\ \A i \in 1 .. 2 : r[i] = s[i + 1]
    <3>1. Len(s) = 3
      BY <1>2 DEF StableFrames
    <3>2. Len(r) = 2
      BY <2>3, <3>1
    <3>3. QED
      BY <2>3, <3>2
  <2>6. t \in Seq(S) /\ Len(t) = 3 /\ t[3] = e
    <3>1. t \in Seq(S) /\ Len(t) = Len(r) + 1 /\ t[Len(r) + 1] = e
      BY <2>4, AppendProperties
    <3>2. QED
      BY <2>5, <3>1
  <2>7. \A i \in 1 .. 2 : t[i] = r[i]
    BY <2>4, <2>5, AppendProperties
  <2>8. Len(s) = 3 /\ StableFrames = 3
    BY <1>2 DEF StableFrames
  <2>9. \A i \in 1 .. 2 : t[i] = s[i + 1]
    BY <2>5, <2>7
  <2>10. 3 - 1 = 2 /\ ~(3 < 3)
    OBVIOUS
  <2>11. /\ ~(Len(s) < StableFrames)
         /\ Len(t) = StableFrames
         /\ \A i \in 1 .. StableFrames - 1 : t[i] = s[i + 1]
         /\ t[Len(t)] = e
    BY <2>6, <2>8, <2>9, <2>10
  <2>12. QED
    BY <2>6, <2>11
<1>3. QED
  BY <1>1, <1>2 DEF StableFrames

\* A frame: three at one place show the layer.
LEMMA FrameKeeps ==
    LayerInv /\ Frame =>
        /\ LayerInv'
        /\ layer'.shown => /\ Len(placements') = StableFrames
                           /\ \A i \in 1..StableFrames : placements'[i] = layer'.placed
<1> SUFFICES ASSUME LayerInv, Frame
             PROVE  /\ LayerInv'
                    /\ layer'.shown => /\ Len(placements') = StableFrames
                                       /\ \A i \in 1..StableFrames : placements'[i] = layer'.placed
  OBVIOUS
<1>1. LayerTypes /\ FramesCount /\ LayerStands
  BY DEF LayerInv
<1>2. PICK place \in Places3 : place = Geometry(ground, ground.free)
  BY <1>1 DEF LayerTypes, Places3, Geometry
<1>3. layer.scheduled
  BY DEF Frame
<1>4. ~layer.shown /\ layer.frames \in 0 .. 2
  BY <1>1, <1>3 DEF LayerStands, LayerTypes, StableFrames
<1>5. PICK frames \in 1 .. 3 : frames = EqualFrames(place)
  BY <1>4 DEF EqualFrames
<1>6. frames # 1 => layer.pending = place /\ frames = layer.frames + 1
  BY <1>5, <1>4 DEF EqualFrames
<1>7. /\ layer' = [limits |-> ground.free, known |-> place, placed |-> place, pending |-> place,
                   frames |-> frames, shown |-> layer.shown \/ frames >= StableFrames,
                   scheduled |-> ~(layer.shown \/ frames >= StableFrames)]
      /\ ground' = [ground EXCEPT !.reports = @ \/ layer.limits # ground.free]
      /\ placements' = Append(IF Len(placements) < StableFrames THEN placements ELSE Tail(placements), place)
  BY <1>2, <1>5 DEF Frame
<1>8. PICK full \in BOOLEAN : full <=> frames = 3
  OBVIOUS
<1>9. layer' = [limits |-> ground.free, known |-> place, placed |-> place, pending |-> place,
               frames |-> frames, shown |-> full, scheduled |-> ~full]
  BY <1>4, <1>8, <1>7 DEF StableFrames
<1>10. /\ placements' \in Seq(Places3)
       /\ Len(placements) < StableFrames =>
             Len(placements') = Len(placements) + 1 /\ \A i \in 1 .. Len(placements) : placements'[i] = placements[i]
       /\ Len(placements) = StableFrames =>
             Len(placements') = StableFrames /\ \A i \in 1 .. StableFrames - 1 : placements'[i] = placements[i + 1]
       /\ placements'[Len(placements')] = place
  BY <1>1, <1>7, PlacementsAfter DEF LayerTypes
<1>11. PICK n \in 1 .. 3, m \in 1 .. 3 :
         n = Len(placements) /\ m = Len(placements') /\ m = IF n < 3 THEN n + 1 ELSE 3
  <2>1. Len(placements) \in 1 .. 3
    BY <1>1 DEF LayerTypes, StableFrames
  <2>2. PICK n \in 1 .. 3 : n = Len(placements)
    BY <2>1
  <2>3. CASE n < 3
    BY <1>10, <2>2, <2>3 DEF StableFrames
  <2>4. CASE n = 3
    BY <1>10, <2>2, <2>4 DEF StableFrames
  <2>5. QED
    BY <2>3, <2>4
<1>12. /\ n < 3 => \A i \in 1 .. n : placements'[i] = placements[i]
       /\ n = 3 => \A i \in 1 .. 2 : placements'[i] = placements[i + 1]
       /\ placements'[m] = place
  BY <1>10, <1>11 DEF StableFrames
<1>13. LayerTypes'
  <2>1. ground' \in [place : Anchors, free : FreeParts, reports : BOOLEAN, moves : Nat]
    BY <1>1, <1>7 DEF LayerTypes
  <2>2. layer' \in [limits : FreeParts, known : Places3, placed : Places3, pending : Places3 \cup {<< >>},
                    frames : 0..StableFrames, shown : BOOLEAN, scheduled : BOOLEAN]
    BY <1>1, <1>9 DEF LayerTypes, StableFrames
  <2>3. placements' \in Seq(Places3) /\ Len(placements') \in 1..StableFrames
    BY <1>10, <1>11 DEF StableFrames
  <2>4. QED
    BY <2>1, <2>2, <2>3 DEF LayerTypes
<1>14. layer'.frames = frames /\ layer'.pending = place /\ layer'.placed = place /\ layer'.known = place
       /\ layer'.limits = ground.free /\ layer'.shown = full /\ layer'.scheduled = ~full
  BY <1>9
<1>15. layer.frames <= n /\ \A i \in 1..3 : i <= n /\ n - i < layer.frames => placements[i] = layer.pending
  BY <1>1, <1>11 DEF FramesCount, StableFrames
<1>16. frames <= m
  BY <1>4, <1>6, <1>11, <1>15
<1>17. ASSUME NEW i \in 1 .. 3, i <= m, m - i < frames
       PROVE  placements'[i] = place
  <2>1. CASE i = m
    BY <1>12, <2>1
  <2>2. CASE i # m
    <3>1. frames = layer.frames + 1 /\ layer.pending = place
      BY <1>6, <1>17, <2>2
    <3>2. CASE n < 3
      BY <1>4, <1>11, <1>17, <2>2, <3>1, <3>2, <1>15, <1>12
    <3>3. CASE n = 3
      BY <1>4, <1>11, <1>17, <2>2, <3>1, <3>3, <1>15, <1>12
    <3>4. QED
      BY <3>2, <3>3
  <2>3. QED
    BY <2>1, <2>2
<1>18. FramesCount'
  BY <1>11, <1>14, <1>16, <1>17 DEF FramesCount, StableFrames
<1>19. LayerStands'
  BY <1>1, <1>2, <1>7, <1>14, <1>8 DEF Geometry, LayerTypes, StableFrames, LayerStands
<1>20. ASSUME full
       PROVE  Len(placements') = StableFrames /\ \A i \in 1..StableFrames : placements'[i] = layer'.placed
  BY <1>8, <1>16, <1>20, <1>17, <1>11, <1>14 DEF StableFrames
<1>21. QED
  BY <1>13, <1>18, <1>19, <1>20, <1>14 DEF LayerInv

\* The anchor moves, or what is free around it.
LEMMA MoveKeeps == LayerInv /\ Move => LayerInv'
BY DEF Move, LayerInv, LayerTypes, FramesCount, LayerStands

\* Every step keeps the layer sound.
LEMMA LayerKept == LayerInv /\ [FloatingNext]_floatingVars => LayerInv'
BY ReportKeeps, FrameKeeps, MoveKeeps DEF floatingVars, LayerInv, LayerTypes, FramesCount,
   LayerStands, FloatingNext

\* What the invariant says of the layer.
LEMMA LayerIsPlaced == LayerInv => FloatingTypeOK /\ ShownInPlace
BY DEF LayerInv, LayerTypes, Places3, FloatingTypeOK, LayerStands, ShownInPlace

\* A layer is hidden because its place changed, and shown after three frames at one place.
LEMMA LayerMoves ==
    LayerInv /\ [FloatingNext]_floatingVars =>
        /\ layer.shown /\ ~layer'.shown => layer.placed # Geometry(ground, layer.limits)
        /\ ~layer.shown /\ layer'.shown =>
               Len(placements') = StableFrames /\ \A i \in 1..StableFrames : placements'[i] = layer'.placed
<1> SUFFICES ASSUME LayerInv, [FloatingNext]_floatingVars
             PROVE  /\ layer.shown /\ ~layer'.shown => layer.placed # Geometry(ground, layer.limits)
                    /\ ~layer.shown /\ layer'.shown =>
                           /\ Len(placements') = StableFrames
                           /\ \A i \in 1..StableFrames : placements'[i] = layer'.placed
  OBVIOUS
<1>1. CASE Report
  BY <1>1 DEF LayerInv, LayerStands, Report, LayerTypes, HasMoved
<1>2. CASE Frame
  BY <1>2, FrameKeeps DEF Frame, LayerInv, LayerStands
<1>3. CASE Move \/ UNCHANGED floatingVars
  BY <1>3 DEF Move, floatingVars
<1>4. QED
  BY <1>1, <1>2, <1>3 DEF FloatingNext
-----------------------------------------------------------------------------
(***************************************************************************)
(* The library of blocks. The choice in the dialog is the one that was     *)
(* made since it was opened; the place that it names, or the one that      *)
(* follows from the selection, is where an insertion goes.                 *)
(***************************************************************************)

\* The kinds of what the library inserts.
Insertables == {"block", "leaf", "card", "section"}

\* What is on a page.
Things == [id : Nat \ {0}, kind : Insertables, held : Int]

\* A place on a page: a zone and an index in it.
Spots == [zone : Nat, index : Int]

\* What is selected is there, in every state of the history.
Snaps == {snap \in [page : Seq(Things), selected : Spots] :
             snap.selected = Nowhere \/ IsThere(snap.page, snap.selected)}

\* The page and its history.
ShelfStands ==
    /\ shelf \in [states : Seq(Snaps), at : Nat, structured : BOOLEAN, edits : 0 .. MaxInsertions]
    /\ shelf.at \in 1 .. Len(shelf.states)

\* The dialog.
GalleryTypes ==
    gallery \in [open : BOOLEAN, choice : Spots, all : BOOLEAN,
                 filter : {"all", "element", "section"}, limit : Nat, refused : {FALSE},
                 disabled : BOOLEAN, work : 0 .. MaxGalleryWork]

\* The window is not empty, and no larger than a window more than there is.
WindowStands == gallery.limit \in 1 .. Len(ItemsOnShelf) + WindowSize

\* The choice is the one that was made in this dialog; a closed one has none.
ChoiceStands == gallery.choice = chosen /\ (~gallery.open => chosen = Nowhere)

\* The inductive invariant of the library of blocks.
GalleryInv == ShelfStands /\ GalleryTypes /\ WindowStands /\ ChoiceStands

\* The items of the library are a sequence.
LEMMA ItemsAreListed ==
    ASSUME shelf.structured \in BOOLEAN
    PROVE  ItemsOnShelf \in Seq(Insertables) /\ Len(ItemsOnShelf) \in Nat
<1>1. CatalogItems \in Seq(Insertables)
  BY BlockGalleryAssumption, SeqMonotonic DEF Insertables
<1>2. <<"section">> \in Seq(Insertables)
  BY DEF Insertables
<1>3. CatalogItems \o <<"section">> \in Seq(Insertables)
  BY <1>1, <1>2, ConcatProperties
<1>4. ItemsOnShelf \in Seq(Insertables)
  BY <1>1, <1>3 DEF ItemsOnShelf
<1>5. QED
  BY <1>4, LenProperties

\* Of the items no more are visible than there are.
LEMMA VisibleIsCounted ==
    ASSUME shelf.structured \in BOOLEAN
    PROVE  Cardinality(VisibleItems) \in 0 .. Len(ItemsOnShelf)
<1> DEFINE n == Len(ItemsOnShelf)
<1>1. n \in Nat /\ DOMAIN ItemsOnShelf = 1 .. n
  BY ItemsAreListed, LenProperties
<1>2. VisibleItems \subseteq 1 .. n
  BY <1>1 DEF VisibleItems
<1>3. IsFiniteSet(1 .. n) /\ Cardinality(1 .. n) = n
  BY <1>1, FS_Interval
<1>4. IsFiniteSet(VisibleItems) /\ Cardinality(VisibleItems) <= n
  BY <1>2, <1>3, FS_Subset
<1>5. Cardinality(VisibleItems) \in Nat
  BY <1>4, FS_CardinalityType
<1>6. QED
  BY <1>1, <1>4, <1>5

\* The library starts closed over a page.
LEMMA GalleryOpens ==
    ASSUME NEW page \in Seq(Things), NEW structured \in BOOLEAN, GalleryOver(page, structured)
    PROVE  GalleryInv
<1> DEFINE snap == [page |-> page, selected |-> Nowhere]
<1>1. Nowhere \in Spots
  BY DEF Nowhere, Spots
<1>2. snap \in Snaps
  BY <1>1 DEF Snaps
<1>3. <<snap>> \in Seq(Snaps) /\ Len(<<snap>>) = 1
  BY <1>2
<1>4. PICK first : first = <<snap>>
  OBVIOUS
<1>5. first \in Seq(Snaps) /\ Len(first) = 1
  BY <1>3, <1>4
<1>6. shelf = [states |-> first, at |-> 1, structured |-> structured, edits |-> 0]
  BY <1>4 DEF GalleryOver
<1>7. ShelfStands
  <2>1. 0 \in 0 .. MaxInsertions
    BY BlockGalleryAssumption
  <2>2. QED
    BY <1>5, <1>6, <2>1 DEF ShelfStands
<1>8. gallery = [open |-> FALSE, choice |-> Nowhere, all |-> FALSE, filter |-> "all",
                 limit |-> WindowSize, refused |-> FALSE, disabled |-> FALSE, work |-> 0]
  BY DEF GalleryOver, ShutGallery
<1>9. GalleryTypes
  BY <1>1, <1>8, BlockGalleryAssumption DEF GalleryTypes
<1>10. WindowStands
  BY <1>6, <1>8, ItemsAreListed, BlockGalleryAssumption DEF WindowStands
<1>11. ChoiceStands
  BY <1>8 DEF ChoiceStands, GalleryOver
<1>12. QED
  BY <1>7, <1>9, <1>10, <1>11 DEF GalleryInv

\* The library starts over one of the first pages.
LEMMA GalleryStarts == GalleryInit => GalleryInv
<1> SUFFICES ASSUME GalleryInit PROVE GalleryInv
  OBVIOUS
<1>1. PICK page \in FirstPages, structured \in BOOLEAN : GalleryOver(page, structured)
  BY DEF GalleryInit
<1>2. page \in Seq(Things)
  <2>1. [id : Nat \ {0}, kind : {"block", "leaf", "card", "section"}, held : Nat] \subseteq Things
    BY DEF Things, Insertables
  <2>2. QED
    BY <2>1, BlockGalleryAssumption, SeqMonotonic
<1>3. QED
  BY <1>1, <1>2, GalleryOpens

\* The states of the dialog.
Dialogs == [open : BOOLEAN, choice : Spots, all : BOOLEAN,
            filter : {"all", "element", "section"}, limit : Nat, refused : {FALSE},
            disabled : BOOLEAN, work : 0 .. MaxGalleryWork]

\* What is looked at of another place or through another filter starts at the first.
FirstShown == gallery'.choice # gallery.choice \/ gallery'.filter # gallery.filter
              => gallery'.limit = WindowSize

\* What every step makes of the dialog: one that is closed forgets its choice.
LEMMA TurnSettles ==
    ASSUME gallery \in Dialogs, NEW after \in Dialogs, after.work = gallery.work, Turned(after)
    PROVE  /\ gallery' \in Dialogs
           /\ gallery'.choice = IF after.open THEN after.choice ELSE Nowhere
           /\ gallery'.open = after.open
           /\ gallery'.limit \in {after.limit, WindowSize}
           /\ FirstShown
<1>1. Nowhere \in Spots
  BY DEF Nowhere, Spots
<1>2. PICK shut : shut = IF after.open THEN after
                         ELSE [after EXCEPT !.choice = Nowhere, !.all = FALSE, !.refused = FALSE]
  OBVIOUS
<1>3. /\ shut \in Dialogs /\ shut.open = after.open /\ shut.limit = after.limit
      /\ shut.choice = IF after.open THEN after.choice ELSE Nowhere
  BY <1>1, <1>2 DEF Dialogs
<1>4. PICK settled : settled =
        IF <<shut.open, shut.choice, shut.all, shut.filter>>
           = <<gallery.open, gallery.choice, gallery.all, gallery.filter>>
        THEN shut ELSE [shut EXCEPT !.limit = WindowSize]
  OBVIOUS
<1>5. settled = GallerySettled(after)
  BY <1>2, <1>4 DEF GallerySettled
<1>6. /\ settled \in Dialogs /\ settled.open = shut.open /\ settled.choice = shut.choice
      /\ settled.limit \in {shut.limit, WindowSize}
      /\ settled.choice # gallery.choice \/ settled.filter # gallery.filter
         => settled.limit = WindowSize
  <2>1. CASE <<shut.open, shut.choice, shut.all, shut.filter>>
             = <<gallery.open, gallery.choice, gallery.all, gallery.filter>>
    BY <1>3, <1>4, <2>1
  <2>2. CASE ~(<<shut.open, shut.choice, shut.all, shut.filter>>
               = <<gallery.open, gallery.choice, gallery.all, gallery.filter>>)
    BY <1>4, <2>2, <1>3, BlockGalleryAssumption DEF Dialogs
  <2>3. QED
    BY <2>1, <2>2
<1>7. gallery.work \in 0 .. MaxGalleryWork /\ gallery.work < MaxGalleryWork
      /\ gallery' = [settled EXCEPT !.work = @ + 1]
  BY <1>5 DEF Turned, Dialogs
<1>8. settled.work = gallery.work
  BY <1>2, <1>3, <1>4 DEF Dialogs
<1>9. PICK next \in 0 .. MaxGalleryWork : next = gallery.work + 1
  BY <1>7, BlockGalleryAssumption
<1>10. gallery' = [settled EXCEPT !.work = next]
  BY <1>7, <1>8, <1>9
<1>11. /\ gallery' \in Dialogs /\ gallery'.choice = settled.choice /\ gallery'.open = settled.open
       /\ gallery'.limit = settled.limit /\ gallery'.filter = settled.filter
  BY <1>6, <1>10 DEF Dialogs
<1>12. QED
  BY <1>3, <1>6, <1>11 DEF FirstShown

\* A step of the dialog after which the invariant holds again.
LEMMA TurnKeeps ==
    ASSUME GalleryInv, NEW after \in Dialogs, after.work = gallery.work, Turned(after),
           ShelfStands', shelf'.structured = shelf.structured,
           after.limit \in 1 .. Len(ItemsOnShelf) + WindowSize,
           chosen' = IF after.open THEN after.choice ELSE Nowhere
    PROVE  GalleryInv' /\ FirstShown
<1>1. gallery \in Dialogs
  BY DEF GalleryInv, GalleryTypes, Dialogs
<1>2. /\ gallery' \in Dialogs
      /\ gallery'.choice = IF after.open THEN after.choice ELSE Nowhere
      /\ gallery'.open = after.open
      /\ gallery'.limit \in {after.limit, WindowSize}
      /\ FirstShown
  BY <1>1, TurnSettles
<1>3. GalleryTypes'
  BY <1>2 DEF GalleryTypes, Dialogs
<1>4. shelf.structured \in BOOLEAN
  BY DEF GalleryInv, ShelfStands
<1>5. Len(ItemsOnShelf) \in Nat
  BY <1>4, ItemsAreListed
<1>6. (ItemsOnShelf)' = ItemsOnShelf
  BY DEF ItemsOnShelf
<1>7. WindowStands'
  BY <1>2, <1>5, <1>6, BlockGalleryAssumption DEF WindowStands
<1>8. ChoiceStands'
  BY <1>2 DEF ChoiceStands
<1>9. QED
  BY <1>2, <1>3, <1>7, <1>8 DEF GalleryInv

\* What the invariant says, in fields.
LEMMA GalleryFields ==
    ASSUME GalleryInv
    PROVE  /\ gallery \in Dialogs /\ gallery.open \in BOOLEAN /\ gallery.all \in BOOLEAN
           /\ gallery.disabled \in BOOLEAN /\ gallery.choice = chosen /\ chosen \in Spots
           /\ gallery.limit \in Nat /\ gallery.limit \in 1 .. Len(ItemsOnShelf) + WindowSize
           /\ ~gallery.open => chosen = Nowhere
           /\ Len(ItemsOnShelf) \in Nat /\ shelf.structured \in BOOLEAN
BY ItemsAreListed DEF GalleryInv, ShelfStands, GalleryTypes, Dialogs, ChoiceStands, WindowStands

\* A step that leaves the page alone.
LEMMA ShelfRests ==
    ASSUME GalleryInv, UNCHANGED shelf
    PROVE  ShelfStands' /\ shelf'.structured = shelf.structured
BY DEF GalleryInv, ShelfStands

\* The dialog is opened or closed.
LEMMA ToggleGalleryKeeps == GalleryInv /\ ToggleGallery => GalleryInv' /\ FirstShown
<1> SUFFICES ASSUME GalleryInv, ToggleGallery PROVE GalleryInv' /\ FirstShown
  OBVIOUS
<1>1. PICK on \in BOOLEAN : on = ~gallery.open
  BY GalleryFields
<1>2. PICK after : after = [gallery EXCEPT !.open = on]
  OBVIOUS
<1>3. after = [gallery EXCEPT !.open = ~gallery.open]
  BY <1>1, <1>2, Zenon
<1>4. /\ after \in Dialogs /\ after.work = gallery.work /\ after.limit = gallery.limit
      /\ after.choice = gallery.choice /\ after.open = on
  BY <1>2, GalleryFields DEF Dialogs
<1>5. Turned(after) /\ chosen' = Nowhere /\ UNCHANGED shelf
  BY <1>3 DEF ToggleGallery
<1>6. chosen' = IF after.open THEN after.choice ELSE Nowhere
  BY <1>1, <1>4, <1>5, GalleryFields
<1>7. after.limit \in 1 .. Len(ItemsOnShelf) + WindowSize
  BY <1>4, GalleryFields
<1>8. QED
  BY <1>4, <1>5, <1>6, <1>7, ShelfRests, TurnKeeps

\* The dialog is opened from the drawer.
LEMMA OpenFromDrawerKeeps == GalleryInv /\ OpenFromDrawer => GalleryInv' /\ FirstShown
BY GalleryFields, ShelfRests, TurnKeeps DEF Dialogs, OpenFromDrawer

\* The dialog is closed.
LEMMA CloseGalleryKeeps == GalleryInv /\ CloseGallery => GalleryInv' /\ FirstShown
BY GalleryFields, ShelfRests, TurnKeeps DEF Dialogs, CloseGallery

\* What is not available is shown, or not.
LEMMA ToggleUnavailableKeeps == GalleryInv /\ ToggleUnavailable => GalleryInv' /\ FirstShown
<1> SUFFICES ASSUME GalleryInv, ToggleUnavailable PROVE GalleryInv' /\ FirstShown
  OBVIOUS
<1>1. PICK on \in BOOLEAN : on = ~gallery.all
  BY GalleryFields
<1>2. PICK after : after = [gallery EXCEPT !.all = on]
  OBVIOUS
<1>3. after = [gallery EXCEPT !.all = ~gallery.all]
  BY <1>1, <1>2, Zenon
<1>4. /\ after \in Dialogs /\ after.work = gallery.work /\ after.limit = gallery.limit
      /\ after.choice = gallery.choice /\ after.open = gallery.open
  BY <1>2, GalleryFields DEF Dialogs
<1>5. Turned(after) /\ UNCHANGED <<shelf, chosen>>
  BY <1>3 DEF ToggleUnavailable
<1>6. chosen' = IF after.open THEN after.choice ELSE Nowhere
  BY <1>4, <1>5, GalleryFields
<1>7. after.limit \in 1 .. Len(ItemsOnShelf) + WindowSize
  BY <1>4, GalleryFields
<1>8. QED
  BY <1>4, <1>5, <1>6, <1>7, ShelfRests, TurnKeeps

\* The editor disables the library, or enables it.
LEMMA TurnDisabledKeeps == GalleryInv /\ TurnDisabled => GalleryInv' /\ FirstShown
<1> SUFFICES ASSUME GalleryInv, TurnDisabled PROVE GalleryInv' /\ FirstShown
  OBVIOUS
<1>1. PICK on \in BOOLEAN : on = ~gallery.disabled
  BY GalleryFields
<1>2. PICK after : after = [gallery EXCEPT !.disabled = on]
  OBVIOUS
<1>3. after = [gallery EXCEPT !.disabled = ~gallery.disabled]
  BY <1>1, <1>2, Zenon
<1>4. /\ after \in Dialogs /\ after.work = gallery.work /\ after.limit = gallery.limit
      /\ after.choice = gallery.choice /\ after.open = gallery.open
  BY <1>2, GalleryFields DEF Dialogs
<1>5. Turned(after) /\ UNCHANGED <<shelf, chosen>>
  BY <1>3 DEF TurnDisabled
<1>6. chosen' = IF after.open THEN after.choice ELSE Nowhere
  BY <1>4, <1>5, GalleryFields
<1>7. after.limit \in 1 .. Len(ItemsOnShelf) + WindowSize
  BY <1>4, GalleryFields
<1>8. QED
  BY <1>4, <1>5, <1>6, <1>7, ShelfRests, TurnKeeps

\* The filter is changed: the window starts anew.
LEMMA FilterByKeeps ==
    ASSUME GalleryInv, NEW kind \in {"all", "element", "section"}, FilterBy(kind)
    PROVE  GalleryInv' /\ FirstShown
BY GalleryFields, ShelfRests, TurnKeeps DEF Dialogs, FilterBy

\* More of the items are shown.
LEMMA LoadMoreKeeps == GalleryInv /\ LoadMore => GalleryInv' /\ FirstShown
<1> SUFFICES ASSUME GalleryInv, LoadMore PROVE GalleryInv' /\ FirstShown
  OBVIOUS
<1>1. PICK n \in 0 .. Len(ItemsOnShelf) : n = Cardinality(VisibleItems)
  BY GalleryFields, VisibleIsCounted
<1>2. PICK more \in 1 .. Len(ItemsOnShelf) : more = Min({gallery.limit + WindowSize, n})
  BY <1>1, GalleryFields, BlockGalleryAssumption DEF LoadMore, Min
<1>3. PICK after : after = [gallery EXCEPT !.limit = more]
  OBVIOUS
<1>4. after = [gallery EXCEPT !.limit = Min({gallery.limit + WindowSize, Cardinality(VisibleItems)})]
  BY <1>1, <1>2, <1>3
<1>5. /\ after \in Dialogs /\ after.work = gallery.work /\ after.limit = more
      /\ after.choice = gallery.choice /\ after.open = gallery.open
  <2>1. more \in Nat
    BY <1>2, GalleryFields
  <2>2. gallery \in Dialogs
    BY GalleryFields
  <2>3. QED
    BY <1>3, <2>1, <2>2 DEF Dialogs
<1>6. Turned(after) /\ UNCHANGED <<shelf, chosen>>
  BY <1>4 DEF LoadMore
<1>7. chosen' = IF after.open THEN after.choice ELSE Nowhere
  BY <1>5, <1>6, GalleryFields
<1>8. after.limit \in 1 .. Len(ItemsOnShelf) + WindowSize
  BY <1>5, GalleryFields, BlockGalleryAssumption
<1>9. QED
  BY <1>5, <1>6, <1>7, <1>8, ShelfRests, TurnKeeps

\* A zone has so many places.
LEMMA LengthIsCounted ==
    ASSUME NEW page \in Seq(Things), NEW zone \in Nat, IsZone(page, zone)
    PROVE  LengthOf(page, zone) \in Int
<1>1. CASE zone = Top
  BY <1>1, LenProperties DEF LengthOf
<1>2. CASE zone # Top
  <2>1. PICK k \in DOMAIN page : page[k].id = zone
    BY <1>2 DEF IsZone, Sections
  <2>2. PICK i \in DOMAIN page : i = CHOOSE j \in DOMAIN page : page[j].id = zone
    BY <2>1
  <2>3. page[i] \in Things
    BY <2>2, LenProperties
  <2>4. LengthOf(page, zone) = page[i].held
    BY <1>2, <2>2 DEF LengthOf, HeldBy
  <2>5. QED
    BY <2>3, <2>4 DEF Things
<1>3. QED
  BY <1>1, <1>2

\* The end of a zone is a place.
LEMMA EndsAreSpots ==
    ASSUME NEW page \in Seq(Things), NEW zone \in Nat, IsZone(page, zone)
    PROVE  EndSpot(page, zone) \in Spots
BY LengthIsCounted DEF EndSpot, Spot, Spots

\* A section of a page is a zone of it.
LEMMA SectionsAreZones ==
    ASSUME NEW page \in Seq(Things), NEW k \in Sections(page)
    PROVE  page[k].id \in Nat /\ page[k].id # Top /\ IsZone(page, page[k].id)
<1>1. page[k] \in Things
  BY LenProperties DEF Sections
<1>2. QED
  BY <1>1 DEF Things, IsZone, Top

\* Where an insertion goes that nobody aimed is a place.
LEMMA DefaultIsASpot ==
    ASSUME NEW page \in Seq(Things), NEW selected \in Spots,
           selected = Nowhere \/ IsThere(page, selected)
    PROVE  DefaultSpot(page, selected) \in Spots
<1>1. CASE selected = Nowhere
  BY <1>1, EndsAreSpots DEF Top, IsZone, DefaultSpot
<1>2. CASE selected # Nowhere /\ selected.zone = Top /\ page[selected.index].kind = "section"
  BY <1>2, LenProperties, SectionsAreZones, EndsAreSpots DEF IsThere, LengthOf, Sections,
     DefaultSpot
<1>3. CASE selected # Nowhere /\ ~(selected.zone = Top /\ page[selected.index].kind = "section")
  BY <1>3 DEF Spots, DefaultSpot
<1>4. QED
  BY <1>1, <1>2, <1>3

\* What is offered are places.
LEMMA OfferedAreSpots ==
    ASSUME NEW page \in Seq(Things), NEW selected \in Spots
    PROVE  SpotsOffered(page, selected) \subseteq Spots
<1>1. CASE selected # Nowhere /\ ~IsThere(page, selected)
  BY <1>1 DEF SpotsOffered
<1>2. CASE selected = Nowhere \/ IsThere(page, selected)
  BY <1>2, DefaultIsASpot, EndsAreSpots, SectionsAreZones DEF Top, IsZone, SpotsOffered, EndSpots
<1>3. QED
  BY <1>1, <1>2

\* The page that is shown, and what is selected of it.
LEMMA SnapIsTyped ==
    ASSUME GalleryInv
    PROVE  /\ shelf.states[shelf.at] \in Snaps /\ ShelfPage \in Seq(Things) /\ Selected \in Spots
           /\ Selected = Nowhere \/ IsThere(ShelfPage, Selected)
BY ElementOfSeq DEF GalleryInv, ShelfStands, Snaps, ShelfPage, Selected

\* A place is chosen.
LEMMA ChooseSpotKeeps ==
    ASSUME GalleryInv, NEW spot \in SpotsOffered(ShelfPage, Selected), ChooseSpot(spot)
    PROVE  GalleryInv' /\ FirstShown
BY SnapIsTyped, OfferedAreSpots, GalleryFields, ShelfRests, TurnKeeps DEF ChooseSpot, Dialogs

\* Where an insertion goes: to what was chosen in this dialog, else beside what is selected.
LEMMA AimIsMeant ==
    ASSUME GalleryInv, Aim # Nowhere
    PROVE  /\ gallery.open /\ Aim \in Spots
           /\ Aim = IF chosen # Nowhere THEN chosen ELSE DefaultSpot(ShelfPage, Selected)
<1>1. /\ gallery.choice = chosen
      /\ ~gallery.open => chosen = Nowhere
  BY GalleryFields
<1>2. gallery.open
  BY <1>1 DEF Aim
<1>3. SpotsOffered(ShelfPage, Selected) \subseteq Spots
  BY SnapIsTyped, OfferedAreSpots
<1>4. CASE chosen # Nowhere
  BY <1>1, <1>2, <1>3, <1>4 DEF Aim
<1>5. CASE chosen = Nowhere
  BY <1>1, <1>2, <1>5, SnapIsTyped, DefaultIsASpot DEF Aim
<1>6. QED
  BY <1>4, <1>5

\* Inserting into the page itself.
LEMMA InsertedAtTop ==
    ASSUME NEW page \in Seq(Things), NEW i \in 1 .. Len(page) + 1, NEW thing \in Things
    PROVE  InsertAt(page, i, thing) \in Seq(Things) /\ Len(InsertAt(page, i, thing)) = Len(page) + 1
<1>1. Len(page) \in Nat /\ \A k \in 1 .. Len(page) : page[k] \in Things
  BY LenProperties, ElementOfSeq
<1>2. PICK before : before = SubSeq(page, 1, i - 1)
  OBVIOUS
<1>3. before \in Seq(Things) /\ Len(before) = i - 1
  BY <1>1, <1>2, SubSeqProperties
<1>4. PICK after : after = SubSeq(page, i, Len(page))
  OBVIOUS
<1>5. after \in Seq(Things) /\ Len(after) = Len(page) - i + 1
  BY <1>1, <1>4, SubSeqProperties
<1>6. <<thing>> \in Seq(Things) /\ Len(<<thing>>) = 1
  OBVIOUS
<1>7. PICK first \in Seq(Things) : first = before \o <<thing>> /\ Len(first) = i
  <2>1. before \o <<thing>> \in Seq(Things) /\ Len(before \o <<thing>>) = Len(before) + Len(<<thing>>)
    BY <1>3, <1>6, ConcatProperties
  <2>2. PICK first : first = before \o <<thing>>
    OBVIOUS
  <2>3. i \in Int /\ i - 1 + 1 = i
    BY <1>1
  <2>4. first \in Seq(Things) /\ Len(first) = i
    BY <1>3, <1>6, <2>1, <2>2, <2>3
  <2>5. QED
    BY <2>2, <2>4
<1>8. first \o after \in Seq(Things) /\ Len(first \o after) = Len(first) + Len(after)
  BY <1>5, ConcatProperties
<1>9. InsertAt(page, i, thing) = first \o after
  BY <1>2, <1>4, <1>7 DEF InsertAt
<1>10. i + (Len(page) - i + 1) = Len(page) + 1
  BY <1>1
<1>11. QED
  BY <1>5, <1>7, <1>8, <1>9, <1>10

\* Removing from the page itself.
LEMMA RemovedFromTop ==
    ASSUME NEW page \in Seq(Things), NEW i \in 1 .. Len(page)
    PROVE  RemoveAt(page, i) \in Seq(Things)
<1>1. Len(page) \in Nat /\ \A k \in 1 .. Len(page) : page[k] \in Things
  BY LenProperties, ElementOfSeq
<1>2. SubSeq(page, 1, i - 1) \in Seq(Things)
  BY <1>1, SubSeqProperties
<1>3. SubSeq(page, i + 1, Len(page)) \in Seq(Things)
  BY <1>1, SubSeqProperties
<1>4. QED
  BY <1>2, <1>3, ConcatProperties DEF RemoveAt

\* The slot of a section holds one more or one less; nothing else of the page changes.
LEMMA HeldChanges ==
    ASSUME NEW page \in Seq(Things), NEW zone \in Nat, NEW by \in {1, 0 - 1},
           NEW after, after = [k \in DOMAIN page |-> IF page[k].id = zone
                                 THEN [page[k] EXCEPT !.held = @ + by] ELSE page[k]]
    PROVE  /\ after \in Seq(Things) /\ Len(after) = Len(page)
           /\ \A k \in DOMAIN page :
                 /\ after[k].id = page[k].id /\ after[k].kind = page[k].kind
                 /\ page[k].id = zone => after[k].held = page[k].held + by
<1>1. Len(page) \in Nat /\ DOMAIN page = 1 .. Len(page) /\ \A k \in 1 .. Len(page) : page[k] \in Things
  BY LenProperties, ElementOfSeq
<1>2. \A k \in DOMAIN page :
         /\ after[k] \in Things /\ after[k].id = page[k].id /\ after[k].kind = page[k].kind
         /\ page[k].id = zone => after[k].held = page[k].held + by
  <2> SUFFICES ASSUME NEW k \in DOMAIN page
               PROVE  /\ after[k] \in Things /\ after[k].id = page[k].id /\ after[k].kind = page[k].kind
                      /\ page[k].id = zone => after[k].held = page[k].held + by
    OBVIOUS
  <2>1. page[k] \in Things
    BY <1>1
  <2>2. CASE page[k].id = zone
    <3>1. after[k] = [page[k] EXCEPT !.held = @ + by]
      BY <2>2
    <3>2. PICK held \in Int : held = page[k].held + by
      BY <2>1 DEF Things
    <3>3. after[k] = [page[k] EXCEPT !.held = held]
      BY <3>1, <3>2
    <3>4. QED
      BY <2>1, <3>2, <3>3 DEF Things
  <2>3. CASE page[k].id # zone
    BY <2>1, <2>3
  <2>4. QED
    BY <2>2, <2>3
<1>3. after \in [1 .. Len(page) -> Things]
  BY <1>1, <1>2
<1>4. after \in Seq(Things) /\ Len(after) = Len(page)
  BY <1>1, <1>3
<1>5. QED
  BY <1>2, <1>4

\* What is inserted is where it was inserted, and its zone is one longer.
LEMMA InsertionGoesThere ==
    ASSUME NEW page \in Seq(Things), NEW spot \in Spots, NEW thing \in Things,
           IsZone(page, spot.zone), spot.index \in 1 .. LengthOf(page, spot.zone) + 1,
           NEW after, after = InsertedAt(page, spot, thing)
    PROVE  /\ after \in Seq(Things)
           /\ LengthOf(after, spot.zone) = LengthOf(page, spot.zone) + 1
           /\ IsThere(after, spot)
<1>1. spot.zone \in Nat /\ spot.index \in Int /\ LengthOf(page, spot.zone) \in Int
  BY LengthIsCounted DEF Spots
<1>2. CASE spot.zone = Top
  BY <1>2, InsertedAtTop DEF LengthOf, InsertedAt, IsZone, IsThere
<1>3. CASE spot.zone # Top
  <2>1. after = [k \in DOMAIN page |-> IF page[k].id = spot.zone
                                       THEN [page[k] EXCEPT !.held = @ + 1] ELSE page[k]]
    BY <1>3 DEF InsertedAt
  <2>2. /\ after \in Seq(Things) /\ Len(after) = Len(page)
        /\ \A k \in DOMAIN page :
              /\ after[k].id = page[k].id /\ after[k].kind = page[k].kind
              /\ page[k].id = spot.zone => after[k].held = page[k].held + 1
    BY <1>1, <2>1, HeldChanges
  <2>3. DOMAIN after = DOMAIN page
    BY <2>2, LenProperties
  <2>4. PICK k \in DOMAIN page : page[k].id = spot.zone /\ page[k].kind = "section"
    BY <1>3 DEF IsZone, Sections
  <2>5. PICK i : i = CHOOSE j \in DOMAIN page : page[j].id = spot.zone
    OBVIOUS
  <2>6. i \in DOMAIN page /\ page[i].id = spot.zone
    BY <2>4, <2>5
  <2>7. \A j \in DOMAIN page : (after[j].id = spot.zone) <=> (page[j].id = spot.zone)
    BY <2>2
  <2>8. i = CHOOSE j \in DOMAIN page : after[j].id = spot.zone
    BY <2>5, <2>7
  <2>9. HeldBy(page, spot.zone) = page[i].held
    BY <2>5 DEF HeldBy
  <2>10. HeldBy(after, spot.zone) = after[i].held
    BY <2>3, <2>8 DEF HeldBy
  <2>11. LengthOf(after, spot.zone) = LengthOf(page, spot.zone) + 1
    BY <1>3, <2>2, <2>6, <2>9, <2>10 DEF LengthOf
  <2>12. IsZone(after, spot.zone)
    BY <2>2, <2>3, <2>4 DEF IsZone, Sections
  <2>13. spot.index \in 1 .. LengthOf(after, spot.zone)
    BY <1>1, <2>11
  <2>14. QED
    BY <2>2, <2>11, <2>12, <2>13 DEF IsThere
<1>4. QED
  BY <1>2, <1>3

\* What remains after a removal is a page.
LEMMA RemovalIsTyped ==
    ASSUME NEW page \in Seq(Things), NEW spot \in Spots, IsThere(page, spot)
    PROVE  RemovedAt(page, spot) \in Seq(Things)
<1>1. CASE spot.zone = Top
  BY <1>1, RemovedFromTop DEF RemovedAt, IsThere, LengthOf
<1>2. CASE spot.zone # Top
  <2>1. PICK after : after = [k \in DOMAIN page |-> IF page[k].id = spot.zone
                                 THEN [page[k] EXCEPT !.held = @ + (0 - 1)] ELSE page[k]]
    OBVIOUS
  <2>2. after \in Seq(Things)
    BY <2>1, HeldChanges DEF Spots
  <2>3. \A k \in DOMAIN page : page[k].id = spot.zone =>
           [page[k] EXCEPT !.held = @ + (0 - 1)] = [page[k] EXCEPT !.held = @ - 1]
    <3>1. \A k \in DOMAIN page : page[k].held \in Int
      <4>1. \A k \in DOMAIN page : page[k] \in Things
        BY LenProperties, ElementOfSeq
      <4>2. QED
        BY <4>1 DEF Things
    <3>2. \A k \in DOMAIN page : page[k].held + (0 - 1) = page[k].held - 1
      BY <3>1
    <3>3. QED
      BY <3>2
  <2>4. after = [k \in DOMAIN page |-> IF page[k].id = spot.zone
                                 THEN [page[k] EXCEPT !.held = @ - 1] ELSE page[k]]
    BY <2>1, <2>3, Zenon
  <2>5. QED
    BY <1>2, <2>2, <2>4 DEF RemovedAt
<1>3. QED
  BY <1>1, <1>2

\* A page that the history records is the one that is shown.
LEMMA RecordedIsShown ==
    ASSUME ShelfStands, NEW page \in Seq(Things), NEW selected \in Spots,
           selected = Nowhere \/ IsThere(page, selected), ShelfRecorded(page, selected)
    PROVE  /\ ShelfStands' /\ shelf'.structured = shelf.structured
           /\ ShelfPage' = page /\ Selected' = selected
<1>1. PICK snap : snap = [page |-> page, selected |-> selected]
  OBVIOUS
<1>2. snap \in Snaps /\ snap.page = page /\ snap.selected = selected
  BY <1>1 DEF Snaps
<1>3. /\ shelf.states \in Seq(Snaps) /\ shelf.at \in Nat /\ shelf.at \in 1 .. Len(shelf.states)
      /\ shelf.edits \in 0 .. MaxInsertions /\ shelf.structured \in BOOLEAN
  BY DEF ShelfStands
<1>4. PICK past \in Seq(Snaps) : past = SubSeq(shelf.states, 1, shelf.at) /\ Len(past) = shelf.at
  <2>1. Len(shelf.states) \in Nat /\ \A k \in 1 .. Len(shelf.states) : shelf.states[k] \in Snaps
    BY <1>3, LenProperties, ElementOfSeq
  <2>2. \A k \in 1 .. shelf.at : shelf.states[k] \in Snaps
    BY <1>3, <2>1
  <2>3. /\ SubSeq(shelf.states, 1, shelf.at) \in Seq(Snaps)
        /\ Len(SubSeq(shelf.states, 1, shelf.at)) = IF 1 <= shelf.at THEN shelf.at - 1 + 1 ELSE 0
    BY <1>3, <2>2, SubSeqProperties
  <2>4. 1 <= shelf.at /\ shelf.at - 1 + 1 = shelf.at
    BY <1>3, <2>1
  <2>5. PICK past : past = SubSeq(shelf.states, 1, shelf.at)
    OBVIOUS
  <2>6. past \in Seq(Snaps) /\ Len(past) = shelf.at
    BY <2>3, <2>4, <2>5
  <2>7. QED
    BY <2>5, <2>6
<1>5. PICK states \in Seq(Snaps) : /\ states = Append(past, snap) /\ Len(states) = shelf.at + 1
                                   /\ states[shelf.at + 1] = snap
  <2>1. /\ Append(past, snap) \in Seq(Snaps) /\ Len(Append(past, snap)) = Len(past) + 1
        /\ Append(past, snap)[Len(past) + 1] = snap
    BY <1>2, <1>4, AppendProperties
  <2>2. QED
    BY <1>4, <2>1
<1>6. PICK at \in Nat : at = shelf.at + 1
  BY <1>3
<1>7. PICK edits \in 0 .. MaxInsertions : edits = shelf.edits + 1
  BY <1>3, BlockGalleryAssumption DEF ShelfRecorded
<1>8. shelf' = [shelf EXCEPT !.states = states, !.at = at, !.edits = edits]
  BY <1>1, <1>4, <1>5, <1>6, <1>7 DEF ShelfRecorded
<1>9. /\ shelf'.states = states /\ shelf'.at = at /\ shelf'.structured = shelf.structured
      /\ shelf' \in [states : Seq(Snaps), at : Nat, structured : BOOLEAN, edits : 0 .. MaxInsertions]
  BY <1>8 DEF ShelfStands
<1>10. ShelfStands'
  BY <1>3, <1>5, <1>6, <1>9 DEF ShelfStands
<1>11. shelf'.states[shelf'.at] = snap
  BY <1>5, <1>6, <1>9
<1>12. QED
  BY <1>2, <1>9, <1>10, <1>11 DEF ShelfPage, Selected

\* An insertion goes where it was meant to.
MeantThere ==
    gallery.open /\ shelf'.edits > shelf.edits =>
         LET spot == IF chosen # Nowhere THEN chosen ELSE DefaultSpot(ShelfPage, Selected)
         IN  /\ Selected' = spot
             /\ LengthOf(ShelfPage', spot.zone) = LengthOf(ShelfPage, spot.zone) + 1

\* An item is inserted: where it was meant to be.
LEMMA InsertItemKeeps ==
    ASSUME GalleryInv, NEW kind \in Insertables, InsertItem(kind)
    PROVE  GalleryInv' /\ FirstShown /\ MeantThere
<1>1. Fits(kind) /\ Insertable(ShelfPage, Aim, kind, shelf.structured) /\ Aim # Nowhere
  BY DEF InsertItem, Fits
<1>2. PICK spot \in Spots : spot = Aim
  BY <1>1, AimIsMeant
<1>3. spot = IF chosen # Nowhere THEN chosen ELSE DefaultSpot(ShelfPage, Selected)
  BY <1>1, <1>2, AimIsMeant
<1>4. /\ ShelfRecorded(InsertedAt(ShelfPage, Aim, Put(shelf.edits + 10, kind)), Aim)
      /\ Turned([gallery EXCEPT !.open = FALSE]) /\ chosen' = Nowhere
  BY <1>1 DEF InsertItem
<1>5. PICK thing \in Things : thing = Put(shelf.edits + 10, kind)
  <2>1. PICK id \in Nat \ {0} : id = shelf.edits + 10
    BY BlockGalleryAssumption DEF GalleryInv, ShelfStands
  <2>2. Put(id, kind) \in Things
    BY DEF Put, Things
  <2>3. QED
    BY <2>1, <2>2
<1>6. PICK page : page = InsertedAt(ShelfPage, spot, thing)
  OBVIOUS
<1>7. IsZone(ShelfPage, spot.zone) /\ spot.index \in 1 .. LengthOf(ShelfPage, spot.zone) + 1
  BY <1>1, <1>2 DEF Insertable
<1>8. /\ page \in Seq(Things) /\ IsThere(page, spot)
      /\ LengthOf(page, spot.zone) = LengthOf(ShelfPage, spot.zone) + 1
  BY <1>6, <1>7, SnapIsTyped, InsertionGoesThere
<1>9. ShelfRecorded(page, spot)
  BY <1>2, <1>4, <1>5, <1>6
<1>10. /\ ShelfStands' /\ shelf'.structured = shelf.structured
       /\ ShelfPage' = page /\ Selected' = spot
  BY <1>8, <1>9, RecordedIsShown DEF GalleryInv
<1>11. MeantThere
  BY <1>3, <1>8, <1>10 DEF MeantThere
<1>12. PICK after : after = [gallery EXCEPT !.open = FALSE]
  OBVIOUS
<1>13. /\ after \in Dialogs /\ after.work = gallery.work /\ after.limit = gallery.limit
       /\ ~after.open
  BY <1>12, GalleryFields DEF Dialogs
<1>14. Turned(after) /\ chosen' = IF after.open THEN after.choice ELSE Nowhere
  BY <1>4, <1>12, <1>13
<1>15. after.limit \in 1 .. Len(ItemsOnShelf) + WindowSize
  BY <1>13, GalleryFields
<1>16. QED
  BY <1>10, <1>11, <1>13, <1>14, <1>15, TurnKeeps

\* A step that leaves the dialog alone, unless it closes it.
LEMMA DialogRests ==
    ASSUME GalleryInv, Turned(gallery), UNCHANGED chosen, ShelfStands',
           shelf'.structured = shelf.structured
    PROVE  GalleryInv' /\ FirstShown
BY GalleryFields, TurnKeeps

\* Something is selected on the canvas, or nothing.
LEMMA SelectOnCanvasKeeps ==
    ASSUME GalleryInv, NEW spot \in SpotsOn(ShelfPage) \cup {Nowhere}, SelectOnCanvas(spot)
    PROVE  GalleryInv' /\ FirstShown
<1>1. spot \in Spots
  <2>1. \A k \in DOMAIN ShelfPage : ShelfPage[k].id \in Nat
    <3>1. PICK page \in Seq(Things) : page = ShelfPage
      BY SnapIsTyped
    <3>2. \A k \in DOMAIN page : page[k] \in Things
      BY LenProperties, ElementOfSeq
    <3>3. \A k \in DOMAIN page : page[k].id \in Nat
      BY <3>2 DEF Things
    <3>4. QED
      BY <3>1, <3>3
  <2>2. {Top} \cup {ShelfPage[k].id : k \in DOMAIN ShelfPage} \subseteq Nat
    BY <2>1 DEF Top
  <2>3. SpotsOn(ShelfPage) \subseteq Spots
    BY <2>2 DEF SpotsOn, Spots
  <2>4. QED
    BY <2>3 DEF Nowhere, Spots
<1>2. PICK snap : snap = [page |-> ShelfPage, selected |-> spot]
  OBVIOUS
<1>3. snap \in Snaps
  BY <1>1, <1>2, SnapIsTyped DEF Snaps, SelectOnCanvas
<1>4. /\ shelf.states \in Seq(Snaps) /\ shelf.at \in 1 .. Len(shelf.states)
  BY DEF GalleryInv, ShelfStands
<1>5. PICK states \in Seq(Snaps) : /\ states = [shelf.states EXCEPT ![shelf.at] = snap]
                                   /\ Len(states) = Len(shelf.states)
  <2>1. PICK states : states = [shelf.states EXCEPT ![shelf.at] = snap]
    OBVIOUS
  <2>2. PICK at \in 1 .. Len(shelf.states) : at = shelf.at
    BY <1>4
  <2>3. [shelf.states EXCEPT ![at] = snap] \in Seq(Snaps)
    BY <1>3, <1>4, ExceptSeq
  <2>4. Len([shelf.states EXCEPT ![at] = snap]) = Len(shelf.states)
    BY <1>3, <1>4, ExceptSeq
  <2>5. QED
    BY <2>1, <2>2, <2>3, <2>4
<1>6. shelf' = [shelf EXCEPT !.states = states]
  BY <1>2, <1>5 DEF SelectOnCanvas
<1>7. ShelfStands' /\ shelf'.structured = shelf.structured
  BY <1>4, <1>5, <1>6 DEF GalleryInv, ShelfStands
<1>8. QED
  BY <1>7, DialogRests DEF SelectOnCanvas

\* What is selected is removed.
LEMMA RemoveFromCanvasKeeps == GalleryInv /\ RemoveFromCanvas => GalleryInv' /\ FirstShown
<1> SUFFICES ASSUME GalleryInv, RemoveFromCanvas PROVE GalleryInv' /\ FirstShown
  OBVIOUS
<1>1. IsThere(ShelfPage, Selected)
  BY SnapIsTyped DEF RemoveFromCanvas
<1>2. PICK page \in Seq(Things) : page = RemovedAt(ShelfPage, Selected)
  BY <1>1, SnapIsTyped, RemovalIsTyped
<1>3. Nowhere \in Spots
  BY DEF Nowhere, Spots
<1>4. ShelfRecorded(page, Nowhere) /\ UNCHANGED <<gallery, chosen>>
  BY <1>2 DEF RemoveFromCanvas
<1>5. ShelfStands' /\ shelf'.structured = shelf.structured
  BY <1>3, <1>4, RecordedIsShown DEF GalleryInv
<1>6. (ItemsOnShelf)' = ItemsOnShelf
  BY <1>5 DEF ItemsOnShelf
<1>7. QED
  BY <1>4, <1>5, <1>6 DEF GalleryInv, GalleryTypes, WindowStands, ChoiceStands, FirstShown

\* The last edit is undone.
LEMMA UndoEditKeeps == GalleryInv /\ UndoEdit => GalleryInv' /\ FirstShown
BY LenProperties, DialogRests DEF GalleryInv, ShelfStands, UndoEdit

\* An edit is done again.
LEMMA RedoEditKeeps == GalleryInv /\ RedoEdit => GalleryInv' /\ FirstShown
BY LenProperties, DialogRests DEF GalleryInv, ShelfStands, RedoEdit

\* A step that inserts nothing needs no place.
LEMMA NothingInserted ==
    ASSUME GalleryInv, shelf'.edits = shelf.edits \/ ~gallery.open
    PROVE  MeantThere
BY BlockGalleryAssumption DEF GalleryInv, ShelfStands, MeantThere

\* Only an insertion inserts.
LEMMA OtherStepsInsertNothing ==
    ASSUME GalleryInv,
           \/ ToggleGallery \/ OpenFromDrawer \/ CloseGallery \/ ToggleUnavailable \/ LoadMore
           \/ TurnDisabled \/ RemoveFromCanvas \/ UndoEdit \/ RedoEdit
           \/ \E spot \in SpotsOffered(ShelfPage, Selected) : ChooseSpot(spot)
           \/ \E kind \in {"all", "element", "section"} : FilterBy(kind)
           \/ \E spot \in SpotsOn(ShelfPage) \cup {Nowhere} : SelectOnCanvas(spot)
    PROVE  MeantThere
<1>1. CASE RemoveFromCanvas
  BY <1>1, NothingInserted DEF RemoveFromCanvas
<1>2. CASE \E spot \in SpotsOn(ShelfPage) \cup {Nowhere} : SelectOnCanvas(spot)
  BY <1>2, NothingInserted DEF SelectOnCanvas
<1>3. CASE UndoEdit \/ RedoEdit
  BY <1>3, NothingInserted DEF UndoEdit, RedoEdit, GalleryInv, ShelfStands
<1>4. CASE \/ ToggleGallery \/ OpenFromDrawer \/ CloseGallery \/ ToggleUnavailable \/ LoadMore
           \/ TurnDisabled
           \/ \E spot \in SpotsOffered(ShelfPage, Selected) : ChooseSpot(spot)
           \/ \E kind \in {"all", "element", "section"} : FilterBy(kind)
  <2>1. UNCHANGED shelf
    BY <1>4 DEF ToggleGallery, OpenFromDrawer, CloseGallery, ToggleUnavailable, LoadMore,
       TurnDisabled, ChooseSpot, FilterBy
  <2>2. QED
    BY <2>1, NothingInserted
<1>5. QED
  BY <1>1, <1>2, <1>3, <1>4

\* Every step keeps the library sound.
LEMMA GalleryKept == GalleryInv /\ [GalleryNext]_galleryVars => GalleryInv' /\ FirstShown /\ MeantThere
<1> SUFFICES ASSUME GalleryInv, [GalleryNext]_galleryVars
             PROVE  GalleryInv' /\ FirstShown /\ MeantThere
  OBVIOUS
<1>1. ASSUME ToggleGallery PROVE GalleryInv' /\ FirstShown /\ MeantThere
  BY <1>1, ToggleGalleryKeeps, OtherStepsInsertNothing
<1>2. ASSUME OpenFromDrawer PROVE GalleryInv' /\ FirstShown /\ MeantThere
  BY <1>2, OpenFromDrawerKeeps, OtherStepsInsertNothing
<1>3. ASSUME CloseGallery PROVE GalleryInv' /\ FirstShown /\ MeantThere
  BY <1>3, CloseGalleryKeeps, OtherStepsInsertNothing
<1>4. ASSUME NEW spot \in SpotsOffered(ShelfPage, Selected), ChooseSpot(spot)
      PROVE  GalleryInv' /\ FirstShown /\ MeantThere
  BY <1>4, ChooseSpotKeeps, OtherStepsInsertNothing
<1>5. ASSUME ToggleUnavailable PROVE GalleryInv' /\ FirstShown /\ MeantThere
  BY <1>5, ToggleUnavailableKeeps, OtherStepsInsertNothing
<1>6. ASSUME NEW kind \in {"all", "element", "section"}, FilterBy(kind)
      PROVE  GalleryInv' /\ FirstShown /\ MeantThere
  BY <1>6, FilterByKeeps, OtherStepsInsertNothing
<1>7. ASSUME LoadMore PROVE GalleryInv' /\ FirstShown /\ MeantThere
  BY <1>7, LoadMoreKeeps, OtherStepsInsertNothing
<1>8. ASSUME TurnDisabled PROVE GalleryInv' /\ FirstShown /\ MeantThere
  BY <1>8, TurnDisabledKeeps, OtherStepsInsertNothing
<1>9. ASSUME NEW kind \in {"block", "leaf", "card", "section"}, InsertItem(kind)
      PROVE  GalleryInv' /\ FirstShown /\ MeantThere
  BY <1>9, InsertItemKeeps DEF Insertables
<1>10. ASSUME NEW spot \in SpotsOn(ShelfPage) \cup {Nowhere}, SelectOnCanvas(spot)
       PROVE  GalleryInv' /\ FirstShown /\ MeantThere
  BY <1>10, SelectOnCanvasKeeps, OtherStepsInsertNothing
<1>11. ASSUME RemoveFromCanvas PROVE GalleryInv' /\ FirstShown /\ MeantThere
  BY <1>11, RemoveFromCanvasKeeps, OtherStepsInsertNothing
<1>12. ASSUME UndoEdit PROVE GalleryInv' /\ FirstShown /\ MeantThere
  BY <1>12, UndoEditKeeps, OtherStepsInsertNothing
<1>13. ASSUME RedoEdit PROVE GalleryInv' /\ FirstShown /\ MeantThere
  BY <1>13, RedoEditKeeps, OtherStepsInsertNothing
<1>14. ASSUME UNCHANGED galleryVars PROVE GalleryInv' /\ FirstShown /\ MeantThere
  <2>1. UNCHANGED shelf /\ UNCHANGED gallery /\ UNCHANGED chosen
    BY <1>14 DEF galleryVars
  <2>2. MeantThere
    BY <2>1, NothingInserted
  <2>3. QED
    BY <2>1, <2>2 DEF GalleryInv, ShelfStands, GalleryTypes, WindowStands, ChoiceStands,
       ItemsOnShelf, FirstShown
<1>15. QED
  BY <1>1, <1>2, <1>3, <1>4, <1>5, <1>6, <1>7, <1>8, <1>9, <1>10, <1>11, <1>12, <1>13, <1>14 DEF
     GalleryNext

\* Where the drawer has a type that Puck knows.
CategoryOf(types, structured, type) ==
    IF type \notin Registered(types, structured) THEN "unavailable"
    ELSE IF type \in InnerTypes THEN "internal" ELSE KindOfType(type)

\* The drawer puts each type into one category.
LEMMA DrawerHasEach ==
    ASSUME NEW types, NEW structured \in BOOLEAN, NEW allTypes,
           NEW type \in allTypes \ {"unknown"},
           NEW drawer, drawer = Drawer(types, structured, allTypes)
    PROVE  /\ DOMAIN drawer = {"element", "layout", "component", "section", "internal", "unavailable"}
           /\ {c \in DOMAIN drawer : type \in drawer[c]} = {CategoryOf(types, structured, type)}
<1> DEFINE names == {"element", "layout", "component", "section", "internal", "unavailable"}
<1> DEFINE registered == Registered(types, structured)
<1>1. DOMAIN drawer = names
  BY DEF Drawer
<1>2. KindOfType(type) \in {"element", "layout", "component", "section"}
  BY DEF KindOfType
<1>3. \A c \in names : type \in drawer[c] <=> c = CategoryOf(types, structured, type)
  BY <1>2 DEF Drawer, CategoryOf, registered
<1>4. CategoryOf(types, structured, type) \in names
  BY <1>2 DEF CategoryOf
<1>5. QED
  BY <1>1, <1>3, <1>4

\* What the drawer shows may be inserted.
LEMMA DrawerShowsWhatFits ==
    ASSUME NEW types, NEW structured \in BOOLEAN, NEW type,
           DrawerShows(CategoryOf(types, structured, type), structured)
    PROVE  /\ type \in types \ InnerTypes
           /\ type \in {"Card", "LayoutSection"} => structured
BY DEF DrawerShows, CategoryOf, KindOfType, Registered

\* Each type of the editor is in one category of the drawer, shown only where it fits.
LEMMA DrawerOfEach ==
    ASSUME NEW catalog, NEW structured \in BOOLEAN, NEW type \in EditorTypes \ {"unknown"},
           NEW drawer, drawer = Drawer(catalog, structured, EditorTypes)
    PROVE  /\ Cardinality({c \in DOMAIN drawer : type \in drawer[c]}) = 1
           /\ \A c \in DOMAIN drawer :
                 type \in drawer[c] /\ DrawerShows(c, structured) =>
                   /\ type \in catalog \ InnerTypes
                   /\ type \in {"Card", "LayoutSection"} => structured
<1>1. {c \in DOMAIN drawer : type \in drawer[c]} = {CategoryOf(catalog, structured, type)}
  BY DrawerHasEach
<1>2. Cardinality({CategoryOf(catalog, structured, type)}) = 1
  BY FS_Singleton
<1>3. \A c \in DOMAIN drawer : type \in drawer[c] => c = CategoryOf(catalog, structured, type)
  BY <1>1
<1>4. QED
  BY <1>1, <1>2, <1>3, DrawerShowsWhatFits

\* In the drawer every type that may be inserted is found.
LEMMA DrawerStands == ASSUME shelf.structured \in BOOLEAN PROVE DrawerIsComplete
BY DrawerOfEach DEF DrawerIsComplete

\* What the invariant says of the library of blocks.
LEMMA GalleryIsRight == GalleryInv => GalleryTypeOK /\ NothingEnabledIsRefused /\ DrawerIsComplete
BY GalleryFields, DrawerStands DEF GalleryInv, ShelfStands, GalleryTypes, WindowStands,
   GalleryTypeOK, NothingEnabledIsRefused
-----------------------------------------------------------------------------
(***************************************************************************)
(* The bar of what is selected. A bar for which no placing is due stands   *)
(* where the placing would put it. The scale of the frame makes pixels of  *)
(* the bar of pixels of the frame, and all edges lie on whole pixels of    *)
(* either, so that nothing is rounded.                                     *)
(***************************************************************************)

\* The greater of two numbers.
LEMMA GreaterIs ==
    ASSUME NEW a \in Int, NEW b \in Int
    PROVE  Max({a, b}) = IF a >= b THEN a ELSE b
BY DEF Max

\* The lesser of two numbers.
LEMMA LesserIs ==
    ASSUME NEW a \in Int, NEW b \in Int
    PROVE  Min({a, b}) = IF a <= b THEN a ELSE b
BY DEF Min

\* Whole numbers of pixels add up.
LEMMA Product ==
    ASSUME NEW n \in Nat \ {0}, NEW k \in Int
    PROVE  (k * n) \div n = k /\ k * n \in Int /\ n * k = k * n
OBVIOUS

\* Multiples of the scale are whole pixels.
LEMMA WholeTimes ==
    ASSUME NEW n \in Nat \ {0}, NEW k \in Int
    PROVE  Whole(k * n, n) /\ Whole(n * k, n)
BY Product DEF Whole

\* A whole pixel is a multiple of the scale.
LEMMA WholeIs ==
    ASSUME NEW n \in Nat \ {0}, NEW x, Whole(x, n)
    PROVE  x \in Int /\ \E k \in Int : x = k * n /\ k = x \div n
BY DEF Whole

\* Whole pixels add up to whole pixels.
LEMMA WholeSum ==
    ASSUME NEW n \in Nat \ {0}, NEW x, NEW y, Whole(x, n), Whole(y, n)
    PROVE  Whole(x + y, n) /\ Whole(x - y, n)
<1>1. PICK k \in Int : x = k * n
  BY WholeIs
<1>2. PICK j \in Int : y = j * n
  BY WholeIs
<1>3. PICK l \in Int : l = k + j
  OBVIOUS
<1>4. PICK m \in Int : m = k - j
  OBVIOUS
<1>5. x + y = l * n
  BY <1>1, <1>2, <1>3
<1>6. x - y = m * n
  BY <1>1, <1>2, <1>4
<1>7. QED
  BY <1>5, <1>6, WholeTimes

\* A rectangle with its edges on pixels.
IntEdges(r) ==
    /\ r = Edges(r.left, r.top, r.right, r.bottom)
    /\ r.left \in Int /\ r.top \in Int /\ r.right \in Int /\ r.bottom \in Int

\* The edges and the size of a rectangle.
LEMMA EdgesAre ==
    ASSUME NEW a, NEW b, NEW c, NEW d
    PROVE  /\ Edges(a, b, c, d).left = a /\ Edges(a, b, c, d).top = b
           /\ Edges(a, b, c, d).right = c /\ Edges(a, b, c, d).bottom = d
           /\ Wide(Edges(a, b, c, d)) = c - a /\ High(Edges(a, b, c, d)) = d - b
BY DEF Edges, Wide, High

\* The edges of a rectangle on whole pixels.
LEMMA WholeEdgesAre ==
    ASSUME NEW n \in Nat \ {0}, NEW r, WholeEdges(r, n)
    PROVE  /\ IntEdges(r) /\ Whole(r.left, n) /\ Whole(r.top, n) /\ Whole(r.right, n) /\ Whole(r.bottom, n)
BY DEF WholeEdges, IntEdges, Whole

\* A value that is clamped: the lower end goes first.
LEMMA ClampedIs ==
    ASSUME NEW v \in Int, NEW l \in Int, NEW m \in Int
    PROVE  /\ Clamped(v, l, m) = IF m <= l \/ v < l THEN l ELSE IF v > m THEN m ELSE v
           /\ Clamped(v, l, m) \in Int
BY GreaterIs, LesserIs DEF Clamped

\* What is left of a clip with a gap around it.
LEMMA SafeIs ==
    ASSUME NEW clip, IntEdges(clip), Gap \in Nat
    PROVE  /\ IntEdges(Safe(clip))
           /\ Safe(clip).left \in {clip.right, clip.left + Gap}
           /\ Safe(clip).top \in {clip.bottom, clip.top + Gap}
           /\ Safe(clip).right \in {Safe(clip).left, clip.right - Gap}
           /\ Safe(clip).bottom \in {Safe(clip).top, clip.bottom - Gap}
           /\ Wide(Safe(clip)) \in Nat /\ High(Safe(clip)) \in Nat
           /\ Wide(clip) - 2 * Gap <= Wide(Safe(clip))
<1>1. clip.left \in Int /\ clip.top \in Int /\ clip.right \in Int /\ clip.bottom \in Int
  BY DEF IntEdges
<1>2. PICK l \in Int : l = Min({clip.right, clip.left + Gap})
                       /\ l = IF clip.right <= clip.left + Gap THEN clip.right ELSE clip.left + Gap
  BY <1>1, LesserIs
<1>3. PICK t \in Int : t = Min({clip.bottom, clip.top + Gap})
                       /\ t = IF clip.bottom <= clip.top + Gap THEN clip.bottom ELSE clip.top + Gap
  BY <1>1, LesserIs
<1>4. PICK r \in Int : r = Max({l, clip.right - Gap})
                       /\ r = IF l >= clip.right - Gap THEN l ELSE clip.right - Gap
  BY <1>1, GreaterIs
<1>5. PICK b \in Int : b = Max({t, clip.bottom - Gap})
                       /\ b = IF t >= clip.bottom - Gap THEN t ELSE clip.bottom - Gap
  BY <1>1, GreaterIs
<1>6. PICK safe : safe = Safe(clip)
  OBVIOUS
<1>7. safe = Edges(l, t, r, b)
  BY <1>2, <1>3, <1>4, <1>5, <1>6 DEF Safe
<1>8. safe.left = l /\ safe.top = t /\ safe.right = r /\ safe.bottom = b
      /\ Wide(safe) = r - l /\ High(safe) = b - t
  BY <1>7, EdgesAre
<1>9. IntEdges(safe)
  BY <1>7, <1>8 DEF IntEdges
<1>10. r - l \in Nat /\ b - t \in Nat
  BY <1>4, <1>5
<1>11. (clip.right - clip.left) - 2 * Gap <= r - l
  <2>1. l <= clip.left + Gap
    <3>1. PICK u \in Int, w \in Int : u = clip.right /\ w = clip.left + Gap
      BY <1>1
    <3>2. l = IF u <= w THEN u ELSE w
      BY <1>2, <3>1
    <3>3. l <= w
      BY <3>2
    <3>4. QED
      BY <3>1, <3>3
  <2>2. r >= clip.right - Gap
    BY <1>1, <1>4
  <2>3. QED
    BY <1>1, <2>1, <2>2
<1>12. Wide(clip) - 2 * Gap <= Wide(safe)
  BY <1>8, <1>11 DEF Wide
<1>13. QED
  BY <1>2, <1>3, <1>4, <1>5, <1>6, <1>8, <1>9, <1>10, <1>12

\* What is covered is counted.
LEMMA CoveredIs ==
    ASSUME NEW r, r.left \in Int, r.top \in Int, r.right \in Int, r.bottom \in Int,
           NEW rects, IsFiniteSet(rects)
    PROVE  Covered(r, rects) \in Nat
<1>1. PICK a \in Int : a = r.right - 1
  OBVIOUS
<1>2. PICK b \in Int : b = r.bottom - 1
  OBVIOUS
<1>3. IsFiniteSet(r.left .. a) /\ IsFiniteSet(r.top .. b)
  BY FS_Interval
<1>4. IsFiniteSet((r.left .. a) \X (r.top .. b))
  BY <1>3, FS_Product
<1>5. IsFiniteSet(Pixels(r))
  BY <1>1, <1>2, <1>4 DEF Pixels
<1>6. PICK all : all = Pixels(r) \X rects
  OBVIOUS
<1>7. IsFiniteSet(all)
  BY <1>5, <1>6, FS_Product
<1>8. PICK some : some = {shared \in all : shared[1] \in Pixels(shared[2])}
  OBVIOUS
<1>9. some \in SUBSET all
  BY <1>8
<1>10. IsFiniteSet(some)
  BY <1>7, <1>9, FS_Subset
<1>11. Cardinality(some) \in Nat
  BY <1>10, FS_CardinalityType
<1>12. QED
  BY <1>6, <1>8, <1>11 DEF Covered

\* Rectangles of which one is above the other share nothing.
LEMMA ApartIsNothing ==
    ASSUME NEW r, NEW other,
           r.top \in Int, r.bottom \in Int, other.top \in Int, other.bottom \in Int,
           r.bottom <= other.top \/ other.bottom <= r.top \/ r.bottom <= r.top
    PROVE  Overlap(r, other) = 0
BY FS_EmptySet DEF Pixels, Covered, Overlap

\* Where a bar is placed.
PlacedRight(p, anchor, safe, width, height, near) ==
    /\ p.side \in {"above", "below", "dock-top", "dock-bottom"}
    /\ width \in Nat /\ height \in Nat
    /\ p.left = Clamped(anchor.right - width, safe.left, safe.right - width)
    /\ p.side = "above" =>
         /\ height <= 0 \/ height + Gap <= anchor.top - safe.top
         /\ p.top = Clamped(anchor.top - Gap - height, safe.top, safe.bottom - height)
    /\ p.side # "above" => ~(height + Gap <= anchor.top - safe.top) /\ height > 0
    /\ p.side = "below" =>
         /\ height + Gap <= safe.bottom - anchor.bottom
         /\ p.top = Clamped(anchor.bottom + Gap, safe.top, safe.bottom - height)
    /\ p.side \notin {"above", "below"} => ~(height + Gap <= safe.bottom - anchor.bottom)
    /\ p.side = "dock-top" =>
         /\ p.top = Clamped(safe.top, safe.top, safe.bottom - height)
         /\ Covered(Edges(p.left, safe.top, p.left + width, safe.top + height), near)
            <= Covered(Edges(p.left, safe.bottom - height, p.left + width, safe.bottom), near)
    /\ p.side = "dock-bottom" =>
         /\ p.top = Clamped(safe.bottom - height, safe.top, safe.bottom - height)
         /\ Covered(Edges(p.left, safe.bottom - height, p.left + width, safe.bottom), near)
            <= Covered(Edges(p.left, safe.top, p.left + width, safe.top + height), near)

\* Where the placing puts a bar.
LEMMA PlacedIs ==
    ASSUME Gap \in Nat, NEW anchor, IntEdges(anchor), NEW size, size.width \in Nat, size.height \in Nat,
           NEW clip, IntEdges(clip), NEW avoid, IsFiniteSet(avoid),
           NEW safe, safe = Safe(clip), NEW width, NEW height,
           width = IF size.width <= Wide(safe) THEN size.width ELSE Wide(safe),
           height = IF size.height <= High(safe) THEN size.height ELSE High(safe),
           NEW near, near = IF avoid = {} THEN {anchor} ELSE avoid,
           NEW p, p = Placed(anchor, size, clip, avoid)
    PROVE  PlacedRight(p, anchor, safe, width, height, near)
<1>1. /\ anchor.left \in Int /\ anchor.top \in Int /\ anchor.right \in Int /\ anchor.bottom \in Int
  BY DEF IntEdges
<1>2. /\ safe.left \in Int /\ safe.top \in Int /\ safe.right \in Int /\ safe.bottom \in Int
      /\ Wide(safe) \in Nat /\ High(safe) \in Nat
  BY SafeIs DEF IntEdges
<1>3. width \in Nat /\ width = Min({size.width, Wide(safe)})
  BY <1>2, LesserIs
<1>4. height \in Nat /\ height = Min({size.height, High(safe)})
  BY <1>2, LesserIs
<1>5. PICK left \in Int : left = Clamped(anchor.right - width, safe.left, safe.right - width)
  <2>1. PICK a \in Int : a = anchor.right - width
    BY <1>1, <1>3
  <2>2. PICK b \in Int : b = safe.right - width
    BY <1>2, <1>3
  <2>3. Clamped(a, safe.left, b) \in Int
    BY <1>2, ClampedIs
  <2>4. QED
    BY <2>1, <2>2, <2>3
<1>6. PICK above \in Int : above = Max({0, anchor.top - Gap - safe.top})
         /\ above = IF 0 >= anchor.top - Gap - safe.top THEN 0 ELSE anchor.top - Gap - safe.top
  BY <1>1, <1>2, GreaterIs
<1>7. PICK below \in Int : below = Max({0, safe.bottom - anchor.bottom - Gap})
         /\ below = IF 0 >= safe.bottom - anchor.bottom - Gap THEN 0 ELSE safe.bottom - anchor.bottom - Gap
  BY <1>1, <1>2, GreaterIs
<1>8. PICK onTop : onTop = Edges(left, safe.top, left + width, safe.top + height)
  OBVIOUS
<1>9. PICK atBottom : atBottom = Edges(left, safe.bottom - height, left + width, safe.bottom)
  OBVIOUS
<1>10. IsFiniteSet(near)
  BY FS_Singleton
<1>11. PICK o1 \in Nat : o1 = Covered(onTop, near)
  BY <1>2, <1>3, <1>4, <1>5, <1>8, <1>10, CoveredIs DEF Edges
<1>12. PICK o2 \in Nat : o2 = Covered(atBottom, near)
  BY <1>2, <1>3, <1>4, <1>5, <1>9, <1>10, CoveredIs DEF Edges
<1>13. PICK side : side = IF height <= above THEN "above" ELSE IF height <= below THEN "below"
                          ELSE Dock(o1, o2, above, below)
  OBVIOUS
<1>14. PICK top : top = CASE side = "above" -> anchor.top - Gap - height
                          [] side = "below" -> anchor.bottom + Gap
                          [] side = "dock-top" -> safe.top
                          [] OTHER -> safe.bottom - height
  OBVIOUS
<1>15. p = [left |-> left, top |-> Clamped(top, safe.top, safe.bottom - height), side |-> side]
  BY <1>3, <1>4, <1>5, <1>6, <1>7, <1>8, <1>9, <1>11, <1>12, <1>13, <1>14, Zenon DEF Placed
<1>16. p.left = left /\ p.side = side /\ p.top = Clamped(top, safe.top, safe.bottom - height)
  BY <1>15
<1>17. /\ side \in {"above", "below", "dock-top", "dock-bottom"}
       /\ side = "above" <=> height <= above
       /\ side = "below" <=> ~(height <= above) /\ height <= below
       /\ side = "dock-top" => o1 <= o2
       /\ side = "dock-bottom" => o2 <= o1
  BY <1>11, <1>12, <1>13 DEF Dock
<1>18. /\ side = "above" => top = anchor.top - Gap - height
       /\ side = "below" => top = anchor.bottom + Gap
       /\ side = "dock-top" => top = safe.top
       /\ side = "dock-bottom" => top = safe.bottom - height
  BY <1>14
<1>19. /\ height <= above => height <= 0 \/ height + Gap <= anchor.top - safe.top
       /\ ~(height <= above) => ~(height + Gap <= anchor.top - safe.top) /\ height > 0
  BY <1>1, <1>2, <1>4, <1>6
<1>20. /\ ~(height <= above) /\ height <= below => height + Gap <= safe.bottom - anchor.bottom
       /\ ~(height <= below) => ~(height + Gap <= safe.bottom - anchor.bottom)
  BY <1>1, <1>2, <1>4, <1>6, <1>7
<1>21. QED
  BY <1>3, <1>4, <1>5, <1>8, <1>9, <1>11, <1>12, <1>16, <1>17, <1>18, <1>19, <1>20 DEF PlacedRight

\* The ranges that a bar may be over.
BarRanges == {NoRect} \cup {s.range : s \in Scenes}

\* The states of a bar.
BarRecords ==
    [kind : {"block", "part"}, ranging : BOOLEAN, range : BarRanges, x : Int, y : Int,
     limit : Nat \cup {NoRect}, shown : BOOLEAN,
     side : {"none", "above", "below", "dock-top", "dock-bottom"}, scheduled : BOOLEAN]

\* A bar at rest in a scene.
BarStands(s, b) ==
    /\ VisibleClip(s) # NoRect =>
         /\ b.shown
         /\ BarCorner(s, b) = Corner(PlaceOf(s, b)) /\ b.side = PlaceOf(s, b).side
         /\ b.kind = "block" => /\ b.limit \in Nat
                                /\ s.scale * b.limit <= Wide(Safe(VisibleClip(s)))
    /\ VisibleClip(s) = NoRect => (b.shown <=> b.kind = "part")

\* The inductive invariant of the bar: unless a placing is due, it stands where it belongs.
BarInv ==
    /\ scene \in Scenes /\ shifts \in 0 .. MaxShifts
    /\ actionBar \in BarRecords
    /\ actionBar.kind = "part" => actionBar.shown
    /\ ~actionBar.scheduled => BarStands(scene, actionBar)

\* What is assumed of a scene.
LEMMA SceneIs ==
    ASSUME NEW s \in Scenes
    PROVE  /\ Gap \in Nat /\ NoRect \notin Int
           /\ s.scale \in Nat \ {0} /\ s.size.width \in Nat /\ s.size.height \in Nat
           /\ Whole(Gap, s.scale) /\ IsFiniteSet(Avoided(s, [kind |-> "block"])) /\ IsFiniteSet(s.busy)
           /\ WholeEdges(s.overlay, s.scale) /\ WholeEdges(Around({s.overlay} \cup s.panels), s.scale)
           /\ VisibleClip(s) # NoRect => WholeEdges(VisibleClip(s), s.scale)
           /\ \A t \in Scenes : t.range # NoRect => WholeEdges(t.range, s.scale)
BY ActionBarAssumption DEF Avoided

\* What the bar is anchored to has its edges on whole pixels.
LEMMA AnchorIs ==
    ASSUME NEW s \in Scenes, NEW b, b.range \in BarRanges
    PROVE  WholeEdges(AnchorOf(s, b), s.scale)
<1>1. b.range # NoRect => WholeEdges(b.range, s.scale)
  BY SceneIs DEF BarRanges
<1>2. s.range # NoRect => WholeEdges(s.range, s.scale)
  BY SceneIs
<1>3. WholeEdges(s.overlay, s.scale) /\ WholeEdges(Around({s.overlay} \cup s.panels), s.scale)
  BY SceneIs
<1>4. QED
  BY <1>1, <1>2, <1>3, Zenon DEF AnchorOf

\* The size of a bar, and what it may be at most.
LEMMA BarSizeIs ==
    ASSUME NEW s \in Scenes, NEW b, b.limit \in Nat \cup {NoRect}
    PROVE  /\ BarSize(s, b).width \in Nat /\ BarSize(s, b).height \in Nat
           /\ Whole(BarSize(s, b).width, s.scale) /\ Whole(BarSize(s, b).height, s.scale)
           /\ b.limit \in Nat => BarSize(s, b).width <= s.scale * b.limit
<1>1. /\ s.scale \in Nat \ {0} /\ s.size.width \in Nat /\ s.size.height \in Nat /\ NoRect \notin Int
  BY SceneIs
<1>2. PICK m : m = IF b.limit = NoRect THEN s.size.width ELSE Min({b.limit, s.size.width})
  OBVIOUS
<1>3. m \in Nat /\ (b.limit \in Nat => m <= b.limit)
  <2>1. CASE b.limit = NoRect
    BY <1>1, <1>2, <2>1
  <2>2. CASE b.limit # NoRect
    <3>1. b.limit \in Nat
      BY <2>2
    <3>2. Min({b.limit, s.size.width}) = IF b.limit <= s.size.width THEN b.limit ELSE s.size.width
      BY <1>1, <3>1, LesserIs
    <3>3. QED
      BY <1>1, <1>2, <2>2, <3>1, <3>2
  <2>3. QED
    BY <2>1, <2>2
<1>4. PICK n \in Nat \ {0} : n = s.scale
  BY <1>1
<1>5. n * m \in Nat /\ n * s.size.height \in Nat
  BY <1>1, <1>3
<1>6. Whole(n * m, n) /\ Whole(n * s.size.height, n)
  <2>1. m \in Int /\ s.size.height \in Int
    BY <1>1, <1>3
  <2>2. QED
    BY <2>1, WholeTimes, Zenon
<1>7. ASSUME b.limit \in Nat PROVE n * m <= n * b.limit
  BY <1>7, <1>3
<1>8. BarSize(s, b) = [width |-> n * m, height |-> n * s.size.height]
  BY <1>2, <1>4 DEF BarSize
<1>9. QED
  BY <1>4, <1>5, <1>6, <1>7, <1>8

\* A place is at whole pixels.
LEMMA PlaceIsWhole ==
    ASSUME NEW s \in Scenes, VisibleClip(s) # NoRect,
           NEW b, b.range \in BarRanges, b.limit \in Nat \cup {NoRect}
    PROVE  /\ Whole(PlaceOf(s, b).left, s.scale) /\ Whole(PlaceOf(s, b).top, s.scale)
           /\ PlaceOf(s, b).side \in {"above", "below", "dock-top", "dock-bottom"}
<1>1. PICK n \in Nat \ {0} : n = s.scale
  BY SceneIs
<1>2. PICK anchor : anchor = AnchorOf(s, b)
  OBVIOUS
<1>3. PICK size : size = BarSize(s, b)
  OBVIOUS
<1>4. PICK clip : clip = VisibleClip(s)
  OBVIOUS
<1>5. PICK avoid : avoid = Avoided(s, b)
  OBVIOUS
<1>6. PICK safe : safe = Safe(clip)
  OBVIOUS
<1>7. PICK p : p = Placed(anchor, size, clip, avoid)
  OBVIOUS
<1>8. p = PlaceOf(s, b)
  BY <1>2, <1>3, <1>4, <1>5, <1>7 DEF PlaceOf
<1>9. Gap \in Nat /\ Whole(Gap, n)
  BY <1>1, SceneIs
<1>10. WholeEdges(anchor, n) /\ WholeEdges(clip, n)
  BY <1>1, <1>2, <1>4, AnchorIs, SceneIs
<1>11. /\ IntEdges(anchor) /\ Whole(anchor.top, n) /\ Whole(anchor.right, n) /\ Whole(anchor.bottom, n)
  BY <1>10, WholeEdgesAre
<1>12. /\ IntEdges(clip) /\ Whole(clip.left, n) /\ Whole(clip.top, n) /\ Whole(clip.right, n)
       /\ Whole(clip.bottom, n)
  BY <1>10, WholeEdgesAre
<1>13. size.width \in Nat /\ size.height \in Nat /\ Whole(size.width, n) /\ Whole(size.height, n)
  BY <1>1, <1>3, BarSizeIs
<1>14. IsFiniteSet(avoid)
  BY <1>5, SceneIs, FS_EmptySet DEF Avoided
<1>15. /\ IntEdges(safe) /\ safe.left \in {clip.right, clip.left + Gap} /\ safe.top \in {clip.bottom, clip.top + Gap}
       /\ safe.right \in {safe.left, clip.right - Gap} /\ safe.bottom \in {safe.top, clip.bottom - Gap}
       /\ Wide(safe) \in Nat /\ High(safe) \in Nat
  BY <1>6, <1>9, <1>12, SafeIs
<1>16. Whole(safe.left, n) /\ Whole(safe.top, n)
  BY <1>9, <1>12, <1>15, WholeSum
<1>17. Whole(safe.right, n) /\ Whole(safe.bottom, n)
  BY <1>9, <1>12, <1>15, <1>16, WholeSum
<1>18. Whole(Wide(safe), n) /\ Whole(High(safe), n)
  BY <1>16, <1>17, WholeSum DEF Wide, High
<1>19. PICK width : width = IF size.width <= Wide(safe) THEN size.width ELSE Wide(safe)
  OBVIOUS
<1>20. PICK height : height = IF size.height <= High(safe) THEN size.height ELSE High(safe)
  OBVIOUS
<1>21. Whole(width, n) /\ Whole(height, n)
  BY <1>13, <1>18, <1>19, <1>20
<1>22. PICK near : near = IF avoid = {} THEN {anchor} ELSE avoid
  OBVIOUS
<1>23. PlacedRight(p, anchor, safe, width, height, near)
  BY <1>6, <1>7, <1>9, <1>11, <1>12, <1>13, <1>14, <1>19, <1>20, <1>22, PlacedIs
<1>24. /\ p.side \in {"above", "below", "dock-top", "dock-bottom"}
       /\ p.left = Clamped(anchor.right - width, safe.left, safe.right - width)
       /\ p.side = "above" => p.top = Clamped(anchor.top - Gap - height, safe.top, safe.bottom - height)
       /\ p.side = "below" => p.top = Clamped(anchor.bottom + Gap, safe.top, safe.bottom - height)
       /\ p.side = "dock-top" => p.top = Clamped(safe.top, safe.top, safe.bottom - height)
       /\ p.side = "dock-bottom" => p.top = Clamped(safe.bottom - height, safe.top, safe.bottom - height)
  BY <1>23 DEF PlacedRight
<1>25. ASSUME NEW v, NEW l, NEW m, Whole(v, n), Whole(l, n), Whole(m, n)
       PROVE  Whole(Clamped(v, l, m), n)
  <2>1. v \in Int /\ l \in Int /\ m \in Int
    BY <1>25 DEF Whole
  <2>2. Clamped(v, l, m) \in {v, l, m}
    BY <2>1, ClampedIs
  <2>3. QED
    BY <1>25, <2>2
<1>26. Whole(p.left, n)
  BY <1>11, <1>17, <1>21, <1>16, <1>24, <1>25, WholeSum
<1>27. Whole(p.top, n)
  BY <1>9, <1>11, <1>17, <1>21, <1>16, <1>24, <1>25, WholeSum
<1>28. QED
  BY <1>1, <1>8, <1>24, <1>26, <1>27

\* An edge that is moved by pixels of the bar.
Shifted(o, n, x) == o + n * x

\* A translation of whole pixels arrives.
LEMMA Arrives ==
    ASSUME NEW n \in Nat \ {0}, NEW x \in Int, NEW o, NEW t, Whole(o, n), Whole(t, n),
           NEW at, at = Shifted(o, n, x), NEW d, d = (t - at) \div n, NEW y, y = x + d
    PROVE  d \in Int /\ Shifted(o, n, y) = t
<1>1. Whole(n * x, n)
  BY WholeTimes
<1>2. PICK z : z = n * x
  OBVIOUS
<1>3. Whole(o + z, n)
  BY <1>1, <1>2, WholeSum
<1>4. Whole(t - at, n)
  BY <1>2, <1>3, WholeSum DEF Shifted
<1>5. PICK k \in Int : t - at = k * n /\ k = (t - at) \div n
  BY <1>4, WholeIs
<1>6. o \in Int /\ t \in Int
  BY DEF Whole
<1>7. n * (x + k) = n * x + k * n
  OBVIOUS
<1>8. PICK w \in Int : w = n * (x + k)
  OBVIOUS
<1>9. w = z + (t - at)
  BY <1>2, <1>5, <1>7, <1>8
<1>10. z \in Int
  BY <1>2
<1>11. at = o + z
  BY <1>2 DEF Shifted
<1>12. o + w = t
  BY <1>6, <1>8, <1>9, <1>10, <1>11
<1>13. y = x + k
  BY <1>5
<1>14. Shifted(o, n, y) = o + w
  BY <1>8, <1>13 DEF Shifted
<1>15. QED
  BY <1>5, <1>12, <1>14

\* The fields of a bar.
LEMMA RecordOfBar ==
    ASSUME NEW b \in BarRecords
    PROVE  b = [kind |-> b.kind, ranging |-> b.ranging, range |-> b.range, x |-> b.x, y |-> b.y,
                limit |-> b.limit, shown |-> b.shown, side |-> b.side, scheduled |-> b.scheduled]
           /\ b.kind \in {"block", "part"} /\ b.ranging \in BOOLEAN /\ b.range \in BarRanges
           /\ b.x \in Int /\ b.y \in Int /\ b.limit \in Nat \cup {NoRect} /\ b.shown \in BOOLEAN
           /\ b.side \in {"none", "above", "below", "dock-top", "dock-bottom"}
           /\ b.scheduled \in BOOLEAN
BY DEF BarRecords

\* The widest a bar may be.
LEMMA LimitedIs ==
    ASSUME NEW s \in Scenes, VisibleClip(s) # NoRect, NEW b \in BarRecords
    PROVE  /\ Limited(s, b) \in BarRecords
           /\ Limited(s, b).kind = b.kind /\ Limited(s, b).shown = b.shown
           /\ Limited(s, b).scheduled = b.scheduled
           /\ b.kind = "block" => /\ Limited(s, b).limit \in Nat
                                  /\ s.scale * Limited(s, b).limit <= Wide(Safe(VisibleClip(s)))
<1>1. CASE b.kind = "part"
  BY <1>1 DEF Limited
<1>2. CASE b.kind # "part"
  <2>1. PICK clip : clip = VisibleClip(s)
    OBVIOUS
  <2>2. PICK n \in Nat \ {0} : n = s.scale
    BY SceneIs
  <2>3. WholeEdges(clip, n) /\ Whole(Gap, n) /\ Gap \in Nat
    BY <2>1, <2>2, SceneIs
  <2>4. IntEdges(clip) /\ Whole(clip.left, n) /\ Whole(clip.right, n)
    BY <2>3, WholeEdgesAre
  <2>5. Wide(Safe(clip)) \in Nat /\ Wide(clip) - 2 * Gap <= Wide(Safe(clip))
    BY <2>3, <2>4, SafeIs
  <2>6. PICK room : room = Wide(clip) - 2 * Gap
    OBVIOUS
  <2>7. Whole(room, n)
    BY <2>4, <2>3, <2>6, WholeSum DEF Wide
  <2>8. room \in Int
    BY <2>7 DEF Whole
  <2>9. PICK most : most = Max({0, room})
    OBVIOUS
  <2>10. most = (IF 0 >= room THEN 0 ELSE room) /\ most \in Nat
    BY <2>8, <2>9, GreaterIs
  <2>11. Whole(most, n)
    BY <2>7, <2>10, WholeTimes
  <2>12. PICK limit \in Int : most = limit * n /\ limit = most \div n
    BY <2>11, WholeIs
  <2>13. limit \in Nat
    BY <2>10, <2>12
  <2>14. n * limit = limit * n
    BY Product
  <2>15. n * limit <= Wide(Safe(clip))
    BY <2>5, <2>6, <2>8, <2>10, <2>12, <2>14
  <2>16. PICK c : c = Limited(s, b)
    OBVIOUS
  <2>17. c = [b EXCEPT !.limit = limit]
    BY <1>2, <2>1, <2>2, <2>6, <2>9, <2>12, <2>16 DEF Limited
  <2>18. c = [kind |-> b.kind, ranging |-> b.ranging, range |-> b.range, x |-> b.x, y |-> b.y,
              limit |-> limit, shown |-> b.shown, side |-> b.side, scheduled |-> b.scheduled]
    BY <2>17, RecordOfBar
  <2>19. c \in BarRecords
    BY <2>13, <2>18, RecordOfBar DEF BarRecords
  <2>20. c.kind = b.kind /\ c.shown = b.shown /\ c.scheduled = b.scheduled /\ c.limit = limit
    BY <2>18
  <2>21. QED
    BY <2>1, <2>2, <2>13, <2>15, <2>16, <2>19, <2>20
<1>3. QED
  BY <1>1, <1>2, RecordOfBar

\* The styles of a bar that do not matter to its place.
LEMMA SamePlace ==
    ASSUME NEW s, NEW b, NEW c, c.kind = b.kind, c.ranging = b.ranging, c.range = b.range,
           c.limit = b.limit
    PROVE  PlaceOf(s, c) = PlaceOf(s, b)
BY DEF AnchorOf, BarSize, Avoided, PlaceOf

\* A bar that is placed stands.
LEMMA SyncedStands ==
    ASSUME NEW s \in Scenes, NEW b \in BarRecords, b.kind = "part" => b.shown
    PROVE  /\ Synced(s, b) \in BarRecords /\ Synced(s, b).kind = b.kind
           /\ b.kind = "part" => Synced(s, b).shown
           /\ BarStands(s, Synced(s, b))
<1>1. PICK off \in BOOLEAN : off = FALSE
  BY Zenon
<1>2. PICK on \in BOOLEAN : on = TRUE
  BY Zenon
<1>3. PICK c : c = Synced(s, b)
  OBVIOUS
<1>4. b = [kind |-> b.kind, ranging |-> b.ranging, range |-> b.range, x |-> b.x, y |-> b.y,
           limit |-> b.limit, shown |-> b.shown, side |-> b.side, scheduled |-> b.scheduled]
  BY RecordOfBar
<1>5. CASE VisibleClip(s) = NoRect
  <2>1. PICK shown \in BOOLEAN : shown = (b.shown /\ b.kind = "part")
    BY Zenon
  <2>2. c = [b EXCEPT !.scheduled = off, !.shown = shown]
    BY <1>1, <1>3, <1>5, <2>1, Zenon DEF Synced
  <2>3. c = [kind |-> b.kind, ranging |-> b.ranging, range |-> b.range, x |-> b.x, y |-> b.y,
             limit |-> b.limit, shown |-> shown, side |-> b.side, scheduled |-> off]
    BY <1>4, <2>2
  <2>4. c \in BarRecords
    BY <2>3, RecordOfBar DEF BarRecords
  <2>5. c.kind = b.kind /\ c.shown = shown
    BY <2>3
  <2>6. shown <=> b.kind = "part"
    BY <2>1, RecordOfBar
  <2>7. BarStands(s, c)
    BY <1>5, <2>5, <2>6 DEF BarStands
  <2>8. QED
    BY <1>3, <2>4, <2>5, <2>6, <2>7
<1>6. CASE VisibleClip(s) # NoRect
  <2>1. PICK bare : bare = [b EXCEPT !.scheduled = off]
    OBVIOUS
  <2>2. bare = [kind |-> b.kind, ranging |-> b.ranging, range |-> b.range, x |-> b.x, y |-> b.y,
                limit |-> b.limit, shown |-> b.shown, side |-> b.side, scheduled |-> off]
    BY <1>4, <2>1
  <2>3. bare \in BarRecords /\ bare.kind = b.kind
    BY <2>2, RecordOfBar DEF BarRecords
  <2>4. PICK seen : seen = Limited(s, bare)
    OBVIOUS
  <2>5. /\ seen \in BarRecords /\ seen.kind = b.kind
        /\ b.kind = "block" => seen.limit \in Nat /\ s.scale * seen.limit <= Wide(Safe(VisibleClip(s)))
    BY <1>6, <2>3, <2>4, LimitedIs
  <2>6. PICK target : target = PlaceOf(s, seen)
    OBVIOUS
  <2>7. /\ Whole(target.left, s.scale) /\ Whole(target.top, s.scale)
        /\ target.side \in {"above", "below", "dock-top", "dock-bottom"}
    BY <1>6, <2>5, <2>6, PlaceIsWhole, RecordOfBar
  <2>8. PICK moved : moved = Moved(s, seen, target)
    OBVIOUS
  <2>9. c = [moved EXCEPT !.shown = on, !.side = target.side]
    <3>1. c = [Moved(s, seen, PlaceOf(s, seen)) EXCEPT !.shown = TRUE, !.side = PlaceOf(s, seen).side]
      BY <1>1, <1>3, <1>6, <2>1, <2>4, Zenon DEF Synced
    <3>2. QED
      BY <1>2, <2>6, <2>8, <3>1, Zenon
  <2>10. PICK at : at = BarCorner(s, seen)
    OBVIOUS
  <2>11. at.left = s.overlay.left + s.scale * seen.x /\ at.top = s.overlay.top + s.scale * seen.y
    BY <2>10 DEF BarCorner
  <2>12. PICK dx : dx = (target.left - at.left) \div s.scale
    OBVIOUS
  <2>13. PICK dy : dy = (target.top - at.top) \div s.scale
    OBVIOUS
  <2>14. s.scale \in Nat \ {0} /\ Whole(s.overlay.left, s.scale) /\ Whole(s.overlay.top, s.scale)
    BY SceneIs, WholeEdgesAre
  <2>15. seen.x \in Int /\ seen.y \in Int
    BY <2>5, RecordOfBar
  <2>16. dx \in Int /\ Shifted(s.overlay.left, s.scale, seen.x + dx) = target.left
    <3>1. PICK n \in Nat \ {0} : n = s.scale
      BY <2>14
    <3>2. PICK old \in Int : old = seen.x
      BY <2>15
    <3>3. PICK o : o = s.overlay.left
      OBVIOUS
    <3>4. PICK t : t = target.left
      OBVIOUS
    <3>5. PICK was : was = at.left
      OBVIOUS
    <3>6. PICK new : new = old + dx
      OBVIOUS
    <3>7. Whole(o, n) /\ Whole(t, n) /\ dx = (t - was) \div n
      BY <2>7, <2>12, <2>14, <3>1, <3>3, <3>4, <3>5
    <3>8. was = Shifted(o, n, old)
      BY <2>11, <3>1, <3>2, <3>3, <3>5 DEF Shifted
    <3>9. dx \in Int /\ Shifted(o, n, new) = t
      BY <3>6, <3>7, <3>8, Arrives
    <3>10. QED
      BY <3>1, <3>2, <3>3, <3>4, <3>6, <3>9
  <2>17. dy \in Int /\ Shifted(s.overlay.top, s.scale, seen.y + dy) = target.top
    <3>1. PICK n \in Nat \ {0} : n = s.scale
      BY <2>14
    <3>2. PICK old \in Int : old = seen.y
      BY <2>15
    <3>3. PICK o : o = s.overlay.top
      OBVIOUS
    <3>4. PICK t : t = target.top
      OBVIOUS
    <3>5. PICK was : was = at.top
      OBVIOUS
    <3>6. PICK new : new = old + dy
      OBVIOUS
    <3>7. Whole(o, n) /\ Whole(t, n) /\ dy = (t - was) \div n
      BY <2>7, <2>13, <2>14, <3>1, <3>3, <3>4, <3>5
    <3>8. was = Shifted(o, n, old)
      BY <2>11, <3>1, <3>2, <3>3, <3>5 DEF Shifted
    <3>9. dy \in Int /\ Shifted(o, n, new) = t
      BY <3>6, <3>7, <3>8, Arrives
    <3>10. QED
      BY <3>1, <3>2, <3>3, <3>4, <3>6, <3>9
  <2>18. PICK x \in Int : x = seen.x + dx
    BY <2>15, <2>16
  <2>19. PICK y \in Int : y = seen.y + dy
    BY <2>15, <2>17
  <2>20. moved = [seen EXCEPT !.x = x, !.y = y]
    BY <2>8, <2>10, <2>12, <2>13, <2>18, <2>19 DEF Moved
  <2>21. c = [kind |-> seen.kind, ranging |-> seen.ranging, range |-> seen.range, x |-> x, y |-> y,
              limit |-> seen.limit, shown |-> on, side |-> target.side, scheduled |-> seen.scheduled]
    <3>1. seen = [kind |-> seen.kind, ranging |-> seen.ranging, range |-> seen.range, x |-> seen.x,
                  y |-> seen.y, limit |-> seen.limit, shown |-> seen.shown, side |-> seen.side,
                  scheduled |-> seen.scheduled]
      BY <2>5, RecordOfBar
    <3>2. moved = [kind |-> seen.kind, ranging |-> seen.ranging, range |-> seen.range, x |-> x, y |-> y,
              limit |-> seen.limit, shown |-> seen.shown, side |-> seen.side, scheduled |-> seen.scheduled]
      BY <2>20, <3>1
    <3>3. QED
      BY <2>9, <3>2
  <2>22. c \in BarRecords
    BY <2>5, <2>7, <2>21, RecordOfBar DEF BarRecords
  <2>23. /\ c.kind = b.kind /\ c.kind = seen.kind /\ c.ranging = seen.ranging /\ c.range = seen.range
         /\ c.limit = seen.limit /\ c.x = x /\ c.y = y /\ c.side = target.side /\ c.shown = on
    BY <2>5, <2>21
  <2>24. PlaceOf(s, c) = target
    BY <2>6, <2>23, SamePlace
  <2>25. BarCorner(s, c) = Corner(target)
    BY <2>16, <2>17, <2>18, <2>19, <2>23 DEF BarCorner, Corner, Shifted
  <2>26. c.shown
    BY <1>2, <2>23
  <2>27. BarStands(s, c)
    BY <1>6, <2>5, <2>23, <2>24, <2>25, <2>26 DEF BarStands
  <2>28. QED
    BY <1>3, <2>22, <2>23, <2>26, <2>27
<1>7. QED
  BY <1>5, <1>6

\* A rectangle without height covers nothing.
LEMMA FlatIsNothing ==
    ASSUME NEW r, NEW rects, r.top \in Int, r.bottom \in Int, r.bottom <= r.top
    PROVE  Covered(r, rects) = 0
<1>1. Pixels(r) = {}
  BY DEF Pixels
<1>2. {shared \in Pixels(r) \X rects : shared[1] \in Pixels(shared[2])} = {}
  BY <1>1
<1>3. Covered(r, rects) = Cardinality({})
  BY <1>2 DEF Covered
<1>4. QED
  BY <1>3, FS_EmptySet

\* What is known of a place in a scene.
LEMMA PlaceIsRight ==
    ASSUME NEW s \in Scenes, VisibleClip(s) # NoRect,
           NEW b, b.range \in BarRanges, b.limit \in Nat \cup {NoRect},
           NEW anchor, anchor = AnchorOf(s, b), NEW safe, safe = Safe(VisibleClip(s)),
           NEW size, size = BarSize(s, b), NEW width, NEW height,
           width = IF size.width <= Wide(safe) THEN size.width ELSE Wide(safe),
           height = IF size.height <= High(safe) THEN size.height ELSE High(safe),
           NEW near, near = IF Avoided(s, b) = {} THEN {anchor} ELSE Avoided(s, b)
    PROVE  /\ PlacedRight(PlaceOf(s, b), anchor, safe, width, height, near)
           /\ IntEdges(anchor) /\ IntEdges(safe) /\ IsFiniteSet(near)
           /\ size.width \in Nat /\ size.height \in Nat /\ Wide(safe) \in Nat /\ High(safe) \in Nat
<1>1. PICK n \in Nat \ {0} : n = s.scale
  BY SceneIs
<1>2. PICK clip : clip = VisibleClip(s)
  OBVIOUS
<1>3. PICK avoid : avoid = Avoided(s, b)
  OBVIOUS
<1>4. PICK p : p = Placed(anchor, size, clip, avoid)
  OBVIOUS
<1>5. p = PlaceOf(s, b)
  BY <1>2, <1>3, <1>4 DEF PlaceOf
<1>6. WholeEdges(anchor, n) /\ WholeEdges(clip, n)
  BY <1>1, <1>2, AnchorIs, SceneIs
<1>7. IntEdges(anchor) /\ IntEdges(clip)
  BY <1>6, WholeEdgesAre
<1>8. size.width \in Nat /\ size.height \in Nat
  BY BarSizeIs
<1>9. IsFiniteSet(avoid)
  BY <1>3, SceneIs, FS_EmptySet DEF Avoided
<1>10. Gap \in Nat
  BY SceneIs
<1>11. IntEdges(safe) /\ Wide(safe) \in Nat /\ High(safe) \in Nat
  BY <1>2, <1>7, <1>10, SafeIs
<1>12. safe = Safe(clip) /\ near = IF avoid = {} THEN {anchor} ELSE avoid
  BY <1>2, <1>3
<1>13. PlacedRight(p, anchor, safe, width, height, near)
  BY <1>4, <1>7, <1>8, <1>9, <1>10, <1>12, PlacedIs
<1>14. IsFiniteSet(near)
  BY <1>9, <1>12, FS_Singleton
<1>15. QED
  BY <1>5, <1>7, <1>8, <1>11, <1>13, <1>14

\* The rectangle of a bar that stands.
LEMMA BarRectIs ==
    ASSUME NEW s \in Scenes, VisibleClip(s) # NoRect, NEW b \in BarRecords, BarStands(s, b),
           NEW p, p = PlaceOf(s, b), NEW size, size = BarSize(s, b)
    PROVE  BarRect(s, b) = Edges(p.left, p.top, p.left + size.width, p.top + size.height)
BY DEF BarStands, Corner, BarRect

\* A bar that stands where it belongs and fits is visible as a whole.
LEMMA StandsReachable ==
    ASSUME NEW s \in Scenes, VisibleClip(s) # NoRect, NEW b \in BarRecords, BarStands(s, b),
           NEW bar, bar = BarRect(s, b), NEW safe, safe = Safe(VisibleClip(s))
    PROVE  /\ Wide(bar) <= Wide(safe) => safe.left <= bar.left /\ bar.right <= safe.right
           /\ High(bar) <= High(safe) => safe.top <= bar.top /\ bar.bottom <= safe.bottom
           /\ b.kind = "block" => Wide(bar) <= Wide(safe)
<1>1. PICK p : p = PlaceOf(s, b)
  OBVIOUS
<1>2. PICK size : size = BarSize(s, b)
  OBVIOUS
<1>3. PICK anchor : anchor = AnchorOf(s, b)
  OBVIOUS
<1>4. PICK width : width = IF size.width <= Wide(safe) THEN size.width ELSE Wide(safe)
  OBVIOUS
<1>5. PICK height : height = IF size.height <= High(safe) THEN size.height ELSE High(safe)
  OBVIOUS
<1>6. PICK near : near = IF Avoided(s, b) = {} THEN {anchor} ELSE Avoided(s, b)
  OBVIOUS
<1>7. b.range \in BarRanges /\ b.limit \in Nat \cup {NoRect} /\ Gap \in Nat
  BY RecordOfBar, SceneIs
<1>8. /\ PlacedRight(p, anchor, safe, width, height, near)
      /\ IntEdges(anchor) /\ IntEdges(safe)
      /\ size.width \in Nat /\ size.height \in Nat /\ Wide(safe) \in Nat /\ High(safe) \in Nat
  BY <1>1, <1>2, <1>3, <1>4, <1>5, <1>6, <1>7, PlaceIsRight
<1>9. bar = Edges(p.left, p.top, p.left + size.width, p.top + size.height)
  BY <1>1, <1>2, BarRectIs
<1>10. bar.left = p.left /\ bar.top = p.top /\ bar.right = p.left + size.width
       /\ bar.bottom = p.top + size.height
  BY <1>9, EdgesAre
<1>11. /\ safe.left \in Int /\ safe.top \in Int /\ safe.right \in Int /\ safe.bottom \in Int
       /\ anchor.left \in Int /\ anchor.top \in Int /\ anchor.right \in Int /\ anchor.bottom \in Int
  BY <1>8 DEF IntEdges
<1>12. width \in Nat /\ height \in Nat
  BY <1>4, <1>5, <1>8
<1>13. /\ p.left \in Int
       /\ width <= Wide(safe) => safe.left <= p.left /\ p.left + width <= safe.right
  <2>1. PICK v \in Int : v = anchor.right - width
    BY <1>11, <1>12
  <2>2. PICK m \in Int : m = safe.right - width
    BY <1>11, <1>12
  <2>3. p.left = Clamped(v, safe.left, m)
    BY <1>8, <2>1, <2>2 DEF PlacedRight
  <2>4. p.left = IF m <= safe.left \/ v < safe.left THEN safe.left ELSE IF v > m THEN m ELSE v
    BY <1>11, <2>3, ClampedIs
  <2>5. p.left \in Int
    BY <1>11, <2>1, <2>2, <2>4
  <2>6. ASSUME width <= Wide(safe) PROVE safe.left <= p.left /\ p.left <= m
    BY <1>11, <1>12, <2>2, <2>6, <2>1, <2>4 DEF Wide
  <2>7. QED
    BY <1>11, <1>12, <2>2, <2>5, <2>6
<1>14. /\ p.top \in Int
       /\ height <= High(safe) => safe.top <= p.top /\ p.top + height <= safe.bottom
  <2>1. PICK m \in Int : m = safe.bottom - height
    BY <1>11, <1>12
  <2>2. PICK v \in Int : p.top = Clamped(v, safe.top, m)
    <3>1. /\ anchor.top - Gap - height \in Int /\ anchor.bottom + Gap \in Int /\ safe.top \in Int
          /\ safe.bottom - height \in Int
      BY <1>7, <1>11, <1>12
    <3>2. \/ p.top = Clamped(anchor.top - Gap - height, safe.top, m)
          \/ p.top = Clamped(anchor.bottom + Gap, safe.top, m)
          \/ p.top = Clamped(safe.top, safe.top, m)
          \/ p.top = Clamped(safe.bottom - height, safe.top, m)
      BY <1>8, <2>1 DEF PlacedRight
    <3>3. QED
      BY <3>1, <3>2, Zenon
  <2>3. p.top = IF m <= safe.top \/ v < safe.top THEN safe.top ELSE IF v > m THEN m ELSE v
    BY <1>11, <2>2, ClampedIs
  <2>4. p.top \in Int
    BY <1>11, <2>1, <2>2, <2>3
  <2>5. ASSUME height <= High(safe) PROVE safe.top <= p.top /\ p.top <= m
    BY <1>11, <1>12, <2>1, <2>5, <2>2, <2>3 DEF High
  <2>6. QED
    BY <1>11, <1>12, <2>1, <2>4, <2>5
<1>15. Wide(bar) = size.width /\ High(bar) = size.height
  BY <1>8, <1>10, <1>13, <1>14 DEF Wide, High
<1>16. ASSUME Wide(bar) <= Wide(safe) PROVE safe.left <= bar.left /\ bar.right <= safe.right
  BY <1>4, <1>15, <1>16, <1>10, <1>13
<1>17. ASSUME High(bar) <= High(safe) PROVE safe.top <= bar.top /\ bar.bottom <= safe.bottom
  BY <1>5, <1>15, <1>17, <1>10, <1>14
<1>18. ASSUME b.kind = "block" PROVE Wide(bar) <= Wide(safe)
  <2>1. b.limit \in Nat /\ s.scale * b.limit <= Wide(safe)
    BY <1>18 DEF BarStands
  <2>2. size.width <= s.scale * b.limit
    BY <1>2, <2>1, BarSizeIs
  <2>3. PICK most : most = s.scale * b.limit
    OBVIOUS
  <2>4. most \in Int
    <3>1. PICK scale \in Nat : scale = s.scale
      BY SceneIs
    <3>2. PICK limit \in Nat : limit = b.limit
      BY <2>1
    <3>3. scale * limit \in Int
      OBVIOUS
    <3>4. QED
      BY <2>3, <3>1, <3>2, <3>3
  <2>5. size.width <= Wide(safe)
    BY <1>8, <2>1, <2>2, <2>3, <2>4
  <2>6. QED
    BY <1>15, <2>5
<1>19. QED
  BY <1>16, <1>17, <1>18

\* A bar that stands where it belongs covers as little as it can.
LEMMA StandsClear ==
    ASSUME NEW s \in Scenes, VisibleClip(s) # NoRect, NEW b \in BarRecords, BarStands(s, b),
           NEW bar, bar = BarRect(s, b), NEW safe, safe = Safe(VisibleClip(s)),
           NEW anchor, anchor = AnchorOf(s, b),
           NEW near, near = IF Avoided(s, b) = {} THEN {anchor} ELSE Avoided(s, b),
           High(bar) <= High(safe), Wide(bar) <= Wide(safe)
    PROVE  IF High(bar) + Gap <= anchor.top - safe.top \/ High(bar) + Gap <= safe.bottom - anchor.bottom
           THEN Overlap(bar, anchor) = 0
           ELSE \A top \in {safe.top, safe.bottom - High(bar)} :
                  Covered(bar, near) <= Covered(Edges(bar.left, top, bar.right, top + High(bar)), near)
<1>1. PICK p : p = PlaceOf(s, b)
  OBVIOUS
<1>2. PICK size : size = BarSize(s, b)
  OBVIOUS
<1>3. PICK width : width = IF size.width <= Wide(safe) THEN size.width ELSE Wide(safe)
  OBVIOUS
<1>4. PICK height : height = IF size.height <= High(safe) THEN size.height ELSE High(safe)
  OBVIOUS
<1>5. b.range \in BarRanges /\ b.limit \in Nat \cup {NoRect} /\ Gap \in Nat
  BY RecordOfBar, SceneIs
<1>6. /\ PlacedRight(p, anchor, safe, width, height, near)
      /\ IntEdges(anchor) /\ IntEdges(safe) /\ IsFiniteSet(near)
      /\ size.width \in Nat /\ size.height \in Nat /\ Wide(safe) \in Nat /\ High(safe) \in Nat
  BY <1>1, <1>2, <1>3, <1>4, <1>5, PlaceIsRight
<1>7. bar = Edges(p.left, p.top, p.left + size.width, p.top + size.height)
  BY <1>1, <1>2, BarRectIs
<1>8. /\ bar.left = p.left /\ bar.top = p.top /\ bar.right = p.left + size.width
      /\ bar.bottom = p.top + size.height
  BY <1>7, EdgesAre
<1>9. /\ safe.left \in Int /\ safe.top \in Int /\ safe.right \in Int /\ safe.bottom \in Int
      /\ anchor.left \in Int /\ anchor.top \in Int /\ anchor.right \in Int /\ anchor.bottom \in Int
  BY <1>6 DEF IntEdges
<1>10. width \in Nat /\ height \in Nat
  BY <1>3, <1>4, <1>6
<1>11. PICK v1 \in Int : v1 = anchor.top - Gap - height
  BY <1>5, <1>9, <1>10
<1>12. PICK v2 \in Int : v2 = anchor.bottom + Gap
  BY <1>5, <1>9
<1>13. PICK m \in Int : m = safe.bottom - height
  BY <1>9, <1>10
<1>14. /\ p.side \in {"above", "below", "dock-top", "dock-bottom"}
       /\ p.side = "above" => /\ height <= 0 \/ height + Gap <= anchor.top - safe.top
                              /\ p.top = Clamped(v1, safe.top, m)
       /\ p.side # "above" => ~(height + Gap <= anchor.top - safe.top) /\ height > 0
       /\ p.side = "below" => /\ height + Gap <= safe.bottom - anchor.bottom
                              /\ p.top = Clamped(v2, safe.top, m)
       /\ p.side \notin {"above", "below"} => ~(height + Gap <= safe.bottom - anchor.bottom)
       /\ p.side = "dock-top" => p.top = Clamped(safe.top, safe.top, m)
       /\ p.side = "dock-bottom" => p.top = Clamped(m, safe.top, m)
  BY <1>6, <1>11, <1>12, <1>13 DEF PlacedRight
<1>15. /\ p.side = "dock-top" =>
            Covered(Edges(p.left, safe.top, p.left + width, safe.top + height), near)
            <= Covered(Edges(p.left, m, p.left + width, safe.bottom), near)
       /\ p.side = "dock-bottom" =>
            Covered(Edges(p.left, m, p.left + width, safe.bottom), near)
            <= Covered(Edges(p.left, safe.top, p.left + width, safe.top + height), near)
  BY <1>6, <1>13 DEF PlacedRight
<1>16. /\ Clamped(v1, safe.top, m) = IF m <= safe.top \/ v1 < safe.top THEN safe.top ELSE IF v1 > m THEN m ELSE v1
       /\ Clamped(v2, safe.top, m) = IF m <= safe.top \/ v2 < safe.top THEN safe.top ELSE IF v2 > m THEN m ELSE v2
       /\ Clamped(safe.top, safe.top, m) = IF m <= safe.top \/ safe.top < safe.top THEN safe.top
                                           ELSE IF safe.top > m THEN m ELSE safe.top
       /\ Clamped(m, safe.top, m) = IF m <= safe.top \/ m < safe.top THEN safe.top ELSE IF m > m THEN m ELSE m
  BY <1>9, ClampedIs
<1>17. p.top \in Int
  BY <1>9, <1>14, <1>16
<1>18. p.left \in Int
  <2>1. PICK v \in Int : v = anchor.right - width
    BY <1>9, <1>10
  <2>2. PICK w \in Int : w = safe.right - width
    BY <1>9, <1>10
  <2>3. p.left = Clamped(v, safe.left, w)
    BY <1>6, <2>1, <2>2 DEF PlacedRight
  <2>4. safe.left \in Int
    BY <1>9
  <2>5. Clamped(v, safe.left, w) \in Int
    BY <2>4, ClampedIs
  <2> QED
    BY <2>3, <2>5
<1>19. Wide(bar) = size.width /\ High(bar) = size.height
  BY <1>6, <1>8, <1>17, <1>18 DEF Wide, High
<1>20. width = size.width /\ height = size.height /\ High(bar) = height /\ height <= High(safe)
  BY <1>3, <1>4, <1>19
<1>21. safe.top <= m
  BY <1>9, <1>10, <1>13, <1>20 DEF High
<1>22. ASSUME height + Gap <= anchor.top - safe.top \/ height + Gap <= safe.bottom - anchor.bottom
       PROVE  Overlap(bar, anchor) = 0
  <2>1. p.side \in {"above", "below"}
    BY <1>14, <1>22
  <2>2. bar.top \in Int /\ bar.bottom \in Int /\ bar.top = p.top /\ bar.bottom = p.top + height
    BY <1>8, <1>10, <1>17, <1>20
  <2>3. ASSUME p.side = "above" PROVE bar.bottom <= anchor.top \/ bar.bottom <= bar.top
    <3>1. ASSUME height + Gap <= anchor.top - safe.top PROVE p.top + height <= anchor.top
      BY <1>14, <1>16, <2>3, <1>5, <1>9, <1>10, <1>11, <3>1, <1>17
    <3>2. CASE height <= 0
      BY <1>10, <1>17, <2>2, <3>2
    <3>3. QED
      BY <1>14, <2>2, <2>3, <3>1, <3>2
  <2>4. ASSUME p.side = "below" PROVE anchor.bottom <= bar.top
    <3>1. p.top = IF m <= safe.top \/ v2 < safe.top THEN safe.top ELSE IF v2 > m THEN m ELSE v2
      BY <1>14, <1>16, <2>4
    <3>2. v2 <= m
      BY <1>5, <1>9, <1>10, <1>12, <1>13, <1>14, <2>4
    <3>3. v2 <= p.top
      BY <1>9, <1>21, <3>1, <3>2
    <3>4. QED
      BY <1>5, <1>9, <1>12, <1>17, <2>2, <3>3
  <2>5. QED
    BY <1>9, <2>1, <2>2, <2>3, <2>4, ApartIsNothing
<1>23. ASSUME ~(height + Gap <= anchor.top - safe.top), ~(height + Gap <= safe.bottom - anchor.bottom),
              NEW top \in {safe.top, m}
       PROVE  Covered(bar, near) <= Covered(Edges(bar.left, top, bar.right, top + height), near)
  <2>1. PICK onTop : onTop = Edges(p.left, safe.top, p.left + width, safe.top + height)
    OBVIOUS
  <2>2. PICK atBottom : atBottom = Edges(p.left, m, p.left + width, safe.bottom)
    OBVIOUS
  <2>3. PICK there : there = Edges(bar.left, top, bar.right, top + height)
    OBVIOUS
  <2>4. m + height = safe.bottom
    BY <1>9, <1>10, <1>13
  <2>5. there \in {onTop, atBottom}
    BY <1>8, <1>20, <1>23, <2>1, <2>2, <2>3, <2>4
  <2>6. Covered(onTop, near) \in Nat /\ Covered(atBottom, near) \in Nat
    BY <1>9, <1>10, <1>18, <2>1, <2>2, <1>6, CoveredIs DEF Edges
  <2>7. p.side # "below"
    BY <1>14, <1>23
  <2>8. ASSUME p.side = "above" PROVE Covered(bar, near) <= Covered(there, near)
    <3>1. height <= 0
      BY <1>14, <1>23, <2>8
    <3>2. bar.top \in Int /\ bar.bottom \in Int /\ bar.bottom <= bar.top
      BY <1>8, <1>10, <1>17, <1>20, <3>1
    <3>3. Covered(bar, near) = 0
      BY <3>2, FlatIsNothing
    <3>4. Covered(there, near) \in Nat
      BY <2>5, <2>6
    <3>5. QED
      BY <3>3, <3>4
  <2>9. ASSUME p.side = "dock-top" PROVE Covered(bar, near) <= Covered(there, near)
    <3>1. p.top = safe.top
      BY <1>9, <1>14, <1>16, <1>21, <2>9
    <3>2. bar = onTop
      BY <1>7, <1>20, <2>1, <3>1
    <3>3. Covered(onTop, near) <= Covered(atBottom, near)
      BY <1>15, <2>1, <2>2, <2>9
    <3>4. QED
      BY <2>5, <2>6, <3>2, <3>3
  <2>10. ASSUME p.side = "dock-bottom" PROVE Covered(bar, near) <= Covered(there, near)
    <3>1. p.top = m
      BY <1>9, <1>14, <1>16, <1>21, <2>10
    <3>2. bar = atBottom
      BY <1>7, <1>20, <2>2, <2>4, <3>1
    <3>3. Covered(atBottom, near) <= Covered(onTop, near)
      BY <1>15, <2>1, <2>2, <2>10
    <3>4. QED
      BY <2>5, <2>6, <3>2, <3>3
  <2>11. QED
    BY <1>14, <2>3, <2>7, <2>8, <2>9, <2>10
<1>24. QED
  BY <1>13, <1>20, <1>22, <1>23

\* What the invariant says of the bar.
LEMMA BarIsRight == BarInv => ActionBarTypeOK /\ BarInPlace /\ BarIsReachable /\ BarCoversLittle
<1>1. SUFFICES ASSUME BarInv
               PROVE  ActionBarTypeOK /\ BarInPlace /\ BarIsReachable /\ BarCoversLittle
  OBVIOUS
<1>2. scene \in Scenes /\ shifts \in 0 .. MaxShifts /\ actionBar \in BarRecords
  BY <1>1 DEF BarInv
<1>3. ActionBarTypeOK
  <2>1. {actionBar.shown, actionBar.scheduled, actionBar.ranging} \subseteq BOOLEAN
    <3>1. actionBar.shown \in BOOLEAN /\ actionBar.scheduled \in BOOLEAN /\ actionBar.ranging \in BOOLEAN
      BY <1>2, RecordOfBar
    <3>2. QED
      BY <3>1, Zenon
  <2>2. QED
    BY <1>2, <2>1, RecordOfBar DEF ActionBarTypeOK
<1>4. BarInPlace
  BY <1>1 DEF BarInv, BarStands, BarInPlace, BarRests
<1>5. BarIsReachable
  BY <1>1, <1>2, StandsReachable DEF BarIsReachable, BarRests, BarInv
<1>6. BarCoversLittle
  BY <1>1, <1>2, StandsClear DEF BarCoversLittle, BarRests, BarInv
<1>7. QED
  BY <1>3, <1>4, <1>5, <1>6

\* A click, or a key, chooses what it is on and disarms.
LEMMA ClearedBarIs ==
    ASSUME NEW kind \in {"block", "part"}, NEW ranging \in BOOLEAN, NEW range \in BarRanges
    PROVE  /\ ClearedBar(kind, ranging, range) \in BarRecords
           /\ ClearedBar(kind, ranging, range).kind = kind
           /\ kind = "part" => ClearedBar(kind, ranging, range).shown
<1>1. PICK off \in BOOLEAN : off = FALSE
  BY Zenon
<1>2. PICK shown \in BOOLEAN : shown = (kind = "part")
  BY Zenon
<1>3. PICK c : c = ClearedBar(kind, ranging, range)
  OBVIOUS
<1>4. c = [kind |-> kind, ranging |-> ranging, range |-> range, x |-> 0, y |-> 0, limit |-> NoRect,
           shown |-> shown, side |-> "none", scheduled |-> off]
  BY <1>1, <1>2, <1>3, Zenon DEF ClearedBar
<1>5. c \in BarRecords
  BY <1>4 DEF BarRecords
<1>6. c.kind = kind /\ c.shown = shown
  BY <1>4
<1>7. QED
  BY <1>2, <1>3, <1>5, <1>6

\* A bar that is mounted is placed, or a placing is due.
LEMMA BarStarts ==
    ASSUME NEW kind \in {"block", "part"}, NEW s \in Scenes, ActionBarMounted(kind, s)
    PROVE  BarInv
<1>1. PICK off \in BOOLEAN : off = FALSE
  BY Zenon
<1>2. PICK none \in BarRanges : none = NoRect
  BY DEF BarRanges
<1>3. PICK b : b = ClearedBar(kind, off, none)
  OBVIOUS
<1>4. b \in BarRecords /\ (b.kind = "part" => b.shown)
  BY <1>3, ClearedBarIs
<1>5. scene = s /\ shifts = 0 /\ actionBar = Synced(s, b)
  BY <1>1, <1>2, <1>3, Zenon DEF ActionBarMounted
<1>6. /\ actionBar \in BarRecords /\ actionBar.kind = b.kind
      /\ b.kind = "part" => actionBar.shown
      /\ BarStands(s, actionBar)
  BY <1>4, <1>5, SyncedStands
<1>7. shifts \in 0 .. MaxShifts
  BY <1>5, ActionBarAssumption
<1>8. QED
  BY <1>4, <1>5, <1>6, <1>7 DEF BarInv

\* Every step keeps the bar sound.
LEMMA BarKept == BarInv /\ [ActionBarNext]_actionBarVars => BarInv'
<1>1. SUFFICES ASSUME BarInv, [ActionBarNext]_actionBarVars PROVE BarInv'
  OBVIOUS
<1>2. scene \in Scenes /\ shifts \in 0 .. MaxShifts /\ actionBar \in BarRecords
      /\ (actionBar.kind = "part" => actionBar.shown)
  BY <1>1 DEF BarInv
<1>3. ASSUME UNCHANGED actionBarVars PROVE BarInv'
  BY <1>3, <1>1 DEF actionBarVars, BarInv
<1>4. ASSUME SceneShifts PROVE BarInv'
  <2>1. PICK on \in BOOLEAN : on = TRUE
    BY Zenon
  <2>2. actionBar' = [actionBar EXCEPT !.scheduled = on]
    BY <1>4, <2>1, Zenon DEF SceneShifts
  <2>3. actionBar' = [kind |-> actionBar.kind, ranging |-> actionBar.ranging, range |-> actionBar.range,
                      x |-> actionBar.x, y |-> actionBar.y, limit |-> actionBar.limit,
                      shown |-> actionBar.shown, side |-> actionBar.side, scheduled |-> on]
    BY <1>2, <2>2, RecordOfBar
  <2>4. actionBar' \in BarRecords
    BY <1>2, <2>3, RecordOfBar DEF BarRecords
  <2>5. actionBar'.kind = actionBar.kind /\ actionBar'.shown = actionBar.shown /\ actionBar'.scheduled
    BY <2>3, <2>1
  <2>6. scene' \in Scenes /\ shifts' \in 0 .. MaxShifts
    BY <1>2, <1>4, ActionBarAssumption DEF SceneShifts
  <2>7. QED
    BY <1>2, <2>4, <2>5, <2>6 DEF BarInv
<1>5. ASSUME BarFrame PROVE BarInv'
  BY <1>5, <1>2, SyncedStands DEF BarFrame, BarInv
<1>6. ASSUME EditRange PROVE BarInv'
  BY <1>6, <1>2, ActionBarAssumption, ClearedBarIs, SyncedStands DEF EditRange, BarRanges, BarInv
<1>7. QED
  BY <1>1, <1>3, <1>4, <1>5, <1>6 DEF ActionBarNext
=============================================================================
