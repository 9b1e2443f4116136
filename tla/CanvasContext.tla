--------------------------- MODULE CanvasContext ---------------------------
(***************************************************************************)
(* What the canvas of the page editor has selected inside a block, and the *)
(* tools that are open for it: the style panel, the pickers of an image    *)
(* and of a link, the operations on an item of a collection.               *)
(*                                                                         *)
(* Puck keeps its own selection and document; the canvas reports the       *)
(* element under the pointer, and the session hears of a change of the     *)
(* document some time after Puck made it. A document has blocks with one   *)
(* collection and blocks with fields of their own only.                    *)
(***************************************************************************)
EXTENDS Integers, Sequences, SequencesExt

CONSTANTS Cards,          \* the blocks of the page
          FirstItems,      \* the items of each at first, 0 for a block without any
          LeastItems,      \* collectionLimit
          MostItems,
          NoCard,          \* none
          MaxTouches       \* bound on what the user does

ASSUME CanvasContextAssumption ==
    /\ NoCard \notin Cards
    /\ {LeastItems, MostItems, MaxTouches} \subseteq Nat \ {0}
    /\ FirstItems \in [Cards -> {0} \cup LeastItems .. MostItems]

VARIABLES canvasPage,  \* Puck's document, history and selection; whether it is editable
          context,     \* useCanvasEditingUi: the selection, the range, what is open
          pickers,     \* the sessions of CanvasPickerSession
          canvasEvents, \* what is on its way: a posted selection, the text of Tiptap
          touches      \* bound only: what the user did so far

contextVars == <<canvasPage, context, pickers, canvasEvents, touches>>
-----------------------------------------------------------------------------
(* The document *)

Kinds2 == {"media", "route"}

\* style is of the text of an item; given is the style that was given to that item.
Item == [media : {"first", "picked"}, route : {"first", "picked"}, given : BOOLEAN]

FreshItem == [media |-> "first", route |-> "first", given |-> FALSE]

ItemLists == UNION {[1 .. n -> Item] : n \in 0 .. MostItems}

\* own: the fields of the block itself. styled: elementStyles, by the index of an item.
CardDocuments == [here : SUBSET Cards,
                  own : [Cards -> [media : {"first", "picked"}, route : {"first", "picked"}]],
                  items : [Cards -> ItemLists],
                  styled : [Cards -> [1 .. MostItems -> BOOLEAN]]]

FirstCards == [here |-> Cards,
               own |-> [c \in Cards |-> [media |-> "first", route |-> "first"]],
               items |-> [c \in Cards |-> [i \in 1 .. FirstItems[c] |-> FreshItem]],
               styled |-> [c \in Cards |-> [i \in 1 .. MostItems |-> FALSE]]]

\* valueAtPath and setValueAtPath; item 0 is the block itself.
HasItem(doc, card, item) == card \in doc.here /\ item <= Len(doc.items[card])

WithValue(doc, card, item, kind, value) ==
    LET Valued(r) == IF kind = "media" THEN [r EXCEPT !.media = value]
                     ELSE [r EXCEPT !.route = value]
        list == doc.items[card]
    IN  IF item = 0 THEN [doc EXCEPT !.own = [@ EXCEPT ![card] = Valued(doc.own[card])]]
        ELSE [doc EXCEPT !.items =
                 [@ EXCEPT ![card] = [list EXCEPT ![item] = Valued(list[item])]]]
-----------------------------------------------------------------------------
(* Collections *)

CanChange(list, item, operation) ==
    /\ item \in 1 .. Len(list)
    /\ operation = "up" => item > 1
    /\ operation = "down" => item < Len(list)
    /\ operation = "duplicate" => Len(list) < MostItems
    /\ operation = "delete" => Len(list) > LeastItems

Exchanged(list, i, j) == [list EXCEPT ![i] = list[j], ![j] = list[i]]

ChangedList(list, item, operation) ==
    CASE operation = "up" -> Exchanged(list, item, item - 1)
      [] operation = "down" -> Exchanged(list, item, item + 1)
      [] operation = "duplicate" -> InsertAt(list, item + 1, list[item])
      [] operation = "delete" -> RemoveAt(list, item)

NextIndex(list, item, operation) ==
    CASE operation = "up" -> item - 1
      [] operation = "delete" -> IF item < Len(list) THEN item ELSE Len(list) - 1
      [] OTHER -> item + 1

\* Mutated: a deleted item leaves its style to the one that follows it.
StyleTargetsKeepDeleted(item, operation, index) ==
    CASE operation = "up" /\ index \in {item - 1, item} -> {2 * item - 1 - index}
      [] operation = "down" /\ index \in {item, item + 1} -> {2 * item + 1 - index}
      [] operation = "duplicate" /\ index = item -> {item, item + 1}
      [] operation = "duplicate" /\ index > item -> {index + 1}
      [] OTHER -> {index}

\* The indices to which the style of an index goes.
StyleTargets(item, operation, index) ==
    CASE operation = "up" /\ index \in {item - 1, item} -> {2 * item - 1 - index}
      [] operation = "down" /\ index \in {item, item + 1} -> {2 * item + 1 - index}
      [] operation = "delete" /\ index >= item -> {index - 1} \ {item - 1}
      [] operation = "duplicate" /\ index = item -> {item, item + 1}
      [] operation = "duplicate" /\ index > item -> {index + 1}
      [] OTHER -> {index}

RemappedStyles(styles, item, operation) ==
    [j \in 1 .. MostItems |->
        \E i \in 1 .. MostItems : styles[i] /\ j \in StyleTargets(item, operation, i)]
-----------------------------------------------------------------------------
(* Selections *)

NoElement == [card |-> NoCard, item |-> 0, part |-> "none"]
NoEditedText == [of |-> NoElement, active |-> FALSE]

\* A block, a text, a button with its link, an image.
Elements == [card : Cards, item : 0 .. MostItems, part : {"block", "text", "action", "media"}]
EditedTexts == [of : {e \in Elements : e.part = "text"}, active : BOOLEAN]

HasCollection(card) == FirstItems[card] > 0

\* The elements that a canvas marks: an item of a collection has all of them, a block
\* with a collection only a heading of its own.
Outlined(doc) ==
    {e \in Elements :
        /\ HasItem(doc, e.card, e.item)
        /\ e.part = "block" => e.item = 0
        /\ e.item = 0 /\ HasCollection(e.card) => e.part \in {"block", "text"}}

\* Mutated: the paths are not compared.
SameBlock(left, right) == left # NoElement /\ left.card = right.card

\* sameCanvasTextTarget: the block and the path of the field.
SameTarget(left, right) == left # NoElement /\ left = right

\* No field has this index.
NoField == -1

\* resolveMediaFieldPath and resolveRouteFieldPath: the item whose image or link is
\* meant by an element of this block.
FieldOf(kind, card, element) ==
    LET whole == IF HasCollection(card) THEN NoField ELSE 0
    IN  IF card = NoCard THEN NoField
        ELSE IF element = NoElement \/ element.part = "block" THEN whole
        ELSE IF \/ kind = "media" /\ element.part # "media" /\ element.item = 0
                \/ kind = "route" /\ element.part # "action"
             THEN NoField ELSE element.item

\* resolveEditorSelection: an explicit selection must not edit a stale sibling.
Located(page, element) ==
    LET explicit == IF page.puck \in page.doc.here THEN page.puck ELSE NoCard
    IN  IF element = NoElement THEN explicit
        ELSE IF element.card \in page.doc.here /\ explicit \in {NoCard, element.card}
             THEN element.card ELSE NoCard

\* The action bar works with the block of Puck, and an element of it.
BarElement(page, element) == IF element.card = page.puck THEN element ELSE NoElement

IsRange(c) == c.range

CanEdit(page) == page.mode # "readonly"

EditingDisabled(page) == page.mode # "edit"

\* An index that is gone.
NamesNothing(page, element) ==
    element # NoElement /\ ~HasItem(page.doc, element.card, element.item)
-----------------------------------------------------------------------------
(* Sessions of a picker *)

Places == [card : Cards, item : 0 .. MostItems]
NoPlace == [card |-> NoCard, item |-> 0]

\* target: the field of its last render. wrote: the fields that it changed.
\* uploading: its file is on its way.
Sessions == [owner : Places, target : Places \cup {NoPlace}, applied : BOOLEAN,
             uploading : BOOLEAN, wrote : Seq(Places)]
NoSession == [owner |-> NoPlace, target |-> NoPlace, applied |-> FALSE,
              uploading |-> FALSE, wrote |-> <<>>]

\* targetKey.
TargetOf(kind, page, c) ==
    LET card == IF page.puck = NoCard THEN NoCard ELSE Located(page, c.element)
        item == FieldOf(kind, card, c.element)
    IN  IF item = NoField THEN NoPlace ELSE [card |-> card, item |-> item]

\* The owner is the field for which the dialog was opened.
KeepsOwner(session, target) == session = NoSession \/ session.owner = target

\* The dialogs after a render with this state, and its effects: one that is open and
\* has no field, or another field than its session, is dismissed.
Rendered(page, c, p) ==
    LET shown == ~EditingDisabled(page) /\ ~IsRange(c)
        stays(k) == /\ c.open[k] /\ shown /\ TargetOf(k, page, c) # NoPlace
                    /\ KeepsOwner(p[k], TargetOf(k, page, c))
        session(k) == IF ~stays(k) THEN NoSession
                      ELSE IF p[k] = NoSession
                           THEN [NoSession EXCEPT !.owner = TargetOf(k, page, c),
                                                  !.target = TargetOf(k, page, c)]
                      ELSE [p[k] EXCEPT !.target = TargetOf(k, page, c)]
        left == IF c.open["media"] /\ shown
                THEN [p.media EXCEPT !.target = TargetOf("media", page, c)] ELSE p.media
    IN  /\ canvasPage' = page
        /\ context' = [c EXCEPT !.open =
               [k \in Kinds2 |-> c.open[k] /\ (shown => stays(k))]]
        /\ pickers' = [media |-> session("media"), route |-> session("route"),
                       late |-> IF p.media.uploading /\ ~stays("media")
                                THEN left ELSE p.late]

\* Handlers that change only what is open.
Rerenders(c) == Rendered(canvasPage, c, pickers) /\ UNCHANGED canvasEvents
-----------------------------------------------------------------------------
(* The state of the canvas *)

NothingOpen == [k \in Kinds2 |-> FALSE]

\* frame: scheduleTextTools; it is stale once the state is another one.
NoContext == [element |-> NoElement, range |-> FALSE, anchor |-> NoElement,
              open |-> NothingOpen, tools |-> FALSE, frame |-> "none", blind |-> FALSE]

\* reduceCanvasContextState of a selection: the range of the same text goes on.
WithElement(c, element) ==
    LET same == c.range /\ SameTarget(c.element, element)
    IN  [c EXCEPT !.element = element, !.range = same /\ element.part = "text",
                  !.anchor = IF same THEN c.anchor ELSE NoElement,
                  !.frame = IF c.frame = "none" THEN "none" ELSE "stale",
                  !.blind = NamesNothing(canvasPage, element)]

\* setCanvasElementSelection.
RangeReplaced(c, element) ==
    WithElement(IF SameTarget(c.element, element) THEN c
                ELSE [c EXCEPT !.open = NothingOpen, !.tools = FALSE, !.frame = "none"],
                element)

\* accept: the pointer identified an element; a canvas of an older bundle sends no
\* intent, and its texts open the tools.
Accepted(c, element, legacy) ==
    LET opens == legacy /\ element.part \in {"text", "action"}
        next == WithElement([c EXCEPT !.frame = "none", !.open = NothingOpen], element)
    IN  [next EXCEPT !.frame = IF opens THEN "due" ELSE "none",
                     !.tools = opens /\ c.tools]

CanvasContextInit ==
    /\ canvasPage = [doc |-> FirstCards, past |-> <<>>, puck |-> NoCard, due |-> FALSE,
                     mode |-> "edit", astray |-> FALSE]
    /\ context = NoContext
    /\ pickers = [media |-> NoSession, route |-> NoSession, late |-> NoSession]
    /\ touches = 0
    /\ canvasEvents = [posted |-> NoElement, posts |-> 0, text |-> NoEditedText, heard |-> NoEditedText]

\* notifyCanvasElementSelection: Puck selects the block, the canvas the element.
PointAt(element) ==
    /\ element \in Outlined(canvasPage.doc)
    /\ Rendered([canvasPage EXCEPT !.puck = element.card],
                IF CanEdit(canvasPage) THEN Accepted(context, element, FALSE) ELSE context,
                pickers)
    /\ UNCHANGED canvasEvents

\* An older canvas posts its selection, which is heard some time later.
PostSelection(element) ==
    /\ canvasEvents.posts = 0
    /\ element \in Outlined(canvasPage.doc)
    /\ canvasEvents' = [canvasEvents EXCEPT !.posted = element, !.posts = 1]
    /\ UNCHANGED <<canvasPage, context, pickers>>

HearSelection ==
    /\ canvasEvents.posted # NoElement
    /\ canvasEvents' = [canvasEvents EXCEPT !.posted = NoElement]
    /\ Rendered(canvasPage,
                IF CanEdit(canvasPage) THEN Accepted(context, canvasEvents.posted, TRUE)
                ELSE context, pickers)

\* A block is selected in the outline of Puck, or none.
SelectInOutline(card) ==
    /\ card \in canvasPage.doc.here \cup {NoCard}
    /\ card # canvasPage.puck
    /\ Rendered([canvasPage EXCEPT !.puck = card], context, pickers)
    /\ UNCHANGED canvasEvents

\* The parent of a block is selected from the action bar.
SelectParent ==
    /\ canvasPage.puck # NoCard /\ ~IsRange(context)
    /\ Rendered([canvasPage EXCEPT !.puck = NoCard],
                [RangeReplaced(context, NoElement) EXCEPT !.tools = FALSE], pickers)
    /\ UNCHANGED canvasEvents
-----------------------------------------------------------------------------
(* Ranges of text: Tiptap is external; RichTextRangeStateSignal tells of it. *)


\* The text that is pointed at has the focus; it is left with the block, or for none.
SelectRange(text) ==
    /\ text # canvasEvents.text
    /\ \/ text = NoEditedText
       \/ text.of = context.element /\ text.of \in Outlined(canvasPage.doc)
    /\ canvasEvents' = [canvasEvents EXCEPT !.text = text]
    /\ UNCHANGED <<canvasPage, context, pickers>>

\* acceptRangeState, with the target that was told.
RangeAccepted(c, element, active) ==
    LET reduced ==
            IF active /\ c.element.part = "text"
            THEN [c EXCEPT !.range = TRUE, !.anchor = element]
            ELSE [c EXCEPT !.range = FALSE, !.anchor = NoElement]
        closed == [reduced EXCEPT !.frame = "none",
                                  !.open = IF active THEN NothingOpen ELSE @,
                                  !.tools = FALSE]
    IN  IF CanEdit(canvasPage) /\ SameTarget(c.element, element) THEN closed ELSE c

\* The effects of a signal: the text that is left is told inactive, then the other.
SignalRange ==
    LET left == canvasEvents.heard
        text == canvasEvents.text
        c == IF left.of \notin {NoElement, text.of}
             THEN RangeAccepted(context, left.of, FALSE) ELSE context
    IN  /\ left # text
        /\ canvasEvents' = [canvasEvents EXCEPT !.heard = text]
        /\ Rendered(canvasPage, RangeAccepted(c, text.of, text.active), pickers)
-----------------------------------------------------------------------------
(* What is open *)

\* Mutated: the state of the range is not looked at.
FrameOpensOverRange(c) == c.frame # "none"

\* It opens what it was scheduled for, unless a range came.
FrameOpens(c) == c.frame = "due" /\ ~IsRange(c)

\* scheduleTextTools: the next frame.
FrameRuns ==
    /\ context.frame # "none"
    /\ Rerenders([context EXCEPT !.frame = "none",
                             !.tools = @ \/ (CanEdit(canvasPage) /\ FrameOpens(context))])

OpenPicker(kind) ==
    /\ ~IsRange(context) /\ ~EditingDisabled(canvasPage) /\ ~context.open[kind]
    /\ FieldOf(kind, canvasPage.puck, BarElement(canvasPage, context.element)) # NoField
    /\ Rerenders([context EXCEPT !.open = [@ EXCEPT ![kind] = TRUE]])

DismissPicker(kind) ==
    /\ pickers[kind] # NoSession
    /\ Rerenders([context EXCEPT !.open = [@ EXCEPT ![kind] = FALSE]])

\* The button of the style panel; without an element of the block, of the block.
ToggleTools ==
    /\ ~IsRange(context) /\ ~EditingDisabled(canvasPage) /\ canvasPage.puck # NoCard
    /\ LET bar == BarElement(canvasPage, context.element)
           c == IF bar = NoElement THEN RangeReplaced(context, NoElement) ELSE context
       IN  Rerenders([c EXCEPT !.tools = ~@])

\* A press outside the panel; Escape.
PressElsewhere ==
    /\ context.tools \/ context.frame # "none"
    /\ Rerenders([context EXCEPT !.tools = FALSE, !.frame = "none"])

PressEscape ==
    /\ context.tools \/ context.frame # "none" \/ context.open # NothingOpen
    /\ Rerenders([context EXCEPT !.tools = FALSE, !.frame = "none", !.open = NothingOpen])
-----------------------------------------------------------------------------
(* Changes of the document *)

\* A change that Puck records; the session hears of it later.
Recorded(page, doc) ==
    [page EXCEPT !.doc = doc, !.past = Append(@, canvasPage.doc), !.due = TRUE]

\* updateCollection: the selection goes with the item.
ChangeCollection(operation) ==
    LET element == BarElement(canvasPage, context.element)
        card == element.card
        list == canvasPage.doc.items[card]
        styles == canvasPage.doc.styled[card]
    IN  /\ ~IsRange(context) /\ ~EditingDisabled(canvasPage)
        /\ element # NoElement /\ element.item > 0 /\ card \in canvasPage.doc.here
        /\ CanChange(list, element.item, operation)
        /\ LET doc == [canvasPage.doc EXCEPT
                          !.items = [@ EXCEPT ![card] = ChangedList(list, element.item, operation)],
                          !.styled = [@ EXCEPT ![card] = RemappedStyles(styles, element.item, operation)]]
               next == NextIndex(list, element.item, operation)
               page == Recorded(canvasPage, doc)
           IN  Rendered(page, [RangeReplaced(context, [element EXCEPT !.item = next])
                                  EXCEPT !.blind = FALSE], pickers)
        /\ UNCHANGED canvasEvents

\* updateCanvasElement from the style panel: the style of the text of an item.
StyleElement ==
    LET element == context.element
        card == Located(canvasPage, element)
        item == element.item
    IN  /\ context.tools /\ ~IsRange(context) /\ context.open = NothingOpen
        /\ ~EditingDisabled(canvasPage)
        /\ card # NoCard /\ element.part = "text" /\ item > 0
        /\ LET there == HasItem(canvasPage.doc, card, item)
               list == canvasPage.doc.items[card]
               styles == canvasPage.doc.styled[card]
               styled == [canvasPage.doc EXCEPT !.styled =
                             [@ EXCEPT ![card] = [styles EXCEPT ![item] = ~styles[item]]]]
               doc == IF ~there THEN styled
                      ELSE [styled EXCEPT !.items = [@ EXCEPT ![card] =
                               [list EXCEPT ![item] = [list[item] EXCEPT !.given = ~styles[item]]]]]
           IN  Rendered([Recorded(canvasPage, doc) EXCEPT
                            !.puck = card, !.astray = @ \/ ~there], context, pickers)
        /\ UNCHANGED canvasEvents

\* remove: layout blocks apart, which are of CanvasPlacement.
DeleteCard ==
    /\ ~IsRange(context) /\ ~EditingDisabled(canvasPage)
    /\ canvasPage.puck \in canvasPage.doc.here
    /\ LET doc == [canvasPage.doc EXCEPT !.here = @ \ {canvasPage.puck}]
       IN  Rendered([Recorded(canvasPage, doc) EXCEPT !.puck = NoCard],
                    RangeReplaced(context, NoElement), pickers)
    /\ UNCHANGED canvasEvents

\* Undo of Puck.
UndoCards ==
    /\ canvasPage.past # <<>> /\ ~EditingDisabled(canvasPage)
    /\ Rendered([canvasPage EXCEPT !.doc = Last(canvasPage.past), !.past = Front(@),
                                   !.due = TRUE], context, pickers)
    /\ UNCHANGED canvasEvents

\* The effect of useCanvasEditingUi on the document of the session.
HearDocument ==
    /\ canvasPage.due
    /\ Rendered([canvasPage EXCEPT !.due = FALSE],
                IF NamesNothing(canvasPage, context.element)
                THEN [RangeReplaced(context, NoElement) EXCEPT !.blind = FALSE]
                ELSE [context EXCEPT !.blind = FALSE], pickers)
    /\ UNCHANGED canvasEvents

\* The viewport, the host or a command makes the editor readonly; a document of Puck
\* that is being rejected only disables the editing.
ChangeMode(mode) ==
    /\ mode # canvasPage.mode
    /\ Rendered([canvasPage EXCEPT !.mode = mode],
                IF mode = "readonly" THEN NoContext ELSE context, pickers)
    /\ UNCHANGED canvasEvents
-----------------------------------------------------------------------------
(* What a picker gives *)

\* Mutated: an answer is taken when its dialog is gone.
AcceptsLateValue(session, live) == ~session.applied /\ session.target = session.owner

\* apply of CanvasPickerSession: a session that lives gives one value to its owner.
AcceptsValue(session, live) ==
    live /\ ~session.applied /\ session.target = session.owner

\* updateSelectedPath re-reads the block; a path that is gone throws, and the dialog
\* stays as it is, its value spent. otherwise: the state after a value that is not taken.
Apply(kind, session, live, p, otherwise) ==
    LET target == session.target
        there == HasItem(canvasPage.doc, target.card, target.item)
        spent == [session EXCEPT !.applied = TRUE, !.uploading = FALSE,
                                 !.wrote = IF there THEN Append(@, target) ELSE @]
        doc == WithValue(canvasPage.doc, target.card, target.item, kind, "picked")
        kept == IF live THEN [p EXCEPT ![kind] = spent] ELSE [p EXCEPT !.late = spent]
    IN  IF ~AcceptsValue(session, live) THEN Rendered(canvasPage, otherwise, p)
        ELSE IF ~there THEN Rendered(canvasPage, context, kept)
        ELSE Rendered(Recorded(canvasPage, doc),
                      [context EXCEPT !.open = [@ EXCEPT ![kind] = FALSE]], kept)

ChooseValue(kind) ==
    /\ pickers[kind] # NoSession
    /\ Apply(kind, pickers[kind], TRUE, pickers, context)
    /\ UNCHANGED canvasEvents

\* The file that is chosen in an image picker is given once it is uploaded.
StartUpload ==
    /\ pickers.media # NoSession /\ ~pickers.media.uploading
    /\ pickers.late = NoSession
    /\ pickers' = [pickers EXCEPT !.media = [@ EXCEPT !.uploading = TRUE]]
    /\ UNCHANGED <<canvasPage, context, canvasEvents>>

\* The picker closes the image dialog after it, and does so when its own is gone and
\* another one is open.
UploadArrives ==
    LET closed == [context EXCEPT !.open = [@ EXCEPT !["media"] = FALSE]]
    IN  /\ UNCHANGED canvasEvents
        /\ \/ /\ pickers.media.uploading
              /\ Apply("media", pickers.media, TRUE,
                       [pickers EXCEPT !.media = [@ EXCEPT !.uploading = FALSE]], closed)
           \/ /\ pickers.late # NoSession
              /\ Apply("media", pickers.late, FALSE,
                       [pickers EXCEPT !.late = NoSession], closed)

UploadFails ==
    /\ pickers.media.uploading \/ pickers.late # NoSession
    /\ pickers' = IF pickers.late # NoSession THEN [pickers EXCEPT !.late = NoSession]
                  ELSE [pickers EXCEPT !.media = [@ EXCEPT !.uploading = FALSE]]
    /\ UNCHANGED <<canvasPage, context, canvasEvents>>

ClearMedia ==
    LET item == FieldOf("media", canvasPage.puck, BarElement(canvasPage, context.element))
        card == canvasPage.puck
    IN  /\ ~IsRange(context) /\ ~EditingDisabled(canvasPage)
        /\ item # NoField /\ HasItem(canvasPage.doc, card, item)
        /\ Rendered(Recorded(canvasPage,
                             WithValue(canvasPage.doc, card, item, "media", "first")),
                    context, pickers)
        /\ UNCHANGED canvasEvents
-----------------------------------------------------------------------------
UserActs ==
    \/ \E e \in Outlined(canvasPage.doc) : PointAt(e) \/ PostSelection(e)
    \/ \E text \in EditedTexts \cup {NoEditedText} : SelectRange(text)
    \/ \E card \in Cards \cup {NoCard} : SelectInOutline(card)
    \/ SelectParent \/ ToggleTools \/ PressElsewhere \/ PressEscape
    \/ \E kind \in Kinds2 : OpenPicker(kind) \/ DismissPicker(kind) \/ ChooseValue(kind)
    \/ \E operation \in {"up", "down", "duplicate", "delete"} : ChangeCollection(operation)
    \/ StyleElement \/ DeleteCard \/ UndoCards \/ ClearMedia \/ StartUpload
    \/ \E mode \in {"edit", "recovering", "readonly"} : ChangeMode(mode)

CanvasContextNext ==
    \/ touches < MaxTouches /\ touches' = touches + 1 /\ UserActs
    \/ UNCHANGED touches /\ (HearSelection \/ SignalRange \/ FrameRuns
                               \/ HearDocument \/ UploadArrives \/ UploadFails)

CanvasContextSpec == CanvasContextInit /\ [][CanvasContextNext]_contextVars
-----------------------------------------------------------------------------
(* Properties *)

\* Everything has its type.
CanvasContextTypeOK ==
    /\ canvasPage \in [doc : CardDocuments, past : Seq(CardDocuments),
                       puck : Cards \cup {NoCard}, due : BOOLEAN,
                       mode : {"edit", "recovering", "readonly"}, astray : BOOLEAN]
    /\ touches \in 0 .. MaxTouches
    /\ context \in [element : Elements \cup {NoElement}, range : BOOLEAN,
                    anchor : Elements \cup {NoElement}, open : [Kinds2 -> BOOLEAN],
                    tools : BOOLEAN, frame : {"none", "due", "stale"}, blind : BOOLEAN]
    /\ pickers \in [media : Sessions \cup {NoSession}, route : Sessions \cup {NoSession},
                    late : Sessions \cup {NoSession}]
    /\ canvasEvents \in [posted : Elements \cup {NoElement}, posts : 0 .. 1,
                         text : EditedTexts \cup {NoEditedText}, heard : EditedTexts \cup {NoEditedText}]

\* A picker gives its value at most once, and only to the field for which it was
\* opened, whatever is selected, deleted or undone while it is open; and when it is
\* closed before its file is uploaded, it gives nothing.
PicksStayHome ==
    /\ \A session \in {pickers.media, pickers.route} :
           session.wrote \in {<<>>, <<session.owner>>}
    /\ pickers.late.wrote = <<>>

\* The styles of a collection stay with their items through every operation and undo,
\* unless one was given to an item that was gone already.
StylesFollowItems ==
    ~canvasPage.astray =>
        \A card \in canvasPage.doc.here, item \in 1 .. MostItems :
            HasItem(canvasPage.doc, card, item) =>
                (canvasPage.doc.styled[card][item] <=> canvasPage.doc.items[card][item].given)

\* Once the session has heard of a document, nothing that is gone is selected, unless
\* a canvas told of it too late.
SelectsWhatIsThere ==
    ~canvasPage.due /\ ~context.blind => ~NamesNothing(canvasPage, context.element)

\* While a range of text is edited, the toolbar is at that text and no tool for the
\* whole element is open.
RangeIsAlone ==
    context.range => /\ context.element.part = "text" /\ context.anchor = context.element
                     /\ ~context.tools /\ context.open = NothingOpen

\* In a readonly editor nothing is selected or open, and a dialog is on the screen
\* only where it may change the document.
ReadonlyIsQuiet ==
    /\ ~CanEdit(canvasPage) => context = NoContext
    /\ EditingDisabled(canvasPage) \/ context.range =>
           NoSession = pickers.media /\ NoSession = pickers.route
=============================================================================
