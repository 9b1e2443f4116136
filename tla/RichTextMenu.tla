------------------------------ MODULE RichTextMenu ------------------------------
(***************************************************************************)
(* The inline menu over a range of rich text (G7RichTextInlineMenu): its   *)
(* choices, its native controls and its link editor. A choice is armed by  *)
(* a pointer, made where the same pointer is released on it, and the menu  *)
(* closes a moment later, or by the click that the browser sends after it. *)
(* Two pointers and the keyboard act at once, pointers are cancelled or    *)
(* released elsewhere, and the selection, the editor, its permission and   *)
(* the width of the window change meanwhile.                               *)
(*                                                                         *)
(* The selected range has one look; ranges of one editor are not told      *)
(* apart while one follows the other without a collapse between them.      *)
(***************************************************************************)
EXTENDS Integers

CONSTANTS
    Editors,        \* the texts that can be edited
    FontChoices,    \* fonts, by their number
    SizeChoices,    \* sizes that are chosen, of FONT_SIZE_REM_VALUES
    MaxHands,       \* presses, keys, choices of links
    MaxSelections   \* changes of the selection, the editor, its permission and the window

ASSUME RichTextAssumption ==
    /\ Editors # {} /\ FontChoices # {} /\ SizeChoices # {}
    /\ FontChoices \subseteq Nat \ {0}
    /\ SizeChoices \subseteq 1..16
    /\ {MaxHands, MaxSelections} \subseteq Nat

VARIABLES
    textBar,        \* what the menu shows and what it is over
    rangeMenus,     \* the refs of each RangeChoiceMenu
    look,           \* the marks of the selected range
    hands,          \* each pointer: where it was pressed, and whether a click follows
    pressedNow,     \* history: what was pressed in each menu since it is open
    lastChoice      \* history: the choice that was made last

richTextVars == <<textBar, rangeMenus, look, hands, pressedNow, lastChoice>>

Menus == {"font", "size"}
Pointers == {1, 2}
NoMenu == "none"
-----------------------------------------------------------------------------
(* Marks *)

\* Font 0 is the inherited one, rem 0 no size of its own; large is a size of the older kind.
Marks == [font : FontChoices \cup {0}, rem : 0..16, size : {"base", "large"}]
PlainMark == [font |-> 0, rem |-> 0, size |-> "base"]

\* Mutated: three bits of the size.
FlagsOfThreeBits(mark) ==
    [fonts |-> {f \in FontChoices : mark.font = f}, set |-> mark.rem > 0, large |-> mark.size = "large",
     bits |-> [k \in 0..3 |-> k < 3 /\ mark.rem > 0 /\ ((mark.rem - 1) \div <<1, 2, 4, 8>>[k + 1]) % 2 = 1]]

\* selectRichTextEditorState: Puck carries booleans only.
Flags(mark) ==
    [fonts |-> {f \in FontChoices : mark.font = f}, set |-> mark.rem > 0, large |-> mark.size = "large",
     bits |-> [k \in 0..3 |-> mark.rem > 0 /\ ((mark.rem - 1) \div <<1, 2, 4, 8>>[k + 1]) % 2 = 1]]

Bit(b) == IF b THEN 1 ELSE 0

\* markFromEditorState
MarkOf(flags) ==
    [font |-> IF flags.fonts = {} THEN 0 ELSE CHOOSE f \in flags.fonts : TRUE,
     rem  |-> IF flags.set THEN 1 + Bit(flags.bits[0]) + 2 * Bit(flags.bits[1])
                                  + 4 * Bit(flags.bits[2]) + 8 * Bit(flags.bits[3]) ELSE 0,
     size |-> IF flags.large THEN "large" ELSE "base"]

ShownMark == MarkOf(Flags(look.mark))

\* What the size menu shows: 0 is automatic, 17 the older size.
ShownIn(menu) ==
    IF menu = "font" THEN ShownMark.font
    ELSE IF ShownMark.rem > 0 THEN ShownMark.rem ELSE IF ShownMark.size = "base" THEN 0 ELSE 17

OptionsOf(menu) == IF menu = "font" THEN FontChoices \cup {0} ELSE SizeChoices \cup {0}

\* setMark keeps what the marks of the range have and the new ones do not say.
Merged(mark, next) == [next EXCEPT !.rem = IF @ = 0 THEN mark.rem ELSE @]

\* Mutated: the size that is taken back is merged as well.
UpdatedByMerge(mark, menu, value) ==
    LET next == IF menu = "font" THEN [mark EXCEPT !.font = value]
                ELSE [mark EXCEPT !.rem = value, !.size = "base"]
    IN  IF next = PlainMark THEN PlainMark ELSE Merged(mark, next)

\* updateRichTextMark: unset if nothing is left, or unset and set if the size goes.
Updated(mark, menu, value) ==
    LET next == IF menu = "font" THEN [mark EXCEPT !.font = value]
                ELSE [mark EXCEPT !.rem = value, !.size = "base"]
    IN  IF next = PlainMark THEN PlainMark
        ELSE IF menu = "size" /\ value = 0 THEN next
        ELSE Merged(mark, next)
-----------------------------------------------------------------------------
(* The elements and the state they act on *)

El(kind, menu, value) == [kind |-> kind, menu |-> menu, value |-> value]
Trigger(m) == El("trigger", m, 0)
BoldButton == El("bold", NoMenu, 0)
MoreButton == El("more", NoMenu, 0)
Page == El("page", NoMenu, 0)

Controls == {Trigger(m) : m \in Menus} \cup {BoldButton, MoreButton, Page}
            \cup UNION {{El("option", m, v) : v \in OptionsOf(m)} : m \in Menus}

Narrow(bar) == bar.range /\ bar.small

ControlsShown(bar) == bar.range /\ (Narrow(bar) => bar.advanced)

There(bar, el) ==
    CASE el.kind = "trigger" -> ControlsShown(bar)
      [] el.kind = "option"  -> ControlsShown(bar) /\ bar.open = el.menu
      [] el.kind = "bold"    -> bar.range
      [] el.kind = "more"    -> Narrow(bar)
      [] OTHER               -> TRUE

IdleMenu == [suppress |-> FALSE, closing |-> FALSE, armed |-> {}]

\* What a handler works on; did is the choice it made, if any.
World == [bar |-> textBar, menus |-> rangeMenus, look |-> look, did |-> {}]

Editable(w) == w.bar.range /\ ~w.bar.readOnly

Choose(w, m, v) ==
    [w EXCEPT !.look = [@ EXCEPT !.mark = Updated(MarkOf(Flags(w.look.mark)), m, v)], !.did = {[menu |-> m, value |-> v]}]

Close(w, m) == [w EXCEPT !.bar = [@ EXCEPT !.open = IF w.bar.open = m THEN NoMenu ELSE w.bar.open]]
Toggle(w, m) == [w EXCEPT !.bar = [@ EXCEPT !.open = IF w.bar.open = m THEN NoMenu ELSE m]]

\* The native control applies at once, and closes what is open.
ApplyBold(w) == [w EXCEPT !.look = [@ EXCEPT !.bold = ~w.look.bold], !.bar = [@ EXCEPT !.open = NoMenu],
                          !.did = {[menu |-> NoMenu, value |-> 0]}]

Advance(w, menuToo) ==
    [w EXCEPT !.bar = [@ EXCEPT !.advanced = ~w.bar.advanced, !.open = IF menuToo THEN NoMenu ELSE w.bar.open,
                                !.linkOpen = w.bar.linkOpen /\ ~menuToo]]
-----------------------------------------------------------------------------
(* Handlers *)

\* Mutated: what is scheduled stays scheduled.
ActivatedInTime(menu) == [menu EXCEPT !.suppress = TRUE]

\* markPointerActivation
Activated(menu) == [menu EXCEPT !.suppress = TRUE, !.closing = FALSE]

Pressed(w, p, el) ==
    CASE el.kind = "trigger" -> Toggle([w EXCEPT !.menus = [@ EXCEPT ![el.menu] = Activated(w.menus[el.menu])]], el.menu)
      [] el.kind = "option"  ->
             [w EXCEPT !.menus = [@ EXCEPT ![el.menu] =
                                     [Activated(w.menus[el.menu]) EXCEPT !.armed = {[pointer |-> p, value |-> el.value]}]]]
      [] el.kind = "bold"    -> ApplyBold([w EXCEPT !.bar = [@ EXCEPT !.boldSuppress = TRUE]])
      [] el.kind = "more"    -> Advance([w EXCEPT !.bar = [@ EXCEPT !.moreSuppress = TRUE]], TRUE)
      [] OTHER               -> w

\* chooseFromPointer: where it was armed, by the pointer that armed it.
Released(w, p, el) ==
    IF el.kind = "option" /\ [pointer |-> p, value |-> el.value] \in w.menus[el.menu].armed
    THEN Choose([w EXCEPT !.menus = [@ EXCEPT ![el.menu] =
                             [w.menus[el.menu] EXCEPT !.armed = {}, !.closing = TRUE]]],
                el.menu, el.value)
    ELSE w

\* Mutated: any click may be one of the keyboard.
AnyClick(detail) == TRUE

\* Only a click of the keyboard has no detail.
ByKeyboard(detail) == detail = 0

Clicked(w, el, detail) ==
    CASE el.kind = "trigger" ->
             IF w.menus[el.menu].suppress
             THEN [w EXCEPT !.menus = [@ EXCEPT ![el.menu] = [w.menus[el.menu] EXCEPT !.suppress = FALSE]]]
             ELSE IF ByKeyboard(detail) THEN Toggle(w, el.menu) ELSE w
      [] el.kind = "option" ->
             IF w.menus[el.menu].suppress THEN Close([w EXCEPT !.menus = [@ EXCEPT ![el.menu] = IdleMenu]], el.menu)
             ELSE IF ByKeyboard(detail) THEN Close(Choose(w, el.menu, el.value), el.menu) ELSE w
      [] el.kind = "bold" ->
             IF w.bar.boldSuppress THEN [w EXCEPT !.bar = [@ EXCEPT !.boldSuppress = FALSE]]
             ELSE IF ByKeyboard(detail) THEN ApplyBold(w) ELSE w
      [] el.kind = "more" ->
             IF w.bar.moreSuppress THEN [w EXCEPT !.bar = [@ EXCEPT !.moreSuppress = FALSE]]
             ELSE IF ByKeyboard(detail) THEN Advance(w, FALSE) ELSE w
      [] OTHER -> w

\* A key, or a pointer that is cancelled. The button of the panel has no handler of keys.
Cleared(w, el, key) ==
    CASE el.kind \in {"trigger", "option"} -> [w EXCEPT !.menus = [@ EXCEPT ![el.menu] = IdleMenu]]
      [] el.kind = "bold"                  -> [w EXCEPT !.bar = [@ EXCEPT !.boldSuppress = FALSE]]
      [] el.kind = "more" /\ ~key          -> [w EXCEPT !.bar = [@ EXCEPT !.moreSuppress = FALSE]]
      [] OTHER                             -> w
-----------------------------------------------------------------------------
(* Effects *)

Over(bar) == <<bar.editor, bar.readOnly, bar.range>>

\* Mutated: the link editor stays.
ResetOfMenus(bar) ==
    IF Over(bar) = Over(textBar) THEN bar
    ELSE [bar EXCEPT !.open = NoMenu, !.advanced = FALSE, !.moreSuppress = FALSE]

\* The layout effect of the menu on another editor, permission or range.
Reset(bar) ==
    IF Over(bar) = Over(textBar) THEN bar
    ELSE [bar EXCEPT !.open = NoMenu, !.advanced = FALSE, !.moreSuppress = FALSE,
                     !.linkOpen = FALSE, !.linkValue = "none", !.linkError = FALSE]

\* Mutated: a menu that is closed keeps what was armed in it.
SettledOpen(bar, m, menu) ==
    IF \/ ~ControlsShown(bar) \/ ~ControlsShown(textBar) \/ Narrow(bar) # Narrow(textBar)
       \/ bar.editor # textBar.editor \/ bar.readOnly # textBar.readOnly
    THEN IdleMenu ELSE menu

\* The effects of a RangeChoiceMenu: a new one has nothing armed, and neither has one
\* for another editor or permission; one that is closed has nothing armed or scheduled.
Settled(bar, m, menu) ==
    IF \/ ~ControlsShown(bar) \/ ~ControlsShown(textBar) \/ Narrow(bar) # Narrow(textBar)
       \/ bar.editor # textBar.editor \/ bar.readOnly # textBar.readOnly
    THEN IdleMenu
    ELSE IF bar.open # m /\ textBar.open = m THEN [menu EXCEPT !.armed = {}, !.closing = FALSE]
    ELSE menu

\* The state after a handler and its effects. A click does not reach an element that is gone.
Becomes(w, hand) ==
    LET reset == Reset(w.bar)
        bar == [reset EXCEPT !.advanced = @ /\ Narrow(reset)]
    IN  /\ textBar' = bar
        /\ rangeMenus' = [m \in Menus |-> Settled(bar, m, w.menus[m])]
        /\ look' = w.look
        /\ hands' = [p \in Pointers |->
                        IF hand[p].stage = "up" \/ (hand[p].stage = "click" /\ ~There(bar, hand[p].at))
                        THEN [hand[p] EXCEPT !.stage = "up", !.at = Page] ELSE hand[p]]

Remembers(pressed, choice) ==
    /\ pressedNow' = [m \in Menus |->
           IF There(textBar', El("option", m, 0)) /\ textBar'.editor = textBar.editor
              /\ textBar'.readOnly = textBar.readOnly THEN pressed[m] ELSE {}]
    /\ lastChoice' = choice

Made(w, p) ==
    IF w.did = {} THEN lastChoice
    ELSE LET d == CHOOSE c \in w.did : TRUE
         IN  [n |-> lastChoice.n + 1, menu |-> d.menu, value |-> d.value, by |-> p]

Counted(hand, w) == [hand EXCEPT !.done = IF w.did = {} THEN @ ELSE @ + 1]
-----------------------------------------------------------------------------
(* Pointers and keys *)

CanAct == textBar.acts < MaxHands
Acts(w) == [w EXCEPT !.bar = [@ EXCEPT !.acts = w.bar.acts + 1]]

PressOn(p, el) ==
    /\ CanAct /\ hands[p].stage = "up" /\ There(textBar, el)
    /\ LET w == IF textBar.readOnly THEN World ELSE Pressed(World, p, el)
       IN  /\ Becomes(Acts(w), [hands EXCEPT ![p] = Counted([stage |-> "down", at |-> el, done |-> 0], w)])
           /\ Remembers(IF el.kind = "option" /\ ~textBar.readOnly
                        THEN [pressedNow EXCEPT ![el.menu] = @ \cup {<<p, el.value>>}] ELSE pressedNow,
                        Made(w, p))

\* A click follows if the pointer is released where it was pressed.
ReleaseOn(p, el) ==
    /\ hands[p].stage = "down" /\ There(textBar, el)
    /\ LET w == IF textBar.readOnly THEN World ELSE Released(World, p, el)
           stage == IF el = hands[p].at /\ el # Page THEN "click" ELSE "up"
       IN  /\ Becomes(w, [hands EXCEPT ![p] = Counted([@ EXCEPT !.stage = stage], w)])
           /\ Remembers(pressedNow, Made(w, p))

ClickFollows(p) ==
    /\ hands[p].stage = "click"
    /\ LET w == IF textBar.readOnly THEN World ELSE Clicked(World, hands[p].at, 1)
       IN  /\ Becomes(w, [hands EXCEPT ![p] = Counted([@ EXCEPT !.stage = "up"], w)])
           /\ Remembers(pressedNow, Made(w, p))

\* No click follows where the touch was kept from it.
PointerEnds(p) ==
    /\ hands[p].stage \in {"down", "click"}
    /\ LET el == hands[p].at
           w == IF hands[p].stage = "down" /\ There(textBar, el) /\ ~textBar.readOnly
                THEN Cleared(World, el, FALSE) ELSE World
       IN  Becomes(w, [hands EXCEPT ![p] = [@ EXCEPT !.stage = "up"]]) /\ Remembers(pressedNow, lastChoice)

\* A key, or the click of an assistive technology, which sends no key.
Activate(el, key) ==
    /\ CanAct /\ There(textBar, el) /\ ~textBar.readOnly /\ el # Page
    /\ LET w == Clicked(IF key THEN Cleared(World, el, TRUE) ELSE World, el, 0)
       IN  Becomes(Acts(w), hands) /\ Remembers(pressedNow, Made(w, 0))

\* scheduleCloseAfterPointer's timer.
CloseInTime(m) ==
    /\ rangeMenus[m].closing
    /\ Becomes(Close([World EXCEPT !.menus = [@ EXCEPT ![m] = IdleMenu]], m), hands)
    /\ Remembers(pressedNow, lastChoice)
-----------------------------------------------------------------------------
(* Links, and marks taken away *)

LinkStep(w) == CanAct /\ Becomes(Acts(w), hands) /\ Remembers(pressedNow, lastChoice)

ToggleLink ==
    /\ ControlsShown(textBar) /\ Editable(World)
    /\ LinkStep([World EXCEPT !.bar = [@ EXCEPT !.linkOpen = ~textBar.linkOpen,
                                                !.linkValue = IF textBar.linkOpen THEN textBar.linkValue ELSE look.link,
                                                !.linkError = FALSE,
                                                !.linkFor = textBar.selection]])

LinkShown == ControlsShown(textBar) /\ textBar.linkOpen

TypeLink ==
    /\ LinkShown
    /\ \E v \in {"safe", "unsafe"} : LinkStep([World EXCEPT !.bar = [@ EXCEPT !.linkValue = v, !.linkError = FALSE]])

SubmitLink ==
    /\ LinkShown /\ Editable(World)
    /\ LinkStep(IF textBar.linkValue = "safe"
                THEN [World EXCEPT !.look = [@ EXCEPT !.link = "safe"],
                                   !.bar = [@ EXCEPT !.linkOpen = FALSE, !.linkError = FALSE]]
                ELSE [World EXCEPT !.bar = [@ EXCEPT !.linkError = TRUE]])

RemoveLink ==
    /\ ControlsShown(textBar) /\ Editable(World) /\ look.link # "none"
    /\ LinkStep([World EXCEPT !.look = [@ EXCEPT !.link = "none"]])

\* unsetAllMarks
ClearMarks ==
    /\ ControlsShown(textBar) /\ Editable(World)
    /\ CanAct /\ Becomes(Acts([World EXCEPT !.look = [mark |-> PlainMark, bold |-> FALSE, link |-> "none"]]), hands)
    /\ Remembers(pressedNow, [lastChoice EXCEPT !.menu = NoMenu])
-----------------------------------------------------------------------------
(* What changes beneath the menu *)

\* A range of older size, and one that has all marks.
Marked == [mark |-> [font |-> CHOOSE f \in FontChoices : TRUE, rem |-> CHOOSE n \in SizeChoices : TRUE,
                     size |-> "base"], bold |-> TRUE, link |-> "safe"]
FirstLooks == {[mark |-> [PlainMark EXCEPT !.size = "large"], bold |-> FALSE, link |-> "none"], Marked}

Beneath(bar, l) ==
    /\ textBar.changes < MaxSelections
    /\ Becomes([World EXCEPT !.look = l, !.bar = [bar EXCEPT !.changes = bar.changes + 1,
                     !.selection = IF Over(bar) = Over(textBar) THEN bar.selection ELSE bar.selection + 1]], hands)
    /\ Remembers(pressedNow, IF l = look THEN lastChoice ELSE [lastChoice EXCEPT !.menu = NoMenu])

SelectText ==
    \E e \in Editors, l \in FirstLooks :
        Beneath([textBar EXCEPT !.editor = e, !.range = IF e = textBar.editor THEN ~@ ELSE TRUE], l)

ChangePermission == Beneath([textBar EXCEPT !.readOnly = ~@], look)
ResizeWindow == Beneath([textBar EXCEPT !.small = ~@], look)
-----------------------------------------------------------------------------
RichTextInit ==
    /\ textBar = [editor |-> CHOOSE e \in Editors : TRUE, readOnly |-> FALSE, range |-> TRUE, small |-> FALSE,
                  selection |-> 0, changes |-> 0, open |-> NoMenu, advanced |-> FALSE, moreSuppress |-> FALSE,
                  boldSuppress |-> FALSE, linkOpen |-> FALSE, linkValue |-> "none", linkError |-> FALSE,
                  linkFor |-> 0, acts |-> 0]
    /\ rangeMenus = [m \in Menus |-> IdleMenu]
    /\ look = Marked
    /\ hands = [p \in Pointers |-> [stage |-> "up", at |-> Page, done |-> 0]]
    /\ pressedNow = [m \in Menus |-> {}]
    /\ lastChoice = [n |-> 0, menu |-> NoMenu, value |-> 0, by |-> 0]

RichTextNext ==
    \/ \E p \in Pointers : \/ \E el \in Controls : PressOn(p, el) \/ ReleaseOn(p, el)
                           \/ ClickFollows(p) \/ PointerEnds(p)
    \/ \E el \in Controls, key \in BOOLEAN : Activate(el, key)
    \/ \E m \in Menus : CloseInTime(m)
    \/ ToggleLink \/ TypeLink \/ SubmitLink \/ RemoveLink \/ ClearMarks
    \/ SelectText \/ ChangePermission \/ ResizeWindow
-----------------------------------------------------------------------------
(* Properties *)

\* Type invariant: the state of G7RichTextInlineMenu, the refs of its menus, the marks.
RichTextTypeOK ==
    /\ textBar.open \in Menus \cup {NoMenu} /\ textBar.editor \in Editors
    /\ textBar.linkValue \in {"none", "safe", "unsafe"}
    /\ look.mark \in Marks /\ look.link \in {"none", "safe"}
    /\ \A m \in Menus : rangeMenus[m].armed \subseteq [pointer : Pointers, value : OptionsOf(m)]
    /\ \A p \in Pointers : hands[p].stage \in {"up", "down", "click"} /\ hands[p].at \in Controls

\* One gesture makes at most one choice: the click that follows a pointer does not
\* make it again, whatever else was pressed, cancelled or typed in between.
OneChoiceAPress == \A p \in Pointers : hands[p].done <= 1

\* A menu that is about to close is the one that is open, and nothing has been pressed in
\* it since: the late close takes away no other menu and no other choice.
LateCloseIsAimed ==
    \A m \in Menus : rangeMenus[m].closing => textBar.open = m /\ rangeMenus[m].armed = {}

\* What was chosen is what the menu shows, through the flags that carry it.
ChoiceIsShown == lastChoice.menu \in Menus => ShownIn(lastChoice.menu) = lastChoice.value

\* A link that is being edited is a link of the range that is selected now.
LinkStaysHome == textBar.linkOpen => textBar.linkFor = textBar.selection

\* A pointer makes only a choice that it pressed in this menu since it is open, in this
\* editor.
ChoiceWasPressed ==
    [][lastChoice'.n # lastChoice.n /\ lastChoice'.by # 0 /\ lastChoice'.menu \in Menus =>
           <<lastChoice'.by, lastChoice'.value>> \in pressedNow[lastChoice'.menu]]_richTextVars
=============================================================================
