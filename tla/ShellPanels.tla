---------------------------- MODULE ShellPanels -----------------------------
(***************************************************************************)
(* What opens over a public page: the mobile menu of the Header            *)
(* (mobileNavigation) and the panels of its tools (installShellDisclosures *)
(* with shellPopoverPlacement). A modal menu makes the rest of the page     *)
(* inert; the host of the page may replace any part of the markup at any   *)
(* time, and the boot that follows finds what was open by what was         *)
(* remembered. The observers run before the next event of the user.        *)
(***************************************************************************)
EXTENDS Naturals

CONSTANTS Tools,        \* panels of the tools
          NoTool,       \* none of them
          MemberTools,  \* the ones that are there for members
          Urls,         \* addresses of the page
          MaxPageEvents \* bound on what the host and the browser do

ASSUME ShellPanelsAssumption ==
    NoTool \notin Tools /\ MemberTools \subseteq Tools /\ MaxPageEvents \in Nat

VARIABLES page,         \* the window and the markup around the menu
          nav,          \* the mobile menu and its snapshot
          tools         \* the panels and the disclosureState

panelVars == <<page, nav, tools>>
-----------------------------------------------------------------------------
\* What a modal menu locks: the siblings along its path to the body.
Outside == {"toggle", "tools", "content"}

\* inert: what the menu has locked.
Page == [wide : BOOLEAN, url : Urls, modal : BOOLEAN, member : BOOLEAN,
         inert : SUBSET Outside, events : 0 .. MaxPageEvents]

Snapshot == [kept : BOOLEAN, submenu : BOOLEAN, url : Urls]

\* dialog: role and aria-modal of the menu.
Nav == [opened : BOOLEAN, submenu : BOOLEAN, dialog : BOOLEAN, snapshot : Snapshot]

\* placed: the panel is in the top layer, with the styles of its placement.
ToolState == [open : Tools \cup {NoTool}, placed : Tools \cup {NoTool},
              memory : Tools \cup {NoTool}]

\* What a chain of handlers leaves.
Surface == [page |-> page, nav |-> nav, tools |-> tools]

Shows(s) == page' = s.page /\ nav' = s.nav /\ tools' = s.tools
-----------------------------------------------------------------------------
\* Mutated: closing a menu that the host has replaced unlocks nothing.
UnlockedIfOpen(s) == IF s.nav.opened THEN [s EXCEPT !.page.inert = {}] ELSE s

Unlocked(s) == [s EXCEPT !.page.inert = {}]

Locked(s) == IF s.page.modal THEN [s EXCEPT !.page.inert = Outside] ELSE Unlocked(s)

Forgotten(s) == [s EXCEPT !.nav.snapshot.kept = FALSE, !.nav.snapshot.submenu = FALSE]

MenuClosed(s) ==
    Forgotten(Unlocked([s EXCEPT !.nav.opened = FALSE, !.nav.submenu = FALSE]))

\* remember: what a menu that is opened after a replacement takes up.
Remembered(s) ==
    IF ~s.nav.opened THEN s
    ELSE [s EXCEPT !.nav.snapshot = [kept |-> TRUE, submenu |-> s.nav.submenu,
                                     url |-> s.page.url]]

\* close of the disclosures: the memory goes with a panel that is open.
ToolsClosed(s) ==
    IF s.tools.open = NoTool THEN s
    ELSE [s EXCEPT !.tools = [open |-> NoTool, placed |-> NoTool, memory |-> NoTool]]

\* Mutated: the menu opens without a word to the tools.
MenuOpenedSilently(s, submenu) ==
    Remembered(Locked([s EXCEPT !.nav.opened = TRUE, !.nav.submenu = submenu,
                                !.nav.dialog = s.page.modal]))

\* open, after the event that closes the panels of the tools.
MenuOpened(s, submenu) ==
    Remembered(Locked([ToolsClosed(s) EXCEPT !.nav.opened = TRUE, !.nav.submenu = submenu,
                                             !.nav.dialog = s.page.modal]))

\* A tool that is hidden opens no panel.
ToolShown(s, key) == key \in MemberTools => s.page.member

\* openPanel: the event closes the menu.
ToolOpened(s, key) ==
    IF ~ToolShown(s, key) THEN s
    ELSE [(IF s.nav.opened THEN MenuClosed(s) ELSE s) EXCEPT
            !.tools = [open |-> key, placed |-> key, memory |-> key]]
-----------------------------------------------------------------------------
\* Mutated: the menu that is gone is remembered as closed.
MenuRetiredClosed(s) == MenuClosed(s)

\* pruneMobileNavigation: the mount is disposed of and its snapshot kept.
MenuRetired(s) == Unlocked([s EXCEPT !.nav.opened = FALSE, !.nav.submenu = FALSE])

\* installMobileNavigation of the new menu.
MenuMounted(s) ==
    LET snapshot == s.nav.snapshot
    IN  IF snapshot.kept /\ snapshot.url = s.page.url /\ ~s.page.wide
        THEN MenuOpened(s, snapshot.submenu) ELSE MenuClosed(s)

\* mountDisclosures of the new host: the placement of the old one is disposed of.
ToolsMounted(s) ==
    LET fresh == [s EXCEPT !.tools.open = NoTool, !.tools.placed = NoTool]
    IN  IF s.tools.memory = NoTool THEN fresh ELSE ToolOpened(fresh, s.tools.memory)

\* bootPageEffects: the tools first, then the menu.
Booted(s, parts) ==
    LET pruned == IF "menu" \in parts THEN MenuRetired(s) ELSE s
        mounted == IF "tools" \in parts THEN ToolsMounted(pruned) ELSE pruned
    IN  IF "menu" \in parts THEN MenuMounted(mounted) ELSE mounted

ShellPanelsInit ==
    /\ \E wide, modal, member \in BOOLEAN, url \in Urls :
          /\ page = [wide |-> wide, url |-> url, modal |-> modal, member |-> member,
                     inert |-> {}, events |-> 0]
          /\ nav = [opened |-> FALSE, submenu |-> FALSE, dialog |-> FALSE,
                    snapshot |-> [kept |-> FALSE, submenu |-> FALSE, url |-> url]]
    /\ tools = [open |-> NoTool, placed |-> NoTool, memory |-> NoTool]

PageEvent == page.events < MaxPageEvents
Counted == [Surface EXCEPT !.page.events = @ + 1]

\* The host replaces parts of the markup; what is new is not inert. A menu comes with
\* its toggle.
HostReplaces(parts) ==
    LET new == parts \cup (IF "menu" \in parts THEN {"toggle"} ELSE {})
    IN  /\ PageEvent /\ parts # {}
        /\ Shows(Booted([Counted EXCEPT !.page.inert = @ \ new], parts))

\* Another width of the window.
Resized ==
    /\ PageEvent
    /\ Shows(LET s == ToolsClosed([Counted EXCEPT !.page.wide = ~@])
             IN  IF s.nav.opened THEN MenuClosed(s) ELSE s)

\* popstate closes the menu; a navigation of the host's client does not.
Navigates(url, popstate) ==
    /\ PageEvent /\ url # page.url
    /\ Shows(LET s == [Counted EXCEPT !.page.url = url]
             IN  IF popstate THEN MenuClosed(s) ELSE s)

\* The style of the menu is written: role, backdrop and lock follow.
StyleChanges ==
    /\ PageEvent
    /\ Shows(LET s == [Counted EXCEPT !.page.modal = ~@]
             IN  IF nav.opened THEN Locked([s EXCEPT !.nav.dialog = ~page.modal]) ELSE s)

\* The account refreshes: the tools of members are shown or hidden.
AccountChanges ==
    /\ PageEvent /\ Shows([Counted EXCEPT !.page.member = ~@])
-----------------------------------------------------------------------------
\* The toggle takes its click for itself.
ToggleMenu ==
    /\ "toggle" \notin page.inert /\ ~page.wide
    /\ Shows(IF nav.opened THEN MenuClosed(Surface) ELSE MenuOpened(Surface, FALSE))

\* The close button, the backdrop, Escape, a link of the menu.
CloseMenu == nav.opened /\ Shows(MenuClosed(Surface))

ToggleSubmenu ==
    /\ nav.opened
    /\ Shows(Remembered([Surface EXCEPT !.nav.submenu = ~@]))

\* A click beside both, and the focus that leaves them.
ClickContent ==
    /\ "content" \notin page.inert
    /\ Shows(LET s == ToolsClosed(Surface) IN IF nav.opened THEN MenuClosed(s) ELSE s)

\* A click on the button of a tool: the panel that is open closes.
ClickTool(key) ==
    /\ "tools" \notin page.inert /\ ToolShown(Surface, key)
    /\ Shows(LET s == ToolsClosed(IF nav.opened THEN MenuClosed(Surface) ELSE Surface)
             IN  IF tools.open = key THEN s ELSE ToolOpened(s, key))

\* Escape in a panel, or a link of it.
CloseTool == tools.open # NoTool /\ Shows(ToolsClosed(Surface))
-----------------------------------------------------------------------------
ShellPanelsNext ==
    \/ \E parts \in SUBSET {"menu", "tools", "content"} : HostReplaces(parts)
    \/ \E url \in Urls, popstate \in BOOLEAN : Navigates(url, popstate)
    \/ Resized \/ StyleChanges \/ AccountChanges
    \/ ToggleMenu \/ CloseMenu \/ ToggleSubmenu \/ ClickContent \/ CloseTool
    \/ \E key \in Tools : ClickTool(key)

ShellPanelsSpec == ShellPanelsInit /\ [][ShellPanelsNext]_panelVars
-----------------------------------------------------------------------------
(* Properties *)

\* Every variable keeps its type.
ShellPanelsTypeOK == page \in Page /\ nav \in Nav /\ tools \in ToolState

\* The page can always be used: parts of it are inert only while a modal menu is
\* open, never two things are open, and a panel in the top layer is one that is open
\* (g7pb:shell-open, unlock, and the placement of a host that was replaced).
PageStaysUsable ==
    /\ page.inert # {} => nav.opened /\ page.modal
    /\ ~(nav.opened /\ tools.open # NoTool)
    /\ tools.placed = tools.open

\* A menu that was open when the host replaced it is open again as it was, on the
\* page it was opened for and in a window that has the menu (MenuSnapshot).
MenuComesBack ==
    [][\A parts \in SUBSET {"menu", "tools", "content"} :
          HostReplaces(parts) /\ nav.opened /\ tools.memory = NoTool /\ ~page.wide
          /\ nav.snapshot.url = page.url
             => nav'.opened /\ nav'.submenu = nav.submenu]_panelVars
=============================================================================
