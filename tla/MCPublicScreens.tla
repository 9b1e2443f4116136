-------------------------- MODULE MCPublicScreens --------------------------
(***************************************************************************)
(* What runs in the browser of a visitor, the list of the manager, and the *)
(* boundary of the page editor. They are compiled or mounted apart and     *)
(* share no state: a behaviour works with one of them, chosen at first.    *)
(***************************************************************************)
EXTENDS PublicData, InquiryForms, SiteShell, ShellPanels, PageWidgets, ManagerDocuments,
        PuckBoundary

CONSTANT FirstMember

VARIABLE screen

screens == <<publicDataVars, inquiryVars, shellVars, panelVars, widgetVars, managerVars,
             boundaryVars>>
-----------------------------------------------------------------------------
\* Each screen that is not chosen waits in one of its initial states; the session
\* starts with the member that is logged in.
Aside ==
    /\ session.token = FirstMember
    /\ screen # "data" => /\ visitor = "guest"
                          /\ dataRuntime.state.node = CHOOSE n \in Blocks : TRUE
                          /\ dataRuntime.state.inputs = CHOOSE i \in Inputs : TRUE
    /\ screen # "panels" => /\ ~page.wide /\ ~page.modal /\ ~page.member
                            /\ page.url = CHOOSE u \in Urls : TRUE
    /\ screen # "widgets" => /\ ~article.reduced /\ ~article.onScreen
                             /\ ~slider.present /\ ~counter.repeat
    /\ screen # "boundary" => /\ kernel.data = CHOOSE d \in PlainPages : TRUE
                              /\ ~hook.structured

ScreensInit ==
    /\ screen \in {"data", "form", "shell", "panels", "widgets", "manager", "boundary"}
    /\ PublicDataInit /\ InquiryInit /\ SiteShellInit /\ ShellPanelsInit
    /\ PageWidgetsInit /\ ManagerInit
    /\ BoundaryInit
    /\ Aside

\* Bound: a visitor asks for a second list, or for all to be marked as read, or presses
\* the logout link. No answer is kept back by it.
ListOrLogout == panel.loads <= 1 \/ logout.presses = 0

\* The screens that are not chosen wait.
Rest(s) ==
    /\ s # "data" => UNCHANGED publicDataVars
    /\ s # "form" => UNCHANGED inquiryVars
    /\ s # "shell" => UNCHANGED shellVars
    /\ s # "panels" => UNCHANGED panelVars
    /\ s # "widgets" => UNCHANGED widgetVars
    /\ s # "manager" => UNCHANGED managerVars
    /\ s # "boundary" => UNCHANGED boundaryVars

ScreensNext ==
    /\ UNCHANGED screen
    /\ \/ /\ screen = "data" /\ PublicDataNext /\ Rest("data")
       \/ /\ screen = "form" /\ InquiryNext /\ Rest("form")
       \/ /\ screen = "shell" /\ SiteShellNext /\ ListOrLogout' /\ Rest("shell")
       \/ /\ screen = "panels" /\ ShellPanelsNext /\ Rest("panels")
       \/ /\ screen = "widgets" /\ PageWidgetsNext /\ Rest("widgets")
       \/ /\ screen = "manager" /\ ManagerNext /\ Rest("manager")
       \/ /\ screen = "boundary" /\ BoundaryNext /\ Rest("boundary")

\* The fairness of each screen, while it is the one that is open.
ScreensFairness ==
    /\ WF_publicDataVars(screen = "data" /\ ObserversRun)
    /\ WF_publicDataVars(screen = "data" /\ \E j \in dataJobs : DataAnswers(j))
    /\ InquiryFairness
    /\ WF_shellVars(screen = "shell" /\ \E c \in shellCalls : ShellAnswers(c))
    /\ WF_widgetVars(screen = "widgets" /\ ObserversBoot)
    /\ WF_widgetVars(screen = "widgets" /\ \E g \in loader.waiting : LoaderContinues(g))
    /\ WF_widgetVars(screen = "widgets" /\ (ScriptLoaded \/ ScriptFailed))
    /\ WF_managerVars(screen = "manager" /\ (TakeList \/ ListFails))
    /\ \A key \in Keys : WF_managerVars(screen = "manager" /\ TakeSuperseded(key))
    /\ \A i \in Slots : WF_managerVars(screen = "manager" /\ Take(i))
    /\ WF_boundaryVars(screen = "boundary" /\ RestoreAccepted)
    /\ WF_boundaryVars(screen = "boundary" /\ BoundaryRenders)

ScreensSpec == ScreensInit /\ [][ScreensNext]_<<screen, screens>> /\ ScreensFairness
-----------------------------------------------------------------------------
(* Properties *)

\* Every variable of every screen keeps its type.
ScreensTypeOK ==
    /\ PublicDataTypeOK /\ InquiryTypeOK /\ SiteShellTypeOK /\ ShellPanelsTypeOK
    /\ PageWidgetsTypeOK /\ ManagerTypeOK /\ BoundaryTypeOK

\* Nothing stale is shown: data of other attributes or another visitor, the cart of
\* another member, a number half counted, a version older than one that was told of,
\* what Puck made and was refused.
ShowsNothingStale ==
    /\ ReadyIsCurrent /\ ShowsOneAccount /\ WidgetsMatchThePage
    /\ ShowsNoOlderVersion /\ QuietListIsTrue
    /\ RefusalsLeaveNoTrace

\* A part leaves alone what is not its own. A host that replaces parts of a page takes
\* nothing from its visitor: the text of a form, the use of the page; no window is opened
\* for a document in vain; and no page takes data of Puck that is no document.
NothingIsTaken ==
    /\ TypedTextIsKept /\ PageStaysUsable /\ NoWindowIsLeftBlank /\ PagesAreDocuments

\* An answer works on what it was asked for: the form that was sent, the session of
\* the list, the login that was to end; and a menu comes back as it was.
AnswersAreAimed ==
    OnlyAcceptedIsCleared /\ PaintsForItsSession /\ LogsOutOneSession /\ MenuComesBack

\* Everything that waits for an answer is freed, every widget comes up, and the
\* page editor is usable again after a change that it refused.
ScreensSettle ==
    /\ <>[](screen = "data" => AtRest)
    /\ <>[](screen = "widgets" => SliderMatches)
    /\ ButtonComesBack /\ ControlsComeBack /\ KeysAreFreed /\ BoundaryRecovers
=============================================================================
