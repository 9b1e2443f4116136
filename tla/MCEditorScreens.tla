-------------------------- MODULE MCEditorScreens --------------------------
(***************************************************************************)
(* The screens of the editor, each on its server. They share no state: a   *)
(* behaviour works with one of them, chosen at first, while the others     *)
(* stay as they are.                                                       *)
(***************************************************************************)
EXTENDS DraftEditor, StructureEditor, PuckBridge, MediaRequests, SitePartEditors,
        StructurePartPair, CanvasGesture

CONSTANTS b1, t1, p1, p2, p3, x1, x2

VARIABLE screen

screens == <<vars, structureVars, bridgeVars, mediaVars, partEditorVars, pairVars, gestureVars>>
-----------------------------------------------------------------------------
(* The instances *)

OneBrowser == [t \in Tabs |-> b1]

\* What assessPuckEdit accepts of the documents of Puck.
SomeEdits == {<<p1, p2>>, <<p2, p1>>, <<p2, p3>>}

OneOrBoth == {{x1}, {x1, x2}}
-----------------------------------------------------------------------------
\* Each screen that is not chosen waits in one of its initial states; the names
\* of documents do not matter.
Aside == /\ pageServer.draft = CHOOSE t \in Trees : TRUE
         /\ screen # "puck" => puck.data = p1
         /\ screen # "media" => canvas.image = [n \in Nodes |-> CHOOSE a \in Assets : TRUE]
         /\ screen # "parts" => shellEditor.kind = "set"
         /\ sheet.style = [n \in Boxes |-> [width |-> CHOOSE w \in Widths : TRUE,
                                           hidden |-> FALSE]]

ScreensInit ==
    /\ screen \in {"page", "structure", "puck", "media", "parts", "pair", "gesture"}
    /\ Init /\ StructureInit /\ BridgeInit /\ MediaInit
    /\ SitePartEditorsInit /\ PairInit /\ GestureInit
    /\ Aside

\* The screens that are not chosen wait.
Rest(s) ==
    /\ s # "page" => UNCHANGED vars
    /\ s # "structure" => UNCHANGED structureVars
    /\ s # "puck" => UNCHANGED bridgeVars
    /\ s # "media" => UNCHANGED mediaVars
    /\ s # "parts" => UNCHANGED partEditorVars
    /\ s # "pair" => UNCHANGED pairVars
    /\ s # "gesture" => UNCHANGED gestureVars

ScreensNext ==
    /\ UNCHANGED screen
    /\ \/ /\ screen = "page" /\ Next /\ Rest("page")
       \/ /\ screen = "structure" /\ StructureNext /\ Rest("structure")
       \/ /\ screen = "puck" /\ BridgeNext /\ Rest("puck")
       \/ /\ screen = "media" /\ MediaNext /\ Rest("media")
       \/ /\ screen = "parts" /\ SitePartEditorsNext /\ Rest("parts")
       \/ /\ screen = "pair" /\ PairNext /\ Rest("pair")
       \/ /\ screen = "gesture" /\ GestureNext /\ Rest("gesture")

\* The fairness of each screen; the pair would open by itself.
ScreensFairness ==
    /\ Fairness /\ StructureFairness /\ BridgeFairness /\ MediaFairness
    /\ SitePartEditorsFairness /\ GestureFairness
    /\ WF_pairVars(screen = "pair" /\ PairLoaded)
    /\ WF_pairVars(\E c \in partCalls : HandlePartCall(c) \/ PairAnswers(c))

ScreensSpec == ScreensInit /\ [][ScreensNext]_<<screen, screens>> /\ ScreensFairness
-----------------------------------------------------------------------------
(* Properties *)

\* Every variable of every screen keeps its type.
ScreensTypeOK ==
    /\ TypeOK /\ StructureTypeOK /\ BridgeTypeOK /\ MediaTypeOK
    /\ SitePartEditorsTypeOK /\ PairTypeOK /\ GestureTypeOK

\* Work that a screen shows as saved is saved: the structure editor, the editor
\* of a single part and the pair of parts, through saves that are answered late.
SavedWorkIsStored == CleanMeansStored /\ CleanPartIsStored /\ CleanPartsAreStored

\* What a screen offers or says of the server is so: the publication dialog and
\* the preview are of the screen, a set that can be activated is ready, the next
\* save sends the newest version, the inspector is blocked by its own upload.
OffersAreTrue == OffersTheScreen /\ OffersOnlyReady /\ TokensAreNewest /\ UploadFlagIsFreed

\* The canvas shows the document of the session, Puck's history leads there, and
\* nothing that a gesture painted stays.
CanvasIsTheDocument == /\ CanvasShowsDocument /\ HistoryNamesDocument
                       /\ NothingProvisionalStays

\* A publication makes public what was on the screen when it was confirmed.
PublishesWhatWasConfirmed ==
    PublishesTheConfirmed /\ TokenSentOnce /\ PublishesThePressed /\ PublishesBothScreens

\* No write of these screens takes away the work of another administrator.
OthersWorkIsKept == NeverOverwritesAnother /\ PartsAreCompared

\* A change or an answer changes what it was given for and nothing else.
ChangesAreAimed ==
    /\ ForeignChangesStayOut /\ OnlyTheLatestWishApplies /\ CommitsWhatWasShown

\* No screen stays busy, readonly or in recovery, and changes are saved.
ScreensSettle == /\ RequestsSettle /\ RecoveryEnds /\ PanelsAreFreed
                 /\ ChangesAreTried /\ PairSettles /\ ChangesAreSaved
                 /\ StaleGesturesEnd
=============================================================================
