---------------------------- MODULE MediaRequests ----------------------------
(***************************************************************************)
(* Choosing and uploading images in the precise editor: the sessions of    *)
(* editor-application/v3/media.ts under their panels, ImageInspector       *)
(* ("replace": the image of the selected node) and MediaInsertion          *)
(* ("insert": a new image at the place selected). The administrator goes   *)
(* on working while a list or an upload is on its way.                     *)
(***************************************************************************)
EXTENDS Naturals, FiniteSets

CONSTANTS Nodes,       \* image nodes of the document
          Assets,      \* images of the library
          NoNode,      \* no selection
          MaxEdits,    \* bound on the edit epoch
          MaxRequests  \* bound on the sequence numbers of a session

ASSUME MediaAssumption == /\ NoNode \notin Nodes
                          /\ MaxEdits \in Nat /\ MaxRequests \in Nat

VARIABLES canvas,  \* the part of the editor the panels read
          panel,   \* the two panels, each with its session
          calls    \* lists and uploads on their way

mediaVars == <<canvas, panel, calls>>

Panels == {"replace", "insert"}
-----------------------------------------------------------------------------
\* image: what each node shows; added: the images that were inserted.
Canvas == [epoch : 0 .. MaxEdits, selected : Nodes \cup {NoNode},
           readonly : BOOLEAN, image : [Nodes -> Assets], added : SUBSET Assets]

Panel == [open : BOOLEAN, sequence : 0 .. MaxRequests, uploading : BOOLEAN,
          busy : BOOLEAN]

\* "overtaken" is not stored: since the call was made the administrator has
\* cancelled it, asked for something else, closed the panel or edited the page.
\* "mine": the panel that made the call is still the one that is mounted.
Call == [panel : Panels, kind : {"list", "upload"}, token : 1 .. MaxRequests,
         epoch : 0 .. MaxEdits, node : Nodes \cup {NoNode},
         asset : Assets, mine : BOOLEAN, overtaken : BOOLEAN]

Of(p) == {c \in calls : c.panel = p}

Overtaken(cs) == {[c EXCEPT !.overtaken = TRUE] : c \in cs}

\* An unmounted panel has cancelled its session; a later one starts afresh.
PanelClosed(p) == [panel[p] EXCEPT !.open = FALSE, !.uploading = FALSE, !.busy = FALSE,
                              !.sequence = @ + 1]

CallsAbandoned(cs) == {[c EXCEPT !.overtaken = TRUE, !.mine = FALSE] : c \in cs}

\* The inspector is keyed by its node and the node's content: another
\* selection, or another image, mounts it anew.
Remounted(p) == [PanelClosed(p) EXCEPT !.open = canvas'.selected # NoNode]
-----------------------------------------------------------------------------
MediaInit ==
    /\ \E a \in Assets :
         canvas = [epoch |-> 0, selected |-> NoNode, readonly |-> FALSE,
                   image |-> [n \in Nodes |-> a], added |-> {}]
    /\ panel = [p \in Panels |-> [open |-> FALSE, sequence |-> 0,
                                  uploading |-> FALSE, busy |-> FALSE]]
    /\ calls = {}

MoreRequests == \A p \in Panels : panel[p].sequence < MaxRequests

SelectNode(n) ==
    /\ n # canvas.selected /\ MoreRequests
    /\ canvas' = [canvas EXCEPT !.selected = n]
    /\ panel' = [panel EXCEPT !["replace"] = Remounted("replace")]
    /\ calls' = Of("insert") \cup CallsAbandoned(Of("replace"))

\* A change elsewhere on the page moves the epoch and mounts nothing anew.
EditElsewhere ==
    /\ ~canvas.readonly /\ canvas.epoch < MaxEdits
    /\ canvas' = [canvas EXCEPT !.epoch = @ + 1]
    /\ calls' = Overtaken(calls)
    /\ UNCHANGED panel

\* A preview, a lock or a publication makes the panels readonly; the effect of
\* the inspector then cancels its session.
SetReadonly ==
    /\ MoreRequests
    /\ canvas' = [canvas EXCEPT !.readonly = ~@]
    /\ IF canvas'.readonly
       THEN /\ panel' = [panel EXCEPT !["replace"].sequence = @ + 1]
            /\ calls' = Of("insert") \cup Overtaken(Of("replace"))
       ELSE UNCHANGED <<panel, calls>>

\* Mutated: cancelling only closes the panel.
CancelledPanelOnly(p) == [panel[p] EXCEPT !.busy = FALSE]

\* session.cancel() and the buttons are free again.
CancelledSession(p) == [panel[p] EXCEPT !.busy = FALSE, !.sequence = @ + 1]

CancelReplace ==
    /\ panel["replace"].open /\ MoreRequests
    /\ panel' = [panel EXCEPT !["replace"] = CancelledSession("replace")]
    /\ calls' = Of("insert") \cup Overtaken(Of("replace"))
    /\ UNCHANGED canvas

CloseInsertion ==
    /\ panel["insert"].open /\ MoreRequests
    /\ panel' = [panel EXCEPT !["insert"] = PanelClosed("insert")]
    /\ calls' = Of("replace") \cup CallsAbandoned(Of("insert"))
    /\ UNCHANGED canvas
-----------------------------------------------------------------------------
Enabled(p) == panel[p].open /\ ~panel[p].busy /\ ~canvas.readonly

\* The session takes the next number and a copy of the context.
Asked(p, kind, a) ==
    {[panel |-> p, kind |-> kind, token |-> panel'[p].sequence,
      epoch |-> canvas.epoch, node |-> canvas.selected, asset |-> a,
      mine |-> TRUE, overtaken |-> FALSE]}

PanelStarted(p, kind) == [panel[p] EXCEPT !.busy = TRUE, !.sequence = @ + 1,
                        !.uploading = @ \/ (kind = "upload" /\ p = "replace")]

\* Opening the insertion asks for the list at once. A session that is readonly
\* refuses; the panel stays open.
OpenInsertion ==
    /\ ~panel["insert"].open /\ ~canvas.readonly /\ MoreRequests
    /\ panel' = [panel EXCEPT !["insert"] =
                    [PanelStarted("insert", "list") EXCEPT !.open = TRUE]]
    /\ \E a \in Assets : calls' = calls \cup Asked("insert", "list", a)
    /\ UNCHANGED canvas

ListImages ==
    /\ Enabled("replace") /\ MoreRequests
    /\ panel' = [panel EXCEPT !["replace"] = PanelStarted("replace", "list")]
    /\ \E a \in Assets :
         calls' = Of("insert") \cup Overtaken(Of("replace"))
                      \cup Asked("replace", "list", a)
    /\ UNCHANGED canvas

\* The inspector's session refuses a second upload; its insertion counterpart
\* relies on the number alone.
MayUpload(p) == Enabled(p) /\ ~panel[p].uploading

UploadImage(p, a) ==
    /\ MayUpload(p) /\ MoreRequests
    /\ panel' = [panel EXCEPT ![p] = PanelStarted(p, "upload")]
    /\ calls' = (calls \ Of(p)) \cup Overtaken(Of(p)) \cup Asked(p, "upload", a)
    /\ UNCHANGED canvas

\* The command of the session: the image of the node it was asked for.
Replaced(n, a) == [canvas EXCEPT !.image[n] = a, !.epoch = @ + 1]

Inserted(a) == [canvas EXCEPT !.added = @ \cup {a}, !.epoch = @ + 1]

\* An image that is in the library or in the document is applied at once.
ChooseImage(a) ==
    /\ Enabled("replace") /\ MoreRequests /\ canvas.epoch < MaxEdits
    /\ a # canvas.image[canvas.selected]
    /\ canvas' = Replaced(canvas.selected, a)
    /\ panel' = [panel EXCEPT !["replace"] = Remounted("replace")]
    /\ calls' = Overtaken(Of("insert")) \cup CallsAbandoned(Of("replace"))

InsertImage(a) ==
    /\ Enabled("insert") /\ MoreRequests /\ canvas.epoch < MaxEdits
    /\ canvas' = Inserted(a)
    /\ panel' = [panel EXCEPT !["insert"] = PanelClosed("insert")]
    /\ calls' = CallsAbandoned(Of("insert")) \cup Overtaken(Of("replace"))
-----------------------------------------------------------------------------
\* Mutated: only the number is compared.
StillMeantByNumber(c) == c.mine /\ c.token = panel[c.panel].sequence

\* token = sequence, and the context is the one of the call.
StillMeant(c) == /\ c.mine /\ c.token = panel[c.panel].sequence
                 /\ ~canvas.readonly
                 /\ c.epoch = canvas.epoch /\ c.node = canvas.selected

\* Mutated: the flags are those of the latest call only.
EndedIfLatest(p, c) ==
    IF c.token # panel[p].sequence THEN panel[p]
    ELSE [panel[p] EXCEPT !.busy = FALSE, !.uploading = @ /\ c.kind # "upload"]

\* finally: the flag of the session and of its panel.
Ended(p, c) == [panel[p] EXCEPT !.busy = FALSE,
                                !.uploading = @ /\ c.kind # "upload"]

\* The list or the failure of a call ends it; so does an upload nobody waits for.
CallEnds(c) ==
    /\ c \in calls
    /\ calls' = calls \ {c}
    /\ panel' = IF c.mine THEN [panel EXCEPT ![c.panel] = Ended(c.panel, c)] ELSE panel
    /\ UNCHANGED canvas

\* The file is stored and the image applied to the document; the inspector of
\* another image, and the insertion, then close.
UploadApplied(c) ==
    /\ c \in calls /\ c.kind = "upload" /\ StillMeant(c)
    /\ canvas.epoch < MaxEdits /\ MoreRequests
    /\ canvas' = IF c.panel = "replace" THEN Replaced(c.node, c.asset) ELSE Inserted(c.asset)
    /\ panel' = [panel EXCEPT ![c.panel] =
                    IF c.panel = "insert" THEN PanelClosed("insert")
                    ELSE IF canvas'.image # canvas.image THEN Remounted("replace")
                    ELSE Ended("replace", c)]
    /\ calls' = CallsAbandoned(Of(c.panel) \ {c}) \cup Overtaken(calls \ Of(c.panel))

MediaNext ==
    \/ \E n \in Nodes \cup {NoNode} : SelectNode(n)
    \/ EditElsewhere \/ SetReadonly
    \/ CancelReplace \/ CloseInsertion \/ OpenInsertion \/ ListImages
    \/ \E p \in Panels, a \in Assets : UploadImage(p, a)
    \/ \E a \in Assets : ChooseImage(a) \/ InsertImage(a)
    \/ \E c \in calls : CallEnds(c) \/ UploadApplied(c)

\* Every call is answered or fails.
MediaFairness == WF_mediaVars(\E c \in calls : CallEnds(c) \/ UploadApplied(c))

MediaSpec == MediaInit /\ [][MediaNext]_mediaVars /\ MediaFairness
-----------------------------------------------------------------------------
(* Properties *)

\* Every variable keeps its type.
MediaTypeOK == canvas \in Canvas /\ panel \in [Panels -> Panel] /\ calls \subseteq Call

\* An upload that the administrator has cancelled, overtaken by another choice,
\* or left behind by an edit or by closing the panel never changes the page
\* when it is answered; and one that does changes the node it was made for,
\* which is still the one selected.
OnlyTheLatestWishApplies ==
    [][\A c \in calls : UploadApplied(c) => /\ ~c.overtaken
                                            /\ c.node = canvas.selected]_mediaVars

\* The inspector refuses uploads only while one of its own is on its way.
UploadFlagIsFreed ==
    panel["replace"].uploading =>
        \E c \in Of("replace") : c.kind = "upload" /\ c.mine

\* The panel does not stay busy.
PanelsAreFreed == \A p \in Panels : []<>(~panel[p].busy)
=============================================================================
