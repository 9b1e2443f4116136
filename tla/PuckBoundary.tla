---------------------------- MODULE PuckBoundary ----------------------------
(***************************************************************************)
(* The boundary between the document of the page editor and Puck, whose    *)
(* data and Undo history are the only ones there are. Puck has made every  *)
(* change when the boundary hears of it; one that cannot be a document, or *)
(* comes while the editor is readonly, is taken back afterwards, and the   *)
(* history is put as it was.                                               *)
(*                                                                         *)
(* Puck is external, with the correction that the build gives it: a        *)
(* command changes the data, is written to the history and calls onAction  *)
(* and onChange before it returns. React renders before the next input,    *)
(* before or after the microtasks of the last one.                         *)
(***************************************************************************)
EXTENDS Naturals, Sequences

CONSTANTS Candidates,    \* the data that Puck can reach
          PlainPages,    \* what puckToCanonical accepts of a page of blocks
          StructuredPages, \* and of a page with a structure
          NoPage,        \* none
          MaxInputs      \* bound on what the user does

ASSUME PuckBoundaryAssumption ==
    /\ NoPage \notin Candidates
    /\ PlainPages \subseteq StructuredPages /\ StructuredPages \subseteq Candidates
    /\ MaxInputs \in Nat \ {0}

VARIABLES kernel,   \* Puck's data and history
          hook,     \* the closure of usePuckDocumentBoundary, and the session
          owner,    \* what onChange and onPublish gave to the page
          wanted    \* ghost: the history without what was refused; the inputs so far

boundaryVars == <<kernel, hook, owner, wanted>>
-----------------------------------------------------------------------------
\* version: the identity of the array of entries.
Histories == [entries : Seq(Candidates), index : Nat, version : Nat]

Kernels == [data : Candidates, history : Histories]

NoRecovery == [data |-> NoPage, history |-> [entries |-> << >>, index |-> 0, version |-> 0]]

\* api: the history of the last render. repair: the microtask is queued. shown:
\* `recovering` of the last render.
Hooks == [accepted : Candidates, api : Histories,
          recovery : [data : Candidates, history : Histories] \cup {NoRecovery},
          repair : BOOLEAN, shown : BOOLEAN, canEdit : BOOLEAN, structured : BOOLEAN]

InRecovery(h) == h.recovery # NoRecovery

\* An input comes when what the one before changed is rendered.
InputReady == /\ hook.api = kernel.history /\ ~hook.repair
              /\ hook.shown = InRecovery(hook)
              /\ wanted.inputs < MaxInputs

BoundaryAtRest == hook.api = kernel.history /\ ~InRecovery(hook) /\ ~hook.repair
-----------------------------------------------------------------------------
BoundaryInit ==
    \E d \in PlainPages, structured \in BOOLEAN :
        LET first == [entries |-> <<d>>, index |-> 1, version |-> 0]
        IN  /\ kernel = [data |-> d, history |-> first]
            /\ hook = [accepted |-> d, api |-> first, recovery |-> NoRecovery,
                       repair |-> FALSE, shown |-> FALSE, canEdit |-> TRUE,
                       structured |-> structured]
            /\ owner = [page |-> d, structured |-> structured, published |-> NoPage]
            /\ wanted = [entries |-> <<d>>, index |-> 1, inputs |-> 0]

\* assessEditorCandidate: a document by conversion and policy, and a change only in
\* an editor that may be changed.
Accepts(h, d) ==
    /\ d \in IF h.structured THEN StructuredPages ELSE PlainPages
    /\ d # h.accepted => h.canEdit /\ ~InRecovery(h)

\* reject: the first one keeps the history as it was rendered.
Rejected(h) ==
    [h EXCEPT !.repair = TRUE,
              !.recovery = IF InRecovery(h) THEN @
                           ELSE [data |-> h.accepted, history |-> h.api]]

\* accept, of onChange and of acceptForPublish.
Assessed(h, d) == IF Accepts(h, d) THEN [h EXCEPT !.accepted = d] ELSE Rejected(h)

\* record of Puck: what was undone is gone.
HistoryWith(history, d) ==
    [entries |-> Append(SubSeq(history.entries, 1, history.index), d),
     index |-> history.index + 1, version |-> history.version + 1]

\* What onChange gives to the page.
Given(d) == IF Accepts(hook, d) /\ d # hook.accepted THEN [owner EXCEPT !.page = d] ELSE owner

OneMoreInput == wanted.inputs + 1

\* A command, a drop, a text or an insertion of Puck.
PuckCommand(d) ==
    /\ InputReady
    /\ d # kernel.data
    /\ kernel' = [data |-> d, history |-> HistoryWith(kernel.history, d)]
    /\ hook' = Assessed(hook, d)
    /\ owner' = Given(d)
    /\ wanted' = IF Accepts(hook, d)
                 THEN [entries |-> Append(SubSeq(wanted.entries, 1, wanted.index), d),
                       index |-> wanted.index + 1, inputs |-> OneMoreInput]
                 ELSE [wanted EXCEPT !.inputs = OneMoreInput]

\* back and forward of Puck, by a button or a key: the keys do not ask whether the
\* editor is readonly.
PuckTravels(to) ==
    /\ InputReady
    /\ to \in 1 .. Len(kernel.history.entries)
    /\ to \in {kernel.history.index - 1, kernel.history.index + 1}
    /\ LET d == kernel.history.entries[to]
       IN  /\ kernel' = [data |-> d, history |-> [kernel.history EXCEPT !.index = to]]
           /\ hook' = IF d = kernel.data THEN hook ELSE Assessed(hook, d)
           /\ owner' = Given(d)
           /\ wanted' = [wanted EXCEPT !.index = IF Accepts(hook, d) THEN to ELSE @,
                                       !.inputs = OneMoreInput]

\* restore: the accepted document goes back, as an entry of its own.
RestoreAccepted ==
    /\ hook.repair
    /\ hook' = [hook EXCEPT !.repair = FALSE]
    /\ kernel' = IF ~InRecovery(hook) THEN kernel
                 ELSE [data |-> hook.recovery.data,
                       history |-> HistoryWith(kernel.history, hook.recovery.data)]
    /\ UNCHANGED <<owner, wanted>>

\* Mutated: only the past is kept.
PastOnly(original, recovered) ==
    IF original.entries[original.index] = recovered
    THEN [original EXCEPT !.entries = SubSeq(@, 1, original.index)]
    ELSE [original EXCEPT !.entries = Append(SubSeq(@, 1, original.index), recovered),
                          !.index = @ + 1]

\* historyAfterRejectedCommand: a valid edit that was not in the history yet stays.
HistoryAfterRejected(original, recovered) ==
    IF original.entries[original.index] = recovered THEN original
    ELSE [original EXCEPT !.entries = Append(SubSeq(@, 1, original.index), recovered),
                          !.index = @ + 1]

\* Mutated: the history is waited for as it was.
WrittenInPlace(h, history) == history = h.recovery.history

\* finishRecovery goes on once the repair is in the history.
RepairIsWritten(h, history) ==
    /\ history.version # h.recovery.history.version
    /\ history.entries[history.index] = h.recovery.data

\* A render reads the API of Puck; its effects end a recovery.
BoundaryRenders ==
    /\ hook.api # kernel.history \/ hook.shown # InRecovery(hook)
    /\ IF InRecovery(hook) /\ hook.api # kernel.history
          /\ RepairIsWritten(hook, kernel.history)
       THEN /\ kernel' = [data |-> hook.recovery.data,
                          history |-> [HistoryAfterRejected(hook.recovery.history,
                                                            hook.recovery.data)
                                         EXCEPT !.version = kernel.history.version + 1]]
            /\ hook' = [hook EXCEPT !.api = kernel.history, !.recovery = NoRecovery,
                                    !.shown = TRUE]
       ELSE /\ hook' = [hook EXCEPT !.api = kernel.history, !.shown = InRecovery(hook)]
            /\ UNCHANGED kernel
    /\ UNCHANGED <<owner, wanted>>

\* The editor becomes readonly, by its viewport or by the page, and editable again.
ChangePermission ==
    /\ InputReady
    /\ hook' = [hook EXCEPT !.canEdit = ~@]
    /\ wanted' = [wanted EXCEPT !.inputs = OneMoreInput]
    /\ UNCHANGED <<kernel, owner>>

\* enableStructureEditing: the accepted document, in the form with a structure.
EnableStructure ==
    /\ InputReady
    /\ hook.canEdit /\ ~hook.shown /\ ~hook.structured
    /\ hook' = [hook EXCEPT !.structured = TRUE]
    /\ owner' = [owner EXCEPT !.page = hook.accepted, !.structured = TRUE]
    /\ wanted' = [wanted EXCEPT !.inputs = OneMoreInput]
    /\ UNCHANGED kernel

\* Mutated: what Puck shows is published.
PublishesTheCanvas(h, d) == TRUE

\* acceptForPublish.
PublishesAccepted(h, d) == Accepts(h, d)

\* onPublish of Puck, as it was rendered.
PublishPuck ==
    /\ wanted.inputs < MaxInputs
    /\ hook.canEdit /\ ~hook.shown
    /\ hook' = Assessed(hook, kernel.data)
    /\ owner' = IF PublishesAccepted(hook, kernel.data)
                THEN [Given(kernel.data) EXCEPT !.published = kernel.data] ELSE owner
    /\ wanted' = [wanted EXCEPT !.inputs = OneMoreInput]
    /\ UNCHANGED kernel

BoundaryNext ==
    \/ \E d \in Candidates : PuckCommand(d)
    \/ \E to \in {kernel.history.index - 1, kernel.history.index + 1} : PuckTravels(to)
    \/ RestoreAccepted \/ BoundaryRenders
    \/ ChangePermission \/ EnableStructure \/ PublishPuck

\* React renders and microtasks run.
BoundaryFairness == WF_boundaryVars(RestoreAccepted) /\ WF_boundaryVars(BoundaryRenders)

BoundarySpec == BoundaryInit /\ [][BoundaryNext]_boundaryVars /\ BoundaryFairness
-----------------------------------------------------------------------------
(* Properties *)

\* Every variable keeps its type.
BoundaryTypeOK ==
    /\ kernel \in Kernels /\ hook \in Hooks
    /\ owner \in [page : Candidates, structured : BOOLEAN,
                  published : Candidates \cup {NoPage}]
    /\ wanted \in [entries : Seq(Candidates), index : Nat, inputs : 0 .. MaxInputs]

\* The page holds, and publishes, only what is a document of its form: what Puck
\* made and could not be one never gets there.
PagesAreDocuments ==
    /\ owner.page = hook.accepted /\ owner.structured = hook.structured
    /\ owner.page \in IF owner.structured THEN StructuredPages ELSE PlainPages
    /\ owner.published \in {NoPage} \cup StructuredPages

\* When nothing is outstanding, the canvas is the document, and the history is what
\* it would be had the refused changes never been made, what was undone included.
RefusalsLeaveNoTrace ==
    BoundaryAtRest => /\ kernel.data = hook.accepted
              /\ kernel.history.entries = wanted.entries
              /\ kernel.history.index = wanted.index

\* A refused change is taken back, and the editor can be used again.
BoundaryRecovers == []<>~InRecovery(hook)
=============================================================================
