----------------------------- MODULE PuckBridge -----------------------------
(***************************************************************************)
(* The bridge between the document of the precise editor and Puck, whose   *)
(* data, callbacks and Undo history are the only history there is.         *)
(*                                                                         *)
(* Puck is external. A dispatch changes its data and calls onAction at     *)
(* once; onChange follows with the next render, and the history is written *)
(* some time later, with the last state only, but before the next input.   *)
(***************************************************************************)
EXTENDS Naturals, Sequences

CONSTANTS Documents,   \* the documents that can be reached
          NoDocument,  \* none
          Approved,    \* the moves and text edits that assessPuckEdit accepts
          MaxHistory   \* bound on the entries of the history

ASSUME PuckBridgeAssumption ==
    /\ NoDocument \notin Documents
    /\ Approved \subseteq Documents \X Documents
    /\ MaxHistory \in Nat \ {0}

VARIABLES puck,   \* Puck's data, its history and the callbacks it owes
          bridge  \* the closure of createPuckBridge

bridgeVars == <<puck, bridge>>
-----------------------------------------------------------------------------
Optional == Documents \cup {NoDocument}

\* record: the state that is still to be written to the history; foreign: the
\* data is a change of Puck's own that the bridge must not accept.
Puck == [data : Documents, histories : Seq(Documents), index : Nat,
         changed : BOOLEAN, record : Optional, foreign : BOOLEAN]

\* saved is the history when recovery began; repaired: the microtask has run.
Recovering == [on : BOOLEAN, repaired : BOOLEAN, saved : Seq(Documents), index : Nat]

Bridge == [document : Documents, pending : Optional, accepted : Optional,
           undoTarget : Optional, readonly : BOOLEAN, recovery : Recovering]

NotRecovering == [on |-> FALSE, repaired |-> FALSE, saved |-> << >>, index |-> 0]

Unawaited(b) == [b EXCEPT !.pending = NoDocument, !.accepted = NoDocument,
                          !.undoTarget = NoDocument]

\* No callback, no history entry and no recovery is outstanding.
Quiet == ~puck.changed /\ puck.record = NoDocument /\ ~bridge.recovery.on

\* An input finds what the one before it changed rendered, and, but for a
\* recovery, written to the history.
Settled == /\ ~puck.changed
           /\ puck.record = NoDocument \/ bridge.recovery.repaired
-----------------------------------------------------------------------------
BridgeInit ==
    \E d \in Documents :
        /\ puck = [data |-> d, histories |-> <<d>>, index |-> 1,
                   changed |-> FALSE, record |-> NoDocument, foreign |-> FALSE]
        /\ bridge = [document |-> d, pending |-> NoDocument, accepted |-> NoDocument,
                     undoTarget |-> NoDocument, readonly |-> FALSE,
                     recovery |-> NotRecovering]

\* Mutated: the change that is refused is in the history that is kept.
FailingRecorded(b) ==
    IF b.recovery.on THEN b
    ELSE [b EXCEPT !.recovery = [on |-> TRUE, repaired |-> FALSE,
                                 saved |-> Append(puck.histories, puck.data),
                                 index |-> puck.index + 1]]

\* Mutated: the change is reported and not undone.
FailingSilently(b) == b

\* fail(): the history is kept as it was before the change is recorded.
Failing(b) ==
    IF b.recovery.on THEN b
    ELSE [b EXCEPT !.recovery = [on |-> TRUE, repaired |-> FALSE,
                                 saved |-> puck.histories, index |-> puck.index]]

\* Mutated: Puck's own changes are not assessed.
ActionTakenUnassessed(b, d) ==
    IF b.recovery.on \/ d = b.document THEN b ELSE [b EXCEPT !.accepted = d]

\* onAction, on a state whose data is d.
ActionTaken(b, d) ==
    IF b.recovery.on \/ d = b.document THEN b
    ELSE IF b.readonly THEN Failing([b EXCEPT !.accepted = NoDocument])
    ELSE IF d \in {b.undoTarget, b.pending} \/ <<b.document, d>> \in Approved
    THEN [b EXCEPT !.accepted = d]
    ELSE Failing([b EXCEPT !.accepted = NoDocument])

\* dispatch of a state whose data is d.
Dispatched(d, record, foreign) ==
    puck' = [puck EXCEPT !.data = d, !.changed = TRUE, !.record = record,
                         !.foreign = foreign]

\* A command of the editor commits its result.
CommitCommand(d) ==
    /\ Settled /\ ~bridge.recovery.on /\ ~bridge.readonly
    /\ d # bridge.document
    /\ Len(puck.histories) < MaxHistory
    /\ Dispatched(d, d, FALSE)
    /\ bridge' = ActionTaken([bridge EXCEPT !.pending = d], d)

\* Puck's own drag, drop or text input, allowed or not. One that is not may be
\* of a kind that Puck does not write to its history.
VendorAction(d) ==
    LET foreign == <<bridge.document, d>> \notin Approved \/ bridge.readonly
    IN  /\ Settled
        /\ d # puck.data
        /\ Len(puck.histories) < MaxHistory
        /\ \E record \in {d, puck.record} :
             /\ record = d \/ foreign
             /\ Dispatched(d, record, foreign)
        /\ bridge' = ActionTaken(bridge, d)

\* history("back") and history("forward").
History(step) ==
    LET target == puck.histories[step]
    IN  /\ Settled /\ ~bridge.recovery.on /\ ~bridge.readonly
        /\ puck' = [puck EXCEPT !.data = target, !.index = step, !.changed = TRUE,
                                !.foreign = FALSE]
        /\ bridge' = ActionTaken([bridge EXCEPT !.undoTarget = target], target)

Undo == puck.index > 1 /\ History(puck.index - 1)

Redo == puck.index < Len(puck.histories) /\ History(puck.index + 1)

IsApproved(d) == d \in {bridge.undoTarget, bridge.pending, bridge.accepted}

\* onChange(data).
OnChange ==
    /\ puck.changed
    /\ puck' = [puck EXCEPT !.changed = FALSE]
    /\ bridge' = IF bridge.recovery.on \/ puck.data = bridge.document THEN bridge
                 ELSE IF ~bridge.readonly /\ IsApproved(puck.data)
                 THEN Unawaited([bridge EXCEPT !.document = puck.data])
                 ELSE Failing(bridge)

\* Mutated: the repaired state is not to be recorded.
RepairRecord == puck.record

\* The repair is recorded so that the history is seen to change.
RepairedRecord == bridge.document

\* The microtask of fail(): the canonical document goes back into Puck.
Repair ==
    /\ bridge.recovery.on /\ ~bridge.recovery.repaired
    /\ puck' = [puck EXCEPT !.data = bridge.document, !.changed = TRUE,
                            !.record = RepairedRecord, !.foreign = FALSE]
    /\ bridge' = [bridge EXCEPT !.recovery.repaired = TRUE]

Recorded == Append(SubSeq(puck.histories, 1, puck.index), puck.record)

\* Puck writes its history; the observer's sync() then ends a recovery: the
\* saved history comes back, and the document with it.
RecordHistory ==
    /\ puck.record # NoDocument
    /\ IF bridge.recovery.on
       THEN /\ puck' = [puck EXCEPT !.histories = bridge.recovery.saved,
                            !.index = bridge.recovery.index, !.record = NoDocument,
                            !.data = bridge.document, !.changed = TRUE,
                            !.foreign = FALSE]
            /\ bridge' = Unawaited([bridge EXCEPT !.recovery = NotRecovering])
       ELSE /\ puck' = [puck EXCEPT !.histories = Recorded, !.index = Len(Recorded),
                                    !.record = NoDocument]
            /\ UNCHANGED bridge

\* The page becomes readonly, or writable again, for reasons of its own.
ToggleReadonly ==
    /\ ~puck.changed
    /\ bridge' = [bridge EXCEPT !.readonly = ~@]
    /\ UNCHANGED puck

BridgeNext ==
    \/ \E d \in Documents : CommitCommand(d) \/ VendorAction(d)
    \/ Undo \/ Redo
    \/ OnChange \/ Repair \/ RecordHistory
    \/ ToggleReadonly

\* React renders, microtasks run and timers fire.
BridgeFairness == /\ WF_bridgeVars(OnChange)
                  /\ WF_bridgeVars(Repair)
                  /\ WF_bridgeVars(RecordHistory)

BridgeSpec == BridgeInit /\ [][BridgeNext]_bridgeVars /\ BridgeFairness
-----------------------------------------------------------------------------
(* Properties *)

\* Every variable keeps its type.
BridgeTypeOK == puck \in Puck /\ bridge \in Bridge

\* When nothing is outstanding, the canvas shows the document that is saved and
\* published: a refused change leaves no trace in Puck.
CanvasShowsDocument == Quiet => puck.data = bridge.document

\* When nothing is outstanding, the current entry of the history is the
\* document, so that Undo and Redo start from what is on the screen.
HistoryNamesDocument ==
    Quiet => puck.histories[puck.index] = bridge.document

\* A change of Puck's own that the editor does not allow, or that comes while
\* the page is readonly, never becomes the document, in whatever order the
\* callbacks come.
ForeignChangesStayOut ==
    [][bridge'.document # bridge.document => ~puck.foreign]_bridgeVars

\* The editor does not stay "not ready" after it refused a change.
RecoveryEnds == []<>(~bridge.recovery.on)
=============================================================================
