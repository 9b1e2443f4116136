--------------------------- MODULE StructureEditor ---------------------------
(***************************************************************************)
(* The precise (v3) editor of one page: StructureDocumentHost with its     *)
(* StructureEditor, PublicationControls and RevisionRecovery, and the      *)
(* sessions under editor-application/v3 they use, against the server.      *)
(*                                                                         *)
(* Code between two awaits is one action. A request is at the server       *)
(* ("sent") and then on its way back ("answered"); it or its answer may be *)
(* lost. Other administrators write the same page.                         *)
(***************************************************************************)
EXTENDS Naturals, Sequences

CONSTANTS Trees,      \* the documents that can be on the screen
          NoTree,     \* none
          MaxVersion, \* bound on the server's lock version
          MaxEpoch,   \* bound on the changes within one editing session
          MaxTickets  \* bound on the publications prepared

ASSUME StructureEditorAssumption ==
    /\ NoTree \notin Trees
    /\ MaxVersion \in Nat \ {0}
    /\ MaxEpoch \in Nat
    /\ MaxTickets \in Nat

VARIABLES pageServer,  \* the page's row, its artifact and its publication tickets
          structure,   \* the host's resource and the editing session it mounted
          saving,      \* the draft request of the session
          controls,    \* the preview and publication buttons
          recovery     \* the restoring of an old revision

structureVars == <<pageServer, structure, saving, controls, recovery>>
-----------------------------------------------------------------------------
Versions == 0 .. MaxVersion
Epochs == 0 .. MaxEpoch

Ticket == [version : Versions, tree : Trees]

\* "own" is not stored: the last draft was loaded or written by this page.
PageServer == [version : Versions, draft : Trees, live : Trees \cup {NoTree},
               tickets : Seq(Ticket), own : BOOLEAN]

\* session is the resource's lock version (0: no resource yet); token is the
\* CAS token of the editor, latestLock that of the host; hash is the published
\* artifact the host knows; recovering makes the editor readonly.
Structure == [session : Versions, tree : Trees \cup {NoTree}, epoch : Epochs,
              token : Versions, latestLock : Versions, dirty : BOOLEAN,
              hash : Trees \cup {NoTree}, recovering : BOOLEAN]

\* answer 0 is an error: a conflict, a failure or an answer that was lost.
Saving == [at : {"none", "sent", "answered"}, tree : Trees \cup {NoTree},
           epoch : Epochs, expected : Versions, answer : Versions]

\* Of the dialog's request: its step, the epoch it began in, whether it is
\* still wanted (ticket = generation), the ticket asked for, and what the
\* administrator had on the screen when it was confirmed. "prepared" is the
\* dialog, "preview" the link, "used" the tickets that were ever sent.
Controls == [step : {"idle", "saving", "sent", "answered"},
             kind : {"preview", "prepare", "commit"}, epoch : Epochs,
             version : Versions, wanted : BOOLEAN, ok : BOOLEAN,
             ticket : 0 .. MaxTickets, confirmed : Trees \cup {NoTree},
             prepared : 0 .. MaxTickets, preparedAt : Epochs,
             preview : Trees \cup {NoTree}, previewAt : Epochs,
             used : SUBSET (1 .. MaxTickets)]

Recovery == [at : {"none", "listing", "source", "sent", "answered"},
             wanted : BOOLEAN, source : Trees \cup {NoTree},
             expected : Versions, hash : Trees \cup {NoTree},
             answer : Versions, live : Trees \cup {NoTree}]

NoSaving == [at |-> "none", tree |-> NoTree, epoch |-> 0, expected |-> 0, answer |-> 0]

NoControls == [step |-> "idle", kind |-> "preview", epoch |-> 0, version |-> 0,
               wanted |-> TRUE, ok |-> FALSE, ticket |-> 0, confirmed |-> NoTree,
               prepared |-> 0, preparedAt |-> 0, preview |-> NoTree,
               previewAt |-> 0, used |-> {}]

NoRecovery == [at |-> "none", wanted |-> TRUE, source |-> NoTree, expected |-> 0,
               hash |-> NoTree, answer |-> 0, live |-> NoTree]
-----------------------------------------------------------------------------
TreeLoaded == structure.session # 0

\* context().readonly of the mounted editor.
Readonly == ~TreeLoaded \/ structure.recovering

Publishing == controls.step # "idle"

\* PublicationControls is disabled.
Disabled == Readonly \/ saving.at # "none"

\* Mutated: the edit epoch is not compared.
CurrentInSession(epoch) == ~Readonly

\* current(context): the session is the one mounted (a request of an older one
\* is dropped with its component), it is writable, and its epoch has not moved.
Current(epoch) == ~Readonly /\ epoch = structure.epoch

\* session.cancel(): a request in flight is no longer wanted, nothing is prepared.
Cancelled(c) == [c EXCEPT !.wanted = (c.step = "idle"), !.prepared = 0]

\* Mutated: the dialog stays open over a changed document.
DialogKept(c, epoch, readonly) == c

\* The effect that follows a change: a dialog that can no longer commit is
\* cancelled, a link to another epoch is dropped.
AfterChange(c, epoch, readonly) ==
    LET d == IF c.prepared # 0 /\ (readonly \/ c.preparedAt # epoch)
             THEN Cancelled(c) ELSE c
    IN  IF d.previewAt # epoch THEN [d EXCEPT !.preview = NoTree] ELSE d

Finished(c) == [c EXCEPT !.step = "idle", !.wanted = TRUE, !.ok = FALSE,
                         !.ticket = 0, !.confirmed = NoTree, !.version = 0]
-----------------------------------------------------------------------------
StructureInit ==
    /\ \E t \in Trees : pageServer = [version |-> 1, draft |-> t, live |-> NoTree,
                                      tickets |-> << >>, own |-> TRUE]
    /\ structure = [session |-> 0, tree |-> NoTree, epoch |-> 0, token |-> 0,
                    latestLock |-> 0, dirty |-> FALSE, hash |-> NoTree,
                    recovering |-> FALSE]
    /\ saving = NoSaving
    /\ controls = NoControls
    /\ recovery = NoRecovery

\* A resource replaces the one on the screen: the editor mounts anew, with its
\* own history, and the requests of the one before are nobody's.
SessionMounted(version, tree, hash) ==
    /\ structure' = [session |-> version, tree |-> tree, epoch |-> 0,
                     token |-> version, latestLock |-> version, dirty |-> FALSE,
                     hash |-> hash, recovering |-> FALSE]
    /\ saving' = NoSaving
    /\ controls' = [NoControls EXCEPT !.used = controls.used]

LoadPage ==
    /\ ~TreeLoaded
    /\ SessionMounted(pageServer.version, pageServer.draft, pageServer.live)
    /\ pageServer' = [pageServer EXCEPT !.own = TRUE]
    /\ UNCHANGED recovery

\* Any accepted change: a command, an edit on the canvas, Undo or Redo, the
\* insertion of a medium that was uploaded meanwhile.
ChangeTree(t) ==
    /\ ~Readonly
    /\ t # structure.tree
    /\ structure.epoch < MaxEpoch
    /\ structure' = [structure EXCEPT !.tree = t, !.epoch = @ + 1, !.dirty = TRUE]
    /\ controls' = AfterChange(controls, structure.epoch + 1, FALSE)
    /\ UNCHANGED <<pageServer, saving, recovery>>
-----------------------------------------------------------------------------
(* Saving *)

\* bridge.save() copies the document and its epoch before it waits.
Submitted == [at |-> "sent", tree |-> structure.tree, epoch |-> structure.epoch,
              expected |-> structure.token, answer |-> 0]

SaveButtonV3 ==
    /\ ~Readonly /\ saving.at = "none" /\ ~Publishing
    /\ saving' = Submitted
    /\ UNCHANGED <<pageServer, structure, controls, recovery>>

\* Mutated: the lock version is not compared.
AcceptsAny(expected) == pageServer.version < MaxVersion

\* assertLockVersion of the transaction that writes the row.
Accepts(expected) == /\ expected = pageServer.version
                     /\ pageServer.version < MaxVersion

Written(tree) == [pageServer EXCEPT !.version = @ + 1, !.draft = tree, !.own = TRUE]

HandleSave ==
    /\ saving.at = "sent"
    /\ \/ /\ Accepts(saving.expected)
          /\ pageServer' = Written(saving.tree)
          /\ \E lost \in BOOLEAN :
               saving' = [saving EXCEPT !.at = "answered",
                             !.answer = IF lost THEN 0 ELSE pageServer'.version]
       \/ /\ saving' = [saving EXCEPT !.at = "answered"]
          /\ UNCHANGED pageServer
    /\ UNCHANGED <<structure, controls, recovery>>

\* Mutated: a save that was answered is a save of what is on the screen.
SavedStatusAlways == "saved"

\* A save may be older than the current input.
SavedStatus == IF structure.epoch = saving.epoch THEN "saved" ELSE "edited"

\* The publication that waited for the save goes on only when nothing moved.
ContinueWith(version) ==
    controls' = IF controls.step # "saving" THEN controls
                ELSE IF version # 0 /\ controls.wanted /\ Current(controls.epoch)
                     THEN [controls EXCEPT !.step = "sent", !.version = version]
                     ELSE Finished(controls)

\* The response never replaces the document; when the editor has become
\* readonly it is "stale" and not even its version is taken.
SaveAnsweredV3 ==
    /\ saving.at = "answered"
    /\ saving' = NoSaving
    /\ IF saving.answer = 0 \/ Readonly
       THEN UNCHANGED structure /\ ContinueWith(0)
       ELSE /\ structure' = [structure EXCEPT !.token = saving.answer,
                                !.latestLock = saving.answer,
                                !.dirty = (SavedStatus # "saved")]
            /\ ContinueWith(IF SavedStatus = "saved" THEN saving.answer ELSE 0)
    /\ UNCHANGED <<pageServer, recovery>>
-----------------------------------------------------------------------------
(* Preview and publication *)

\* run("preview") and run("prepare"): the session drops what was prepared and
\* saves first.
RunWithSave(kind) ==
    /\ ~Publishing /\ ~Disabled
    /\ saving' = Submitted
    /\ controls' = [controls EXCEPT !.step = "saving", !.kind = kind,
                       !.epoch = structure.epoch, !.wanted = TRUE, !.prepared = 0,
                       !.preview = IF kind = "preview" THEN NoTree ELSE @]
    /\ UNCHANGED <<pageServer, structure, recovery>>

\* Mutated: what was prepared stays so after its token was sent.
SpentNever(c) == c

\* A failed response is no permission to send the token again.
Spent(c) == [c EXCEPT !.prepared = 0]

\* "Publish this version": the document must still be the one prepared.
RunCommit ==
    /\ ~Publishing /\ ~Disabled
    /\ controls.prepared # 0 /\ Current(controls.preparedAt)
    /\ controls' = Spent([controls EXCEPT !.step = "sent", !.kind = "commit",
                             !.epoch = structure.epoch, !.wanted = TRUE,
                             !.ticket = controls.prepared,
                             !.confirmed = structure.tree,
                             !.used = @ \cup {controls.prepared}])
    /\ UNCHANGED <<pageServer, structure, saving, recovery>>

CancelDialog ==
    /\ controls.prepared # 0 /\ ~Publishing
    /\ controls' = Cancelled(controls)
    /\ UNCHANGED <<pageServer, structure, saving, recovery>>

Answer(c, ok) == [c EXCEPT !.step = "answered", !.ok = ok]

\* createPreview: of the draft, when its version is still the one given.
HandlePreview ==
    /\ controls.step = "sent" /\ controls.kind = "preview"
    /\ \E ok \in BOOLEAN :
         /\ ok => controls.version = pageServer.version
         /\ controls' = Answer([controls EXCEPT !.confirmed =
                                   IF ok THEN pageServer.draft ELSE NoTree], ok)
    /\ UNCHANGED <<pageServer, structure, saving, recovery>>

HandlePrepare ==
    /\ controls.step = "sent" /\ controls.kind = "prepare"
    /\ \/ /\ controls.version = pageServer.version
          /\ Len(pageServer.tickets) < MaxTickets
          /\ pageServer' = [pageServer EXCEPT !.tickets =
                Append(@, [version |-> pageServer.version, tree |-> pageServer.draft])]
          /\ controls' = Answer([controls EXCEPT !.ticket = Len(pageServer'.tickets)], TRUE)
       \/ controls' = Answer(controls, FALSE) /\ UNCHANGED pageServer
    /\ UNCHANGED <<structure, saving, recovery>>

\* commitPublication: the page must be as it was when the ticket was made.
HandleCommit ==
    /\ controls.step = "sent" /\ controls.kind = "commit"
    /\ \/ /\ pageServer.tickets[controls.ticket].version = pageServer.version
          /\ pageServer' = [pageServer EXCEPT !.live =
                               pageServer.tickets[controls.ticket].tree]
          /\ \E ok \in BOOLEAN : controls' = Answer(controls, ok)
       \/ controls' = Answer(controls, FALSE) /\ UNCHANGED pageServer
    /\ UNCHANGED <<structure, saving, recovery>>

PreviewAnsweredV3 ==
    /\ controls.step = "answered" /\ controls.kind = "preview"
    /\ controls' = Finished(
          IF controls.ok /\ controls.wanted /\ Current(controls.epoch)
          THEN [controls EXCEPT !.preview = controls.confirmed,
                                !.previewAt = structure.epoch]
          ELSE controls)
    /\ UNCHANGED <<pageServer, structure, saving, recovery>>

PrepareAnswered ==
    /\ controls.step = "answered" /\ controls.kind = "prepare"
    /\ controls' = Finished(
          IF controls.ok /\ controls.wanted /\ Current(controls.epoch)
          THEN [controls EXCEPT !.prepared = controls.ticket,
                                !.preparedAt = structure.epoch]
          ELSE controls)
    /\ UNCHANGED <<pageServer, structure, saving, recovery>>

\* Edits made while the commit was in flight are reported, not refused; but an
\* editor that has become readonly takes the answer for a failure.
CommitAnswered ==
    /\ controls.step = "answered" /\ controls.kind = "commit"
    /\ structure' = IF controls.ok /\ controls.wanted /\ ~Readonly
                    THEN [structure EXCEPT !.hash =
                             pageServer.tickets[controls.ticket].tree]
                    ELSE structure
    /\ controls' = Finished(controls)
    /\ UNCHANGED <<pageServer, saving, recovery>>
-----------------------------------------------------------------------------
(* Restoring a revision *)

\* Mutated: the list is fetched again while a revision is being restored.
MayListAlways == recovery.at # "answered"

\* pending disables both buttons.
MayList == recovery.at = "none"

\* Every listing takes a new number; what has an older one is not wanted.
ListRevisions ==
    /\ TreeLoaded /\ MayList
    /\ recovery' = IF recovery.at = "none"
                   THEN [recovery EXCEPT !.at = "listing"]
                   ELSE [recovery EXCEPT !.wanted = FALSE]
    /\ UNCHANGED <<pageServer, structure, saving, controls>>

ListAnswered ==
    /\ recovery.at = "listing"
    /\ recovery' = NoRecovery
    /\ UNCHANGED <<pageServer, structure, saving, controls>>

MayRestore == TreeLoaded /\ recovery.at = "none" /\ ~structure.dirty

\* The revision is chosen and confirmed; the editor becomes readonly, which
\* also closes the publication dialog.
RestoreRevision(source) ==
    /\ MayRestore
    /\ recovery' = [NoRecovery EXCEPT !.at = "source", !.source = source,
                       !.expected = structure.latestLock, !.hash = structure.hash]
    /\ structure' = [structure EXCEPT !.recovering = TRUE]
    /\ controls' = AfterChange(controls, structure.epoch, TRUE)
    /\ UNCHANGED <<pageServer, saving>>

\* The outcome ends the restoring only for the request that is wanted.
RecoveryEnded ==
    /\ recovery' = NoRecovery
    /\ structure' = [structure EXCEPT !.recovering = ~recovery.wanted /\ @]

\* same(context, read()): nothing moved under the request.
SameContext == /\ ~structure.dirty
               /\ structure.latestLock = recovery.expected
               /\ structure.hash = recovery.hash

SourceRead ==
    /\ recovery.at = "source"
    /\ \/ /\ SameContext
          /\ recovery' = [recovery EXCEPT !.at = "sent"]
          /\ UNCHANGED structure
       \/ RecoveryEnded
    /\ UNCHANGED <<pageServer, saving, controls>>

HandleRestore ==
    /\ recovery.at = "sent"
    /\ \/ /\ Accepts(recovery.expected)
          /\ pageServer' = Written(recovery.source)
          /\ \E lost \in BOOLEAN :
               recovery' = [recovery EXCEPT !.at = "answered",
                               !.answer = IF lost THEN 0 ELSE pageServer'.version,
                               !.live = pageServer.live]
       \/ recovery' = [recovery EXCEPT !.at = "answered"] /\ UNCHANGED pageServer
    /\ UNCHANGED <<structure, saving, controls>>

\* The response must leave the published page as this page knew it.
RestoreAnswered ==
    /\ recovery.at = "answered"
    /\ IF /\ recovery.answer # 0 /\ recovery.live = recovery.hash
          /\ SameContext /\ recovery.wanted
       THEN /\ SessionMounted(recovery.answer, recovery.source, recovery.hash)
            /\ recovery' = NoRecovery
       ELSE RecoveryEnded /\ UNCHANGED <<saving, controls>>
    /\ UNCHANGED pageServer
-----------------------------------------------------------------------------
(* Another administrator *)

OtherSaves(t) ==
    /\ pageServer.version < MaxVersion
    /\ pageServer' = [pageServer EXCEPT !.version = @ + 1, !.draft = t, !.own = FALSE]
    /\ UNCHANGED <<structure, saving, controls, recovery>>

OtherPublishes ==
    /\ pageServer.live # pageServer.draft
    /\ pageServer' = [pageServer EXCEPT !.live = pageServer.draft]
    /\ UNCHANGED <<structure, saving, controls, recovery>>
-----------------------------------------------------------------------------
StructureHandlers == \/ HandleSave \/ HandlePreview \/ HandlePrepare
                     \/ HandleCommit \/ HandleRestore

StructureAnswers == \/ SaveAnsweredV3 \/ PreviewAnsweredV3 \/ PrepareAnswered
                    \/ CommitAnswered \/ ListAnswered \/ SourceRead
                    \/ RestoreAnswered

StructureNext ==
    \/ LoadPage
    \/ \E t \in Trees : ChangeTree(t) \/ RestoreRevision(t) \/ OtherSaves(t)
    \/ SaveButtonV3 \/ RunWithSave("preview") \/ RunWithSave("prepare")
    \/ RunCommit \/ CancelDialog \/ ListRevisions
    \/ StructureHandlers \/ StructureAnswers
    \/ OtherPublishes

\* The browser's requests are answered or fail, and their promises settle.
StructureFairness ==
    /\ WF_structureVars(HandleSave) /\ WF_structureVars(SaveAnsweredV3)
    /\ WF_structureVars(HandlePreview) /\ WF_structureVars(HandlePrepare)
    /\ WF_structureVars(HandleCommit) /\ WF_structureVars(HandleRestore)
    /\ WF_structureVars(PreviewAnsweredV3) /\ WF_structureVars(PrepareAnswered)
    /\ WF_structureVars(CommitAnswered) /\ WF_structureVars(ListAnswered)
    /\ WF_structureVars(SourceRead) /\ WF_structureVars(RestoreAnswered)

StructureSpec == StructureInit /\ [][StructureNext]_structureVars

StructureFairSpec == StructureSpec /\ StructureFairness
-----------------------------------------------------------------------------
(* Properties *)

\* Every variable keeps its type.
StructureTypeOK == /\ pageServer \in PageServer
                   /\ structure \in Structure
                   /\ saving \in Saving
                   /\ controls \in Controls
                   /\ recovery \in Recovery

\* "초안 저장됨" is true: while the server is at the version the host knows, the
\* document on the screen that is not marked as changed is the draft
\* (StructureDocumentHost onChange, onSaved; StructureSession.save).
CleanMeansStored ==
    TreeLoaded /\ ~structure.dirty /\ structure.latestLock = pageServer.version
        => structure.tree = pageServer.draft

\* What this page writes replaces only a draft that it loaded or wrote itself;
\* a save or a restoring never takes the work of another administrator away.
NeverOverwritesAnother ==
    [][pageServer'.version # pageServer.version /\ pageServer'.own
           => pageServer.own]_structureVars

\* What a commit of this page makes public is what was on the screen when the
\* administrator confirmed it, through the save, the ticket and the dialog.
PublishesTheConfirmed ==
    [][pageServer'.live # pageServer.live /\ controls'.step # controls.step
           => pageServer'.live = controls.confirmed]_structureVars

\* A publication token is sent at most once, whatever became of its answer.
TokenSentOnce ==
    [][controls.step = "idle" /\ controls'.step = "sent" /\ controls'.kind = "commit"
           => controls'.ticket \notin controls.used]_structureVars

\* While the dialog asks or the preview link shows, they are of the document on
\* the screen.
OffersTheScreen ==
    /\ controls.prepared # 0
           => pageServer.tickets[controls.prepared].tree = structure.tree
    /\ controls.preview # NoTree => controls.preview = structure.tree

\* The editor does not stay readonly, and the buttons do not stay disabled: a
\* restoring, a save and a publication all come to their end.
RequestsSettle == /\ []<>(~structure.recovering)
                  /\ []<>(saving.at = "none")
                  /\ []<>(~Publishing)
=============================================================================
