------------------------ MODULE EditorScreensProofs ------------------------
(***************************************************************************)
(* The screens of MCEditorScreens keep what their components promise. Each *)
(* component has an invariant that its steps keep (first the lemmas about  *)
(* its helpers, then one for each handler) and, for a property of a step,  *)
(* a lemma that a step from such a state has it; the last section puts     *)
(* them together, since a step of the editor is a step of one screen.      *)
(***************************************************************************)
EXTENDS MCEditorScreens, DraftEditorProofs, SequenceTheorems
-----------------------------------------------------------------------------
(***************************************************************************)
(* The structure editor. Versions tie the page to the server: who knows    *)
(* the newest version knows its draft, whoever wrote it. A ticket, a link  *)
(* and the dialog are tied to the epoch of the document that they were     *)
(* asked for.                                                              *)
(***************************************************************************)

IsTicket(n) == n \in 1 .. Len(pageServer.tickets)

\* A ticket is of the draft of its version.
TicketsStand ==
    /\ pageServer.version # 0
    /\ Len(pageServer.tickets) <= MaxTickets
    /\ \A n \in 1 .. Len(pageServer.tickets) :
          /\ pageServer.tickets[n].version <= pageServer.version
          /\ pageServer.tickets[n].version = pageServer.version
                => pageServer.tickets[n].tree = pageServer.draft

\* What a version that this page knows is worth: if it is the newest, the draft is its own.
KnownVersion(version, tree) ==
    /\ version <= pageServer.version
    /\ version = pageServer.version => pageServer.own /\ pageServer.draft = tree

\* The host and the editor know the same version, and what is not dirty is stored.
HostStands ==
    /\ structure.session = 0 => ~structure.recovering
    /\ structure.session # 0 =>
          /\ structure.tree \in Trees /\ structure.token = structure.latestLock
          /\ structure.token <= pageServer.version
          /\ structure.token = pageServer.version => pageServer.own
          /\ ~structure.dirty => KnownVersion(structure.token, structure.tree)

\* A save has the version of the editor, and the document unless it changed since.
SaveStands ==
    saving.at # "none" =>
        /\ structure.session # 0 /\ saving.tree \in Trees
        /\ saving.expected = structure.token /\ saving.epoch <= structure.epoch
        /\ saving.epoch = structure.epoch => saving.tree = structure.tree
        /\ saving.at = "sent" => saving.answer = 0
        /\ saving.at = "answered" /\ saving.answer # 0 =>
              KnownVersion(saving.answer, saving.tree)

\* A restoring keeps the editor readonly at the version that it began with.
RestoreStands ==
    /\ recovery.wanted
    /\ structure.recovering <=> recovery.at \in {"source", "sent", "answered"}
    /\ structure.recovering =>
          recovery.expected = structure.latestLock /\ recovery.source \in Trees
    /\ recovery.at \in {"source", "sent"} => recovery.answer = 0
    /\ recovery.at = "answered" /\ recovery.answer # 0 =>
          KnownVersion(recovery.answer, recovery.source)

\* A request of the buttons is of the document that it began with, unless the
\* document changed since.
ButtonsStand ==
    /\ controls.step # "idle" => /\ controls.prepared = 0
                                 /\ controls.epoch <= structure.epoch
    /\ controls.step = "saving" =>
          saving.at # "none" /\ saving.epoch = controls.epoch /\ controls.kind # "commit"
    /\ controls.step = "sent" /\ controls.kind # "commit" =>
          /\ controls.version <= pageServer.version
          /\ controls.epoch = structure.epoch /\ controls.version = pageServer.version
                => pageServer.draft = structure.tree
    /\ controls.step = "answered" /\ controls.ok /\ controls.kind = "preview"
          /\ controls.epoch = structure.epoch => controls.confirmed = structure.tree
    /\ controls.step = "answered" /\ controls.ok /\ controls.kind = "prepare" =>
          /\ IsTicket(controls.ticket) /\ controls.ticket \notin controls.used
          /\ controls.epoch = structure.epoch
                => pageServer.tickets[controls.ticket].tree = structure.tree
    /\ controls.step \in {"sent", "answered"} /\ controls.kind = "commit" =>
          /\ IsTicket(controls.ticket)
          /\ pageServer.tickets[controls.ticket].tree = controls.confirmed

\* The dialog and the link are of the document on the screen.
DialogStands ==
    /\ controls.used \subseteq 1 .. Len(pageServer.tickets)
    /\ controls.prepared # 0 =>
          /\ IsTicket(controls.prepared) /\ controls.prepared \notin controls.used
          /\ controls.preparedAt = structure.epoch
          /\ pageServer.tickets[controls.prepared].tree = structure.tree
    /\ controls.preview # NoTree =>
          controls.previewAt = structure.epoch /\ controls.preview = structure.tree

StructureInv == /\ StructureTypeOK /\ TicketsStand /\ HostStands /\ SaveStands
                /\ RestoreStands /\ ButtonsStand /\ DialogStands
-----------------------------------------------------------------------------
\* The variables have their types, and so have their parts.
LEMMA StructureTypes ==
  ASSUME StructureTypeOK
  PROVE  /\ pageServer \in PageServer /\ structure \in Structure /\ saving \in Saving
         /\ controls \in Controls /\ recovery \in Recovery
         /\ Versions \subseteq Nat /\ Epochs \subseteq Nat
         /\ 0 \in Versions /\ 0 \in Epochs /\ 0 \in 0 .. MaxTickets /\ NoTree \notin Trees
         /\ pageServer.version \in Nat /\ pageServer.draft \in Trees
         /\ pageServer.tickets \in Seq(Ticket) /\ Len(pageServer.tickets) \in Nat
         /\ \A n \in 1 .. Len(pageServer.tickets) :
               pageServer.tickets[n] \in Ticket /\ pageServer.tickets[n].version \in Nat
         /\ structure.token \in Nat /\ structure.latestLock \in Nat /\ structure.epoch \in Nat
         /\ saving.epoch \in Nat /\ saving.answer \in Nat
         /\ controls.epoch \in Nat /\ controls.version \in Nat
         /\ recovery.answer \in Nat
<1>1. /\ Versions \subseteq Nat /\ Epochs \subseteq Nat /\ 0 \in Versions /\ 0 \in Epochs
      /\ 0 \in 0 .. MaxTickets /\ NoTree \notin Trees
  BY StructureEditorAssumption DEF Versions, Epochs
<1>2. /\ pageServer \in PageServer /\ structure \in Structure /\ saving \in Saving
      /\ controls \in Controls /\ recovery \in Recovery
  BY DEF StructureTypeOK
<1>3. /\ pageServer.version \in Nat /\ pageServer.draft \in Trees
      /\ pageServer.tickets \in Seq(Ticket)
  BY <1>1, <1>2 DEF PageServer
<1>4. Len(pageServer.tickets) \in Nat
  BY <1>3, LenProperties
<1>5. ASSUME NEW n \in 1 .. Len(pageServer.tickets)
      PROVE  pageServer.tickets[n] \in Ticket /\ pageServer.tickets[n].version \in Nat
  <2>1. pageServer.tickets[n] \in Ticket
    BY <1>3, ElementOfSeq
  <2> QED
    BY <1>1, <2>1 DEF Ticket
<1>6. /\ structure.token \in Nat /\ structure.latestLock \in Nat /\ structure.epoch \in Nat
      /\ saving.epoch \in Nat /\ saving.answer \in Nat
  BY <1>1, <1>2 DEF Structure, Saving
<1>7. /\ controls.epoch \in Nat /\ controls.version \in Nat /\ recovery.answer \in Nat
  BY <1>1, <1>2 DEF Controls, Recovery
<1> QED
  BY <1>1, <1>2, <1>3, <1>4, <1>5, <1>6, <1>7

\* The dialog and the link after a change.
LEMMA ChangeClosesDialog ==
  ASSUME NEW c \in Controls, NEW epoch \in Epochs, NEW readonly \in BOOLEAN, NoTree \notin Trees
  PROVE  LET n == AfterChange(c, epoch, readonly)
         IN  /\ n \in Controls
             /\ n.step = c.step /\ n.kind = c.kind /\ n.epoch = c.epoch
             /\ n.version = c.version /\ n.ok = c.ok /\ n.ticket = c.ticket
             /\ n.confirmed = c.confirmed /\ n.used = c.used
             /\ n.preparedAt = c.preparedAt /\ n.previewAt = c.previewAt
             /\ n.prepared \in {0, c.prepared} /\ n.preview \in {NoTree, c.preview}
             /\ n.prepared # 0 => n.preparedAt = epoch
             /\ n.preview # NoTree => n.previewAt = epoch
<1> DEFINE idle == c.step = "idle"
           cancelled == [c EXCEPT !.wanted = idle, !.prepared = 0]
           d == IF c.prepared # 0 /\ (readonly \/ c.preparedAt # epoch) THEN cancelled ELSE c
           n == AfterChange(c, epoch, readonly)
<1>1. idle \in BOOLEAN /\ 0 \in 0 .. MaxTickets
  BY StructureEditorAssumption
<1>2. Cancelled(c) = cancelled
  BY DEF Cancelled
<1>3. n = IF d.previewAt # epoch THEN [d EXCEPT !.preview = NoTree] ELSE d
  BY <1>2 DEF AfterChange
<1> HIDE DEF idle, n
<1>4. /\ cancelled \in Controls /\ cancelled.prepared = 0
      /\ cancelled.step = c.step /\ cancelled.kind = c.kind /\ cancelled.epoch = c.epoch
      /\ cancelled.version = c.version /\ cancelled.ok = c.ok /\ cancelled.ticket = c.ticket
      /\ cancelled.confirmed = c.confirmed /\ cancelled.used = c.used
      /\ cancelled.preparedAt = c.preparedAt /\ cancelled.previewAt = c.previewAt
      /\ cancelled.preview = c.preview
  BY <1>1 DEF Controls
<1> HIDE DEF cancelled
<1>5. /\ d \in Controls /\ d.prepared \in {0, c.prepared}
      /\ d.prepared # 0 => d.preparedAt = epoch
      /\ d.step = c.step /\ d.kind = c.kind /\ d.epoch = c.epoch
      /\ d.version = c.version /\ d.ok = c.ok /\ d.ticket = c.ticket
      /\ d.confirmed = c.confirmed /\ d.used = c.used
      /\ d.preparedAt = c.preparedAt /\ d.previewAt = c.previewAt
      /\ d.preview = c.preview
  BY <1>4
<1> HIDE DEF d
<1>6. CASE d.previewAt # epoch
  BY <1>3, <1>5, <1>6 DEF Controls, n
<1>7. CASE d.previewAt = epoch
  BY <1>3, <1>5, <1>7 DEF n
<1> QED
  BY <1>6, <1>7

\* What a request that is over leaves.
LEMMA FinishedIsIdle ==
  ASSUME NEW c \in Controls
  PROVE  LET n == Finished(c)
         IN  /\ n \in Controls /\ n.step = "idle" /\ n.used = c.used
             /\ n.prepared = c.prepared /\ n.preparedAt = c.preparedAt
             /\ n.preview = c.preview /\ n.previewAt = c.previewAt
<1>1. 0 \in Versions /\ 0 \in 0 .. MaxTickets
  BY StructureEditorAssumption DEF Versions
<1>2. Finished(c) = [c EXCEPT !.step = "idle", !.wanted = TRUE, !.ok = FALSE,
                         !.ticket = 0, !.confirmed = NoTree, !.version = 0]
  BY DEF Finished
<1> DEFINE n == Finished(c)
<1> HIDE DEF n
<1>3. n = [c EXCEPT !.step = "idle", !.wanted = TRUE, !.ok = FALSE,
                         !.ticket = 0, !.confirmed = NoTree, !.version = 0]
  BY <1>2 DEF n
<1>4. /\ n \in Controls /\ n.step = "idle" /\ n.used = c.used
      /\ n.prepared = c.prepared /\ n.preparedAt = c.preparedAt
      /\ n.preview = c.preview /\ n.previewAt = c.previewAt
  BY <1>1, <1>3 DEF Controls
<1> QED
  BY <1>4 DEF n

\* Nothing is loaded and nobody asks.
LEMMA StructureStarts == StructureInit => StructureInv
<1> SUFFICES ASSUME StructureInit PROVE StructureInv
  OBVIOUS
<1>1. /\ 0 \in Versions /\ 1 \in Versions /\ 0 \in Epochs /\ 0 \in 0 .. MaxTickets
      /\ MaxTickets \in Nat
  BY StructureEditorAssumption DEF Versions, Epochs
<1>2. PICK t \in Trees : pageServer = [version |-> 1, draft |-> t, live |-> NoTree,
                                       tickets |-> << >>, own |-> TRUE]
  BY DEF StructureInit
<1>3. << >> \in Seq(Ticket) /\ Len(<< >>) = 0
  BY EmptySeq
<1>4. pageServer \in PageServer /\ Len(pageServer.tickets) = 0 /\ pageServer.version = 1
  BY <1>1, <1>2, <1>3 DEF PageServer
<1>5. structure \in Structure /\ structure.session = 0 /\ ~structure.recovering
  BY <1>1 DEF StructureInit, Structure
<1>6. saving \in Saving /\ saving.at = "none"
  BY <1>1 DEF StructureInit, Saving, NoSaving
<1>7. /\ controls \in Controls /\ controls.step = "idle" /\ controls.prepared = 0
      /\ controls.preview = NoTree /\ controls.used = {}
  BY <1>1 DEF StructureInit, Controls, NoControls
<1>8. recovery \in Recovery /\ recovery.at = "none" /\ recovery.wanted
  BY <1>1 DEF StructureInit, Recovery, NoRecovery
<1>9. StructureTypeOK
  BY <1>4, <1>5, <1>6, <1>7, <1>8 DEF StructureTypeOK
<1>10. TicketsStand
  BY <1>1, <1>4 DEF TicketsStand
<1> QED
  BY <1>5, <1>6, <1>7, <1>8, <1>9, <1>10 DEF StructureInv, HostStands, SaveStands, RestoreStands,
     ButtonsStand, DialogStands
-----------------------------------------------------------------------------
(* The steps *)

\* What was known of a version that is no longer the newest stays true.
LEMMA KnownStays ==
  ASSUME StructureTypeOK, NEW version \in Nat, NEW tree, KnownVersion(version, tree),
         pageServer'.version = pageServer.version + 1
  PROVE  /\ version <= pageServer'.version /\ version # pageServer'.version
         /\ KnownVersion(version, tree)'
BY StructureTypes DEF KnownVersion

\* Another draft is written, by whomever.
LEMMA ServerMovesOn ==
  ASSUME StructureInv, pageServer' \in PageServer,
         pageServer'.version = pageServer.version + 1,
         pageServer'.tickets = pageServer.tickets, UNCHANGED <<structure, controls>>,
         saving.at # "none" => saving'.at # "none", saving'.epoch = saving.epoch
  PROVE  TicketsStand' /\ HostStands' /\ ButtonsStand' /\ DialogStands'
<1>1. StructureTypeOK
  BY DEF StructureInv
<1>2. TicketsStand'
  BY <1>1, StructureTypes DEF StructureInv, TicketsStand
<1>3. HostStands'
  BY <1>1, StructureTypes, KnownStays DEF StructureInv, HostStands, KnownVersion
<1>4. ButtonsStand'
  BY <1>1, StructureTypes DEF StructureInv, ButtonsStand, IsTicket
<1>5. DialogStands'
  BY DEF StructureInv, DialogStands, IsTicket
<1> QED
  BY <1>2, <1>3, <1>4, <1>5

\* What a write that the server accepts makes of the page.
LEMMA DraftOfPageIsWritten ==
  ASSUME StructureInv, NEW tree \in Trees, NEW expected, Accepts(expected),
         pageServer' = Written(tree)
  PROVE  /\ pageServer' \in PageServer /\ pageServer'.version = pageServer.version + 1
         /\ pageServer'.tickets = pageServer.tickets /\ pageServer'.draft = tree
         /\ pageServer'.own /\ expected = pageServer.version
         /\ pageServer'.live = pageServer.live
<1>1. /\ pageServer \in PageServer /\ pageServer.version < MaxVersion
      /\ pageServer.version \in Nat /\ expected = pageServer.version
  BY StructureTypes DEF StructureInv, Accepts
<1>2. pageServer.version + 1 \in Versions
  BY <1>1, StructureEditorAssumption DEF Versions
<1>3. pageServer' = [pageServer EXCEPT !.version = pageServer.version + 1, !.draft = tree,
                                       !.own = TRUE]
  BY <1>1 DEF Written, PageServer
<1> QED
  BY <1>1, <1>2, <1>3 DEF PageServer

\* Another administrator saves the page.
LEMMA OtherKeepsPage ==
  ASSUME StructureInv, NEW t \in Trees, OtherSaves(t)
  PROVE  StructureInv'
<1>1. /\ StructureTypeOK /\ UNCHANGED <<structure, saving, controls, recovery>>
      /\ pageServer.version < MaxVersion
  BY DEF StructureInv, OtherSaves
<1>2. pageServer.version + 1 \in Versions
  BY <1>1, StructureTypes, StructureEditorAssumption DEF Versions
<1>3. pageServer' = [pageServer EXCEPT !.version = pageServer.version + 1, !.draft = t,
                                       !.own = FALSE]
  BY <1>1, StructureTypes DEF OtherSaves, PageServer
<1>4. /\ pageServer' \in PageServer /\ pageServer'.version = pageServer.version + 1
      /\ pageServer'.tickets = pageServer.tickets
  BY <1>1, <1>2, <1>3, StructureTypes DEF PageServer
<1>5. TicketsStand' /\ HostStands' /\ ButtonsStand' /\ DialogStands'
  BY <1>1, <1>4, ServerMovesOn
<1>6. SaveStands'
  BY <1>1, <1>4, StructureTypes, KnownStays DEF StructureInv, SaveStands, KnownVersion
<1>7. RestoreStands'
  BY <1>1, <1>4, StructureTypes, KnownStays DEF StructureInv, RestoreStands, KnownVersion
<1> QED
  BY <1>1, <1>4, <1>5, <1>6, <1>7 DEF StructureInv, StructureTypeOK

\* The published page is no part of what the editor rests on.
LEMMA PublishingKeepsPage ==
  ASSUME StructureInv, UNCHANGED <<structure, saving, recovery>>,
         NEW live \in Trees \cup {NoTree}, pageServer' = [pageServer EXCEPT !.live = live],
         controls' \in Controls, ButtonsStand', DialogStands'
  PROVE  StructureInv'
<1>1. /\ pageServer' \in PageServer /\ pageServer'.version = pageServer.version
      /\ pageServer'.tickets = pageServer.tickets /\ pageServer'.draft = pageServer.draft
      /\ pageServer'.own = pageServer.own /\ StructureTypeOK
  BY StructureTypes DEF PageServer, StructureInv
<1>2. TicketsStand' /\ HostStands' /\ SaveStands' /\ RestoreStands'
  BY <1>1 DEF StructureInv, TicketsStand, HostStands, SaveStands, RestoreStands, KnownVersion
<1> QED
  BY <1>1, <1>2 DEF StructureInv, StructureTypeOK

\* Another administrator publishes the page.
LEMMA OtherPublishesKeeps == ASSUME StructureInv, OtherPublishes PROVE StructureInv'
BY StructureTypes, PublishingKeepsPage DEF StructureInv, OtherPublishes, PageServer, ButtonsStand,
   DialogStands, IsTicket

\* The buttons move and nothing else does.
LEMMA ButtonsMove ==
  ASSUME StructureInv, UNCHANGED <<pageServer, structure, saving, recovery>>,
         controls' \in Controls, ButtonsStand', DialogStands'
  PROVE  StructureInv'
BY DEF StructureInv, StructureTypeOK, TicketsStand, HostStands, SaveStands, RestoreStands,
   KnownVersion

\* A resource replaces the one on the screen, and its editor begins anew.
LEMMA MountKeeps ==
  ASSUME StructureInv, NEW version \in Versions \ {0}, NEW tree \in Trees,
         NEW hash \in Trees \cup {NoTree}, SessionMounted(version, tree, hash),
         pageServer' \in PageServer, pageServer'.version = pageServer.version,
         pageServer'.draft = pageServer.draft, pageServer'.tickets = pageServer.tickets,
         KnownVersion(version, tree)', recovery' \in Recovery,
         recovery'.at \in {"none", "listing"}, recovery'.wanted
  PROVE  StructureInv'
<1>1. StructureTypeOK /\ 0 \in Epochs /\ 0 \in Versions /\ 0 \in 0 .. MaxTickets
  BY StructureTypes DEF StructureInv
<1>2. /\ structure' \in Structure /\ structure'.session = version /\ structure'.tree = tree
      /\ structure'.token = version /\ structure'.latestLock = version
      /\ ~structure'.dirty /\ ~structure'.recovering
  BY <1>1 DEF SessionMounted, Structure
<1>3. saving' \in Saving /\ saving'.at = "none"
  BY <1>1 DEF SessionMounted, Saving, NoSaving
<1>4. controls.used \in SUBSET (1 .. MaxTickets)
  BY <1>1, StructureTypes DEF Controls
<1>5. /\ controls' \in Controls /\ controls'.step = "idle" /\ controls'.prepared = 0
      /\ controls'.preview = NoTree /\ controls'.used = controls.used
  BY <1>1, <1>4 DEF NoControls, Controls, SessionMounted
<1>6. StructureTypeOK'
  BY <1>2, <1>3, <1>5 DEF StructureTypeOK
<1>7. TicketsStand'
  BY DEF StructureInv, TicketsStand
<1>8. HostStands' /\ SaveStands' /\ RestoreStands'
  BY <1>2, <1>3 DEF HostStands, SaveStands, RestoreStands, KnownVersion
<1>9. ButtonsStand' /\ DialogStands'
  BY <1>5 DEF StructureInv, ButtonsStand, DialogStands, IsTicket
<1> QED
  BY <1>6, <1>7, <1>8, <1>9 DEF StructureInv

\* The page is loaded and its editor mounts.
LEMMA LoadPageKeeps == ASSUME StructureInv, LoadPage PROVE StructureInv'
<1>1. /\ StructureTypeOK /\ structure.session = 0 /\ recovery' = recovery
      /\ SessionMounted(pageServer.version, pageServer.draft, pageServer.live)
      /\ pageServer' = [pageServer EXCEPT !.own = TRUE]
  BY DEF StructureInv, LoadPage, TreeLoaded
<1>2. /\ pageServer.version \in Versions \ {0} /\ pageServer.draft \in Trees
      /\ pageServer.live \in Trees \cup {NoTree}
  BY <1>1, StructureTypes DEF StructureInv, TicketsStand, PageServer
<1>3. /\ pageServer' \in PageServer /\ pageServer'.version = pageServer.version
      /\ pageServer'.draft = pageServer.draft /\ pageServer'.tickets = pageServer.tickets
      /\ pageServer'.own
  BY <1>1, StructureTypes DEF PageServer
<1>4. recovery' \in Recovery /\ recovery'.at \in {"none", "listing"} /\ recovery'.wanted
  BY <1>1, StructureTypes DEF StructureInv, HostStands, RestoreStands, Recovery
<1>5. PICK v \in Versions \ {0}, t \in Trees : v = pageServer.version /\ t = pageServer.draft
  BY <1>2
<1>6. KnownVersion(v, t)' /\ SessionMounted(v, t, pageServer.live)
  BY <1>1, <1>3, <1>5, StructureTypes DEF KnownVersion
<1> QED
  BY <1>2, <1>3, <1>4, <1>6, MountKeeps

\* An accepted change of the document.
LEMMA ChangeKeeps ==
  ASSUME StructureInv, NEW t \in Trees, ChangeTree(t)
  PROVE  StructureInv'
<1>1. /\ StructureTypeOK /\ UNCHANGED <<pageServer, saving, recovery>>
      /\ structure.session # 0 /\ ~structure.recovering
      /\ structure.epoch \in Nat /\ structure.epoch < MaxEpoch
      /\ controls \in Controls /\ NoTree \notin Trees
  BY StructureTypes DEF StructureInv, ChangeTree, Readonly, TreeLoaded
<1>2. structure.epoch + 1 \in Epochs
  BY <1>1, StructureEditorAssumption DEF Epochs
<1>3. structure' = [structure EXCEPT !.tree = t, !.epoch = structure.epoch + 1, !.dirty = TRUE]
  BY <1>1, StructureTypes DEF ChangeTree, Structure
<1>4. /\ structure' \in Structure /\ structure'.tree = t
      /\ structure'.epoch = structure.epoch + 1 /\ structure'.dirty
      /\ structure'.session = structure.session /\ structure'.token = structure.token
      /\ structure'.latestLock = structure.latestLock
      /\ ~structure'.recovering
  BY <1>1, <1>2, <1>3, StructureTypes DEF Structure
<1> DEFINE n == AfterChange(controls, structure.epoch + 1, FALSE)
<1>5. controls' = n
  BY DEF ChangeTree
<1>6. /\ n \in Controls
      /\ n.step = controls.step /\ n.kind = controls.kind /\ n.epoch = controls.epoch
      /\ n.version = controls.version /\ n.ok = controls.ok /\ n.ticket = controls.ticket
      /\ n.confirmed = controls.confirmed /\ n.used = controls.used
      /\ n.preparedAt = controls.preparedAt /\ n.previewAt = controls.previewAt
      /\ n.prepared \in {0, controls.prepared} /\ n.preview \in {NoTree, controls.preview}
      /\ n.prepared # 0 => n.preparedAt = structure.epoch + 1
      /\ n.preview # NoTree => n.previewAt = structure.epoch + 1
  BY <1>1, <1>2, ChangeClosesDialog
<1> HIDE DEF n
<1>7. n.prepared = 0 /\ n.preview = NoTree
  BY <1>1, <1>6 DEF StructureInv, DialogStands
<1>8. HostStands' /\ TicketsStand'
  BY <1>1, <1>4 DEF StructureInv, HostStands, TicketsStand, KnownVersion
<1>9. SaveStands'
  BY <1>1, <1>4, StructureTypes DEF StructureInv, SaveStands, KnownVersion
<1>10. RestoreStands'
  BY <1>1, <1>4 DEF StructureInv, RestoreStands, KnownVersion
<1>11. ButtonsStand'
  <2>1. controls.step # "idle" => controls.epoch <= structure.epoch /\ controls.epoch \in Nat
    BY <1>1, StructureTypes DEF StructureInv, ButtonsStand
  <2>2. controls.step # "idle" => n.epoch <= structure'.epoch /\ n.epoch # structure'.epoch
    BY <1>1, <1>4, <1>6, <2>1
  <2> QED
    BY <1>1, <1>4, <1>5, <1>6, <1>7, <2>2 DEF StructureInv, ButtonsStand, IsTicket
<1>12. DialogStands'
  BY <1>1, <1>5, <1>6, <1>7 DEF StructureInv, DialogStands
<1> QED
  BY <1>1, <1>4, <1>5, <1>6, <1>8, <1>9, <1>10, <1>11, <1>12 DEF StructureInv, StructureTypeOK

\* What is sent is what is on the screen, for the version that the editor knows.
LEMMA SubmittedStands ==
  ASSUME StructureInv, saving' = Submitted, ~Readonly,
         UNCHANGED <<pageServer, structure, recovery>>
  PROVE  /\ saving' \in Saving /\ saving'.at = "sent" /\ saving'.epoch = structure.epoch
         /\ SaveStands' /\ TicketsStand' /\ HostStands' /\ RestoreStands'
<1>1. /\ StructureTypeOK /\ structure.session # 0 /\ structure.tree \in Trees
  BY DEF StructureInv, Readonly, TreeLoaded, HostStands
<1>2. /\ saving' \in Saving /\ saving'.at = "sent" /\ saving'.epoch = structure.epoch
      /\ saving'.tree = structure.tree /\ saving'.expected = structure.token
      /\ saving'.answer = 0
  BY <1>1, StructureTypes DEF Submitted, Saving, Structure
<1>3. SaveStands'
  BY <1>1, <1>2, StructureTypes DEF SaveStands
<1>4. TicketsStand' /\ HostStands' /\ RestoreStands'
  BY DEF StructureInv, TicketsStand, HostStands, RestoreStands, KnownVersion
<1> QED
  BY <1>2, <1>3, <1>4

\* The button that saves.
LEMMA SaveButtonKeeps == ASSUME StructureInv, SaveButtonV3 PROVE StructureInv'
<1>1. /\ saving' = Submitted /\ ~Readonly /\ controls.step = "idle"
      /\ UNCHANGED <<pageServer, structure, controls, recovery>> /\ StructureTypeOK
  BY DEF SaveButtonV3, Publishing, StructureInv
<1>2. saving' \in Saving /\ SaveStands' /\ TicketsStand' /\ HostStands' /\ RestoreStands'
  BY <1>1, SubmittedStands
<1>3. ButtonsStand' /\ DialogStands'
  BY <1>1 DEF StructureInv, ButtonsStand, DialogStands, IsTicket
<1> QED
  BY <1>1, <1>2, <1>3 DEF StructureInv, StructureTypeOK

\* The buttons of the preview and of the publication save first.
LEMMA RunKeeps ==
  ASSUME StructureInv, NEW kind \in {"preview", "prepare"}, RunWithSave(kind)
  PROVE  StructureInv'
<1> DEFINE shown == IF kind = "preview" THEN NoTree ELSE controls.preview
<1>1. /\ saving' = Submitted /\ ~Readonly /\ controls.step = "idle"
      /\ UNCHANGED <<pageServer, structure, recovery>> /\ StructureTypeOK
  BY DEF RunWithSave, Publishing, Disabled, StructureInv
<1>2. /\ saving' \in Saving /\ saving'.at = "sent" /\ saving'.epoch = structure.epoch
      /\ SaveStands' /\ TicketsStand' /\ HostStands' /\ RestoreStands'
  BY <1>1, SubmittedStands
<1>3. shown \in Trees \cup {NoTree} /\ shown \in {NoTree, controls.preview}
      /\ structure.epoch \in Epochs /\ 0 \in 0 .. MaxTickets
  BY <1>1, StructureTypes DEF Controls, Structure
<1>4. controls' = [controls EXCEPT !.step = "saving", !.kind = kind,
                       !.epoch = structure.epoch, !.wanted = TRUE, !.prepared = 0,
                       !.preview = shown]
  BY <1>1, StructureTypes DEF RunWithSave, Controls
<1> HIDE DEF shown
<1>5. /\ controls' \in Controls /\ controls'.step = "saving" /\ controls'.kind = kind
      /\ controls'.epoch = structure.epoch /\ controls'.prepared = 0
      /\ controls'.preview = shown /\ controls'.previewAt = controls.previewAt
      /\ controls'.used = controls.used
  BY <1>1, <1>3, <1>4, StructureTypes DEF Controls
<1>6. ButtonsStand'
  BY <1>1, <1>2, <1>5, StructureTypes DEF ButtonsStand
<1>7. DialogStands'
  BY <1>1, <1>3, <1>5 DEF StructureInv, DialogStands
<1> QED
  BY <1>1, <1>2, <1>5, <1>6, <1>7 DEF StructureInv, StructureTypeOK

\* "Publish this version": the token of the dialog is sent.
LEMMA CommitKeeps == ASSUME StructureInv, RunCommit PROVE StructureInv'
<1> DEFINE ticket == controls.prepared
           used == controls.used \cup {ticket}
<1>1. /\ UNCHANGED <<pageServer, structure, saving, recovery>> /\ StructureTypeOK
      /\ ticket # 0 /\ structure.session # 0 /\ structure.tree \in Trees
  BY DEF RunCommit, StructureInv, Disabled, Readonly, TreeLoaded, HostStands
<1>2. /\ IsTicket(ticket) /\ ticket \in 0 .. MaxTickets /\ ticket \in 1 .. MaxTickets
      /\ pageServer.tickets[ticket].tree = structure.tree
      /\ used \in SUBSET (1 .. MaxTickets) /\ used \subseteq 1 .. Len(pageServer.tickets)
      /\ controls.preview # NoTree =>
            controls.previewAt = structure.epoch /\ controls.preview = structure.tree
  BY <1>1, StructureTypes, StructureEditorAssumption DEF StructureInv, DialogStands, TicketsStand,
     IsTicket, Controls
<1>3. 0 \in 0 .. MaxTickets /\ structure.epoch \in Epochs /\ structure.epoch \in Nat
  BY <1>1, StructureTypes DEF Structure
<1>4. controls' = [controls EXCEPT !.step = "sent", !.kind = "commit",
                             !.epoch = structure.epoch, !.wanted = TRUE,
                             !.ticket = ticket, !.confirmed = structure.tree,
                             !.used = used, !.prepared = 0]
  BY <1>1, StructureTypes DEF RunCommit, Spent, Controls
<1> HIDE DEF ticket, used
<1>5. /\ controls' \in Controls /\ controls'.step = "sent" /\ controls'.kind = "commit"
      /\ controls'.epoch = structure.epoch /\ controls'.ticket = ticket
      /\ controls'.confirmed = structure.tree /\ controls'.used = used
      /\ controls'.prepared = 0 /\ controls'.preview = controls.preview
      /\ controls'.previewAt = controls.previewAt
  BY <1>1, <1>2, <1>3, <1>4, StructureTypes DEF Controls
<1>6. ButtonsStand'
  BY <1>1, <1>2, <1>3, <1>5 DEF ButtonsStand, IsTicket
<1>7. DialogStands'
  BY <1>1, <1>2, <1>5 DEF DialogStands
<1> QED
  BY <1>1, <1>5, <1>6, <1>7, ButtonsMove

\* The dialog is closed.
LEMMA CancelDialogKeeps == ASSUME StructureInv, CancelDialog PROVE StructureInv'
<1> DEFINE idle == controls.step = "idle"
<1>1. /\ UNCHANGED <<pageServer, structure, saving, recovery>> /\ StructureTypeOK
      /\ controls.step = "idle" /\ idle \in BOOLEAN
      /\ controls' = [controls EXCEPT !.wanted = idle, !.prepared = 0]
  BY DEF CancelDialog, StructureInv, Publishing, Cancelled
<1> HIDE DEF idle
<1>2. /\ controls' \in Controls /\ controls'.step = "idle" /\ controls'.prepared = 0
      /\ controls'.preview = controls.preview /\ controls'.previewAt = controls.previewAt
      /\ controls'.used = controls.used
  BY <1>1, StructureTypes DEF Controls
<1>3. ButtonsStand' /\ DialogStands'
  BY <1>1, <1>2 DEF StructureInv, ButtonsStand, DialogStands
<1> QED
  BY <1>1, <1>2, <1>3, ButtonsMove

\* The server's answer to a request of the buttons.
LEMMA AnsweredButtons ==
  ASSUME NEW c \in Controls, NEW ok \in BOOLEAN
  PROVE  LET n == Answer(c, ok)
         IN  /\ n \in Controls /\ n.step = "answered" /\ n.ok = ok
             /\ n.kind = c.kind /\ n.epoch = c.epoch /\ n.version = c.version
             /\ n.ticket = c.ticket /\ n.confirmed = c.confirmed /\ n.used = c.used
             /\ n.prepared = c.prepared /\ n.preparedAt = c.preparedAt
             /\ n.preview = c.preview /\ n.previewAt = c.previewAt
BY DEF Answer, Controls

\* The server handles a save.
LEMMA HandleSaveKeeps == ASSUME StructureInv, HandleSave PROVE StructureInv'
<1>1. /\ StructureTypeOK /\ saving.at = "sent" /\ UNCHANGED <<structure, controls, recovery>>
      /\ saving \in Saving /\ saving.tree \in Trees /\ structure.session # 0
  BY StructureTypes DEF StructureInv, HandleSave, SaveStands
<1>2. ASSUME Accepts(saving.expected), pageServer' = Written(saving.tree),
             NEW lost \in BOOLEAN,
             saving' = [saving EXCEPT !.at = "answered",
                                      !.answer = IF lost THEN 0 ELSE pageServer'.version]
      PROVE  StructureInv'
  <2> DEFINE answer == IF lost THEN 0 ELSE pageServer'.version
  <2>1. /\ pageServer' \in PageServer /\ pageServer'.version = pageServer.version + 1
        /\ pageServer'.tickets = pageServer.tickets /\ pageServer'.draft = saving.tree
        /\ pageServer'.own
    BY <1>1, <1>2, DraftOfPageIsWritten
  <2>2. answer \in Versions /\ (answer # 0 => answer = pageServer'.version)
    BY <1>1, <2>1, StructureTypes DEF PageServer
  <2>3. saving' = [saving EXCEPT !.at = "answered", !.answer = answer]
    BY <1>2
  <2> HIDE DEF answer
  <2>4. /\ saving' \in Saving /\ saving'.at = "answered" /\ saving'.answer = answer
        /\ saving'.tree = saving.tree /\ saving'.epoch = saving.epoch
        /\ saving'.expected = saving.expected
    BY <1>1, <2>2, <2>3 DEF Saving
  <2>5. TicketsStand' /\ HostStands' /\ ButtonsStand' /\ DialogStands'
    BY <1>1, <2>1, <2>4, ServerMovesOn
  <2>6. SaveStands'
    BY <1>1, <2>2, <2>1, <2>4, StructureTypes DEF StructureInv, SaveStands, KnownVersion
  <2>7. RestoreStands'
    BY <1>1, <2>1, StructureTypes, KnownStays DEF StructureInv, RestoreStands, KnownVersion
  <2> QED
    BY <1>1, <2>1, <2>4, <2>5, <2>6, <2>7 DEF StructureInv, StructureTypeOK
<1>3. CASE saving' = [saving EXCEPT !.at = "answered"] /\ UNCHANGED pageServer
  <2>1. saving.answer = 0
    BY <1>1 DEF StructureInv, SaveStands
  <2>2. /\ saving' \in Saving /\ saving'.at = "answered" /\ saving'.answer = 0
        /\ saving'.tree = saving.tree /\ saving'.epoch = saving.epoch
        /\ saving'.expected = saving.expected
    BY <1>1, <1>3, <2>1 DEF Saving
  <2>3. SaveStands'
    BY <1>1, <1>3, <2>2 DEF StructureInv, SaveStands, KnownVersion
  <2>4. TicketsStand' /\ HostStands' /\ RestoreStands' /\ ButtonsStand' /\ DialogStands'
    BY <1>1, <1>3, <2>2 DEF StructureInv, TicketsStand, HostStands, RestoreStands, ButtonsStand,
       DialogStands, KnownVersion, IsTicket
  <2> QED
    BY <1>1, <1>3, <2>2, <2>3, <2>4 DEF StructureInv, StructureTypeOK
<1> QED
  BY <1>2, <1>3 DEF HandleSave

\* The publication that waited for the save goes on, or is over.
LEMMA ContinuedStands ==
  ASSUME StructureInv, NEW version \in Versions, ContinueWith(version),
         saving.at = "answered", saving'.at = "none", pageServer' = pageServer,
         structure'.epoch = structure.epoch, structure'.tree = structure.tree,
         version # 0 => /\ saving.epoch = structure.epoch
                        /\ KnownVersion(version, structure.tree)
  PROVE  controls' \in Controls /\ ButtonsStand' /\ DialogStands'
<1>1. StructureTypeOK /\ controls \in Controls /\ version \in Nat
  BY StructureTypes DEF StructureInv
<1>2. CASE controls.step # "saving"
  BY <1>1, <1>2 DEF ContinueWith, StructureInv, ButtonsStand, DialogStands, IsTicket
<1>3. CASE /\ controls.step = "saving" /\ version # 0
           /\ controls' = [controls EXCEPT !.step = "sent", !.version = version]
  BY <1>1, <1>3 DEF Controls, StructureInv, ButtonsStand, KnownVersion, DialogStands, IsTicket
<1>4. CASE controls.step = "saving" /\ controls' = Finished(controls)
  BY <1>1, <1>4, FinishedIsIdle DEF StructureInv, ButtonsStand, DialogStands, IsTicket
<1> QED
  BY <1>2, <1>3, <1>4 DEF ContinueWith

\* The answer of a save.
LEMMA SaveAnsweredKeeps == ASSUME StructureInv, SaveAnsweredV3 PROVE StructureInv'
<1>1. /\ StructureTypeOK /\ saving.at = "answered" /\ saving' = NoSaving
      /\ UNCHANGED <<pageServer, recovery>> /\ 0 \in Versions /\ saving \in Saving
      /\ structure \in Structure
  BY StructureTypes DEF StructureInv, SaveAnsweredV3
<1>2. saving' \in Saving /\ saving'.at = "none"
  BY <1>1, StructureTypes DEF NoSaving, Saving
<1>3. CASE saving.answer = 0 \/ Readonly
  <2>1. structure' = structure /\ ContinueWith(0)
    BY <1>3 DEF SaveAnsweredV3
  <2>2. controls' \in Controls /\ ButtonsStand' /\ DialogStands'
    BY <1>1, <1>2, <2>1, ContinuedStands
  <2>3. TicketsStand' /\ HostStands' /\ SaveStands' /\ RestoreStands'
    BY <1>1, <1>2, <2>1 DEF StructureInv, TicketsStand, HostStands, SaveStands, RestoreStands,
       KnownVersion
  <2> QED
    BY <1>1, <1>2, <2>1, <2>2, <2>3 DEF StructureInv, StructureTypeOK
<1>4. CASE ~(saving.answer = 0 \/ Readonly)
  <2> DEFINE dirty == SavedStatus # "saved"
             version == IF SavedStatus = "saved" THEN saving.answer ELSE 0
  <2>1. /\ structure' = [structure EXCEPT !.token = saving.answer,
                               !.latestLock = saving.answer, !.dirty = dirty]
        /\ ContinueWith(version)
    BY <1>4 DEF SaveAnsweredV3
  <2>2. /\ dirty \in BOOLEAN /\ version \in Versions
        /\ (~dirty => structure.epoch = saving.epoch)
        /\ (version # 0 => structure.epoch = saving.epoch /\ version = saving.answer)
    BY <1>1 DEF SavedStatus, Saving
  <2> HIDE DEF dirty, version
  <2>3. /\ KnownVersion(saving.answer, saving.tree) /\ ~structure.recovering
        /\ structure.session # 0 /\ structure.tree \in Trees
        /\ structure.epoch = saving.epoch => saving.tree = structure.tree
    BY <1>1, <1>4 DEF StructureInv, SaveStands, HostStands, Readonly, TreeLoaded
  <2>4. /\ structure' \in Structure /\ structure'.token = saving.answer
        /\ structure'.latestLock = saving.answer /\ structure'.dirty = dirty
        /\ structure'.tree = structure.tree /\ structure'.epoch = structure.epoch
        /\ structure'.session = structure.session
        /\ structure'.recovering = structure.recovering
    BY <1>1, <2>1, <2>2 DEF Structure, Saving
  <2>5. controls' \in Controls /\ ButtonsStand' /\ DialogStands'
    BY <1>1, <1>2, <2>1, <2>2, <2>3, <2>4, ContinuedStands
  <2>6. HostStands'
    BY <1>1, <2>2, <2>3, <2>4 DEF HostStands, KnownVersion
  <2>7. TicketsStand' /\ SaveStands' /\ RestoreStands'
    BY <1>1, <1>2, <2>3, <2>4 DEF StructureInv, TicketsStand, SaveStands, RestoreStands,
       KnownVersion
  <2> QED
    BY <1>1, <1>2, <2>4, <2>5, <2>6, <2>7 DEF StructureInv, StructureTypeOK
<1> QED
  BY <1>3, <1>4

\* The server makes the link of a preview.
LEMMA HandlePreviewKeeps == ASSUME StructureInv, HandlePreview PROVE StructureInv'
<1>1. /\ StructureTypeOK /\ controls.step = "sent" /\ controls.kind = "preview"
      /\ UNCHANGED <<pageServer, structure, saving, recovery>> /\ controls \in Controls
      /\ pageServer.draft \in Trees
  BY StructureTypes DEF StructureInv, HandlePreview
<1>2. PICK ok \in BOOLEAN :
         /\ ok => controls.version = pageServer.version
         /\ controls' = Answer([controls EXCEPT !.confirmed =
                                   IF ok THEN pageServer.draft ELSE NoTree], ok)
  BY DEF HandlePreview
<1> DEFINE tree == IF ok THEN pageServer.draft ELSE NoTree
           c == [controls EXCEPT !.confirmed = tree]
<1>3. tree \in Trees \cup {NoTree} /\ controls' = Answer(c, ok) /\ (ok => tree = pageServer.draft)
  BY <1>1, <1>2
<1> HIDE DEF tree
<1>4. /\ c \in Controls /\ c.confirmed = tree /\ c.kind = "preview" /\ c.epoch = controls.epoch
      /\ c.used = controls.used /\ c.prepared = controls.prepared
      /\ c.preparedAt = controls.preparedAt /\ c.preview = controls.preview
      /\ c.previewAt = controls.previewAt
  BY <1>1, <1>3 DEF Controls
<1> HIDE DEF c
<1>5. /\ controls' \in Controls /\ controls'.step = "answered" /\ controls'.ok = ok
      /\ controls'.kind = "preview" /\ controls'.epoch = controls.epoch
      /\ controls'.confirmed = tree /\ controls'.used = controls.used
      /\ controls'.prepared = controls.prepared /\ controls'.preparedAt = controls.preparedAt
      /\ controls'.preview = controls.preview /\ controls'.previewAt = controls.previewAt
  BY <1>3, <1>4, AnsweredButtons
<1>6. ButtonsStand'
  BY <1>1, <1>2, <1>3, <1>5 DEF StructureInv, ButtonsStand
<1>7. DialogStands'
  BY <1>1, <1>5 DEF StructureInv, DialogStands, IsTicket
<1> QED
  BY <1>1, <1>5, <1>6, <1>7, ButtonsMove

\* A request that fails or is refused.
LEMMA RefusedButtons ==
  ASSUME StructureInv, UNCHANGED <<pageServer, structure, saving, recovery>>,
         controls.step = "sent", controls' = Answer(controls, FALSE)
  PROVE  controls' \in Controls /\ ButtonsStand' /\ DialogStands'
BY StructureTypes, AnsweredButtons DEF StructureInv, ButtonsStand, IsTicket, DialogStands

\* A ticket is made of the draft of now.
LEMMA TicketIsAdded ==
  ASSUME StructureInv, Len(pageServer.tickets) < MaxTickets,
         pageServer' = [pageServer EXCEPT !.tickets =
            Append(pageServer.tickets, [version |-> pageServer.version, tree |-> pageServer.draft])]
  PROVE  /\ pageServer' \in PageServer /\ pageServer'.version = pageServer.version
         /\ pageServer'.draft = pageServer.draft /\ pageServer'.own = pageServer.own
         /\ Len(pageServer'.tickets) = Len(pageServer.tickets) + 1
         /\ \A n \in 1 .. Len(pageServer.tickets) :
               pageServer'.tickets[n] = pageServer.tickets[n]
         /\ pageServer'.tickets[Len(pageServer.tickets) + 1].version = pageServer.version
         /\ pageServer'.tickets[Len(pageServer.tickets) + 1].tree = pageServer.draft
<1> DEFINE e == [version |-> pageServer.version, tree |-> pageServer.draft]
           s == pageServer.tickets
           a == Append(s, e)
<1>1. StructureTypeOK /\ s \in Seq(Ticket) /\ Len(s) \in Nat /\ pageServer \in PageServer
  BY StructureTypes DEF StructureInv
<1>2. e \in Ticket
  BY <1>1 DEF PageServer, Ticket
<1>3. e.version = pageServer.version /\ e.tree = pageServer.draft
  OBVIOUS
<1>4. pageServer' = [pageServer EXCEPT !.tickets = a]
  OBVIOUS
<1> HIDE DEF e
<1>5. /\ a \in Seq(Ticket) /\ Len(a) = Len(s) + 1 /\ a[Len(s) + 1] = e
      /\ \A n \in 1 .. Len(s) : a[n] = s[n]
  BY <1>1, <1>2, AppendProperties
<1> HIDE DEF a
<1>6. /\ pageServer' \in PageServer /\ pageServer'.version = pageServer.version
      /\ pageServer'.draft = pageServer.draft /\ pageServer'.own = pageServer.own
      /\ pageServer'.tickets = a
  BY <1>1, <1>4, <1>5 DEF PageServer
<1> QED
  BY <1>3, <1>5, <1>6

\* The server makes a ticket of the draft.
LEMMA HandlePrepareKeeps == ASSUME StructureInv, HandlePrepare PROVE StructureInv'
<1>1. /\ StructureTypeOK /\ controls.step = "sent" /\ controls.kind = "prepare"
      /\ UNCHANGED <<structure, saving, recovery>> /\ controls \in Controls
      /\ Len(pageServer.tickets) \in Nat /\ MaxTickets \in Nat
  BY StructureTypes, StructureEditorAssumption DEF StructureInv, HandlePrepare
<1>2. CASE controls' = Answer(controls, FALSE) /\ UNCHANGED pageServer
  BY <1>1, <1>2, RefusedButtons, ButtonsMove
<1>3. CASE /\ controls.version = pageServer.version
           /\ Len(pageServer.tickets) < MaxTickets
           /\ pageServer' = [pageServer EXCEPT !.tickets =
                Append(@, [version |-> pageServer.version, tree |-> pageServer.draft])]
           /\ controls' = Answer([controls EXCEPT !.ticket = Len(pageServer'.tickets)], TRUE)
  <2> DEFINE len == Len(pageServer.tickets)
             c == [controls EXCEPT !.ticket = len + 1]
  <2>1. pageServer' = [pageServer EXCEPT !.tickets =
            Append(pageServer.tickets, [version |-> pageServer.version, tree |-> pageServer.draft])]
    BY <1>1, <1>3, StructureTypes DEF PageServer
  <2>2. /\ pageServer' \in PageServer /\ pageServer'.version = pageServer.version
        /\ pageServer'.draft = pageServer.draft /\ pageServer'.own = pageServer.own
        /\ Len(pageServer'.tickets) = len + 1
        /\ \A n \in 1 .. len : pageServer'.tickets[n] = pageServer.tickets[n]
        /\ pageServer'.tickets[len + 1].version = pageServer.version
        /\ pageServer'.tickets[len + 1].tree = pageServer.draft
    BY <1>3, <2>1, TicketIsAdded
  <2>3. /\ len \in Nat /\ len + 1 \in 0 .. MaxTickets /\ controls' = Answer(c, TRUE)
        /\ len < MaxTickets
    BY <1>1, <1>3, <2>2
  <2> HIDE DEF len
  <2>4. /\ c \in Controls /\ c.ticket = len + 1 /\ c.kind = "prepare"
        /\ c.epoch = controls.epoch
        /\ c.used = controls.used /\ c.prepared = controls.prepared
        /\ c.preparedAt = controls.preparedAt /\ c.preview = controls.preview
        /\ c.previewAt = controls.previewAt
    BY <1>1, <2>3 DEF Controls
  <2> HIDE DEF c
  <2>5. /\ controls' \in Controls /\ controls'.step = "answered"
        /\ controls'.kind = "prepare" /\ controls'.epoch = controls.epoch
        /\ controls'.ticket = len + 1 /\ controls'.used = controls.used
        /\ controls'.prepared = controls.prepared /\ controls'.preparedAt = controls.preparedAt
        /\ controls'.preview = controls.preview /\ controls'.previewAt = controls.previewAt
    BY <2>3, <2>4, AnsweredButtons
  <2>6. controls.used \subseteq 1 .. len /\ controls.prepared = 0
    BY <1>1 DEF StructureInv, DialogStands, ButtonsStand, len
  <2>7. TicketsStand'
    <3>1. ASSUME NEW n \in 1 .. len + 1
          PROVE  /\ pageServer'.tickets[n].version <= pageServer.version
                 /\ pageServer'.tickets[n].version = pageServer.version
                       => pageServer'.tickets[n].tree = pageServer.draft
      <4>1. CASE n = len + 1
        BY <1>1, <2>2, <4>1, StructureTypes
      <4>2. CASE n \in 1 .. len
        BY <2>2, <4>2 DEF StructureInv, TicketsStand, len
      <4> QED
        BY <2>3, <4>1, <4>2
    <3> QED
      BY <1>1, <2>2, <2>3, <3>1 DEF StructureInv, TicketsStand
  <2>8. /\ len + 1 \notin controls.used /\ controls.used \subseteq 1 .. len + 1
        /\ len + 1 \in 1 .. len + 1
    BY <2>3, <2>6
  <2>9. /\ controls.epoch <= structure.epoch
        /\ controls.epoch = structure.epoch => pageServer.draft = structure.tree
        /\ controls.preview # NoTree =>
              controls.previewAt = structure.epoch /\ controls.preview = structure.tree
    BY <1>1, <1>3 DEF StructureInv, ButtonsStand, DialogStands
  <2>10. ButtonsStand'
    BY <1>1, <2>2, <2>5, <2>6, <2>8, <2>9 DEF ButtonsStand, IsTicket
  <2>11. DialogStands'
    BY <1>1, <2>2, <2>5, <2>6, <2>8, <2>9 DEF DialogStands
  <2>12. HostStands' /\ SaveStands' /\ RestoreStands'
    BY <1>1, <2>2 DEF StructureInv, HostStands, SaveStands, RestoreStands, KnownVersion
  <2> QED
    BY <1>1, <2>2, <2>5, <2>7, <2>10, <2>11, <2>12 DEF StructureInv, StructureTypeOK
<1> QED
  BY <1>2, <1>3 DEF HandlePrepare

\* The server publishes a ticket.
LEMMA HandleCommitKeeps == ASSUME StructureInv, HandleCommit PROVE StructureInv'
<1>1. /\ StructureTypeOK /\ controls.step = "sent" /\ controls.kind = "commit"
      /\ UNCHANGED <<structure, saving, recovery>> /\ controls \in Controls
      /\ pageServer \in PageServer
  BY StructureTypes DEF StructureInv, HandleCommit
<1>2. CASE controls' = Answer(controls, FALSE) /\ UNCHANGED pageServer
  BY <1>1, <1>2, RefusedButtons, ButtonsMove
<1>3. CASE /\ pageServer' = [pageServer EXCEPT !.live =
                               pageServer.tickets[controls.ticket].tree]
           /\ \E ok \in BOOLEAN : controls' = Answer(controls, ok)
  <2> DEFINE live == pageServer.tickets[controls.ticket].tree
  <2>1. live \in Trees \cup {NoTree} /\ IsTicket(controls.ticket) /\ live = controls.confirmed
    BY <1>1, StructureTypes DEF StructureInv, ButtonsStand, IsTicket, Ticket
  <2>2. PICK ok \in BOOLEAN : controls' = Answer(controls, ok)
    BY <1>3
  <2>3. pageServer' = [pageServer EXCEPT !.live = live]
    BY <1>3
  <2> HIDE DEF live
  <2>4. pageServer'.tickets = pageServer.tickets
    BY <1>1, <2>3 DEF PageServer
  <2>5. /\ controls' \in Controls /\ controls'.step = "answered"
        /\ controls'.kind = "commit" /\ controls'.epoch = controls.epoch
        /\ controls'.ticket = controls.ticket
        /\ controls'.confirmed = controls.confirmed /\ controls'.used = controls.used
        /\ controls'.prepared = controls.prepared /\ controls'.preparedAt = controls.preparedAt
        /\ controls'.preview = controls.preview /\ controls'.previewAt = controls.previewAt
    BY <1>1, <2>2, AnsweredButtons
  <2>6. ButtonsStand'
    BY <1>1, <2>4, <2>5 DEF StructureInv, ButtonsStand, IsTicket
  <2>7. DialogStands'
    BY <1>1, <2>4, <2>5 DEF StructureInv, DialogStands, IsTicket
  <2> QED
    BY <1>1, <2>1, <2>3, <2>5, <2>6, <2>7, PublishingKeepsPage
<1> QED
  BY <1>2, <1>3 DEF HandleCommit

\* The answer with the link of a preview.
LEMMA PreviewAnsweredKeeps == ASSUME StructureInv, PreviewAnsweredV3 PROVE StructureInv'
<1> DEFINE shown == controls.ok /\ controls.wanted /\ Current(controls.epoch)
           c == [controls EXCEPT !.preview = controls.confirmed,
                                 !.previewAt = structure.epoch]
           d == IF shown THEN c ELSE controls
<1>1. /\ StructureTypeOK /\ controls.step = "answered" /\ controls.kind = "preview"
      /\ UNCHANGED <<pageServer, structure, saving, recovery>> /\ controls \in Controls
      /\ structure.epoch \in Epochs
  BY StructureTypes DEF StructureInv, PreviewAnsweredV3, Structure
<1>2. controls' = Finished(d)
  BY DEF PreviewAnsweredV3
<1>3. shown => controls.confirmed = structure.tree
  BY <1>1 DEF StructureInv, ButtonsStand, Current
<1>4. /\ c \in Controls /\ c.used = controls.used /\ c.prepared = controls.prepared
      /\ c.preparedAt = controls.preparedAt /\ c.preview = controls.confirmed
      /\ c.previewAt = structure.epoch
  BY <1>1 DEF Controls
<1>5. controls.prepared = 0
  BY <1>1 DEF StructureInv, ButtonsStand
<1> HIDE DEF shown, c
<1>6. /\ d \in Controls /\ d.used = controls.used /\ d.prepared = 0
      /\ d.preview # NoTree => d.previewAt = structure.epoch /\ d.preview = structure.tree
  BY <1>1, <1>3, <1>4, <1>5 DEF StructureInv, DialogStands
<1> HIDE DEF d
<1>7. /\ controls' \in Controls /\ controls'.step = "idle" /\ controls'.used = d.used
      /\ controls'.prepared = d.prepared /\ controls'.preview = d.preview
      /\ controls'.previewAt = d.previewAt
  BY <1>2, <1>6, FinishedIsIdle
<1>8. ButtonsStand' /\ DialogStands'
  BY <1>1, <1>6, <1>7 DEF StructureInv, ButtonsStand, DialogStands
<1> QED
  BY <1>1, <1>7, <1>8, ButtonsMove

\* The answer with a ticket: the dialog opens, or it is too late.
LEMMA PrepareAnsweredKeeps == ASSUME StructureInv, PrepareAnswered PROVE StructureInv'
<1> DEFINE opened == controls.ok /\ controls.wanted /\ Current(controls.epoch)
           c == [controls EXCEPT !.prepared = controls.ticket,
                                 !.preparedAt = structure.epoch]
           d == IF opened THEN c ELSE controls
<1>1. /\ StructureTypeOK /\ controls.step = "answered" /\ controls.kind = "prepare"
      /\ UNCHANGED <<pageServer, structure, saving, recovery>> /\ controls \in Controls
      /\ structure.epoch \in Epochs
  BY StructureTypes DEF StructureInv, PrepareAnswered, Structure
<1>2. controls' = Finished(d)
  BY DEF PrepareAnswered
<1>3. opened => /\ IsTicket(controls.ticket) /\ controls.ticket \notin controls.used
                /\ pageServer.tickets[controls.ticket].tree = structure.tree
  BY <1>1 DEF StructureInv, ButtonsStand, Current
<1>4. /\ c \in Controls /\ c.used = controls.used /\ c.prepared = controls.ticket
      /\ c.preparedAt = structure.epoch /\ c.preview = controls.preview
      /\ c.previewAt = controls.previewAt
  BY <1>1 DEF Controls
<1>5. controls.prepared = 0
  BY <1>1 DEF StructureInv, ButtonsStand
<1> HIDE DEF opened, c
<1>6. /\ d \in Controls /\ d.used = controls.used /\ d.preview = controls.preview
      /\ d.previewAt = controls.previewAt
      /\ d.prepared # 0 =>
            /\ IsTicket(d.prepared) /\ d.prepared \notin d.used
            /\ d.preparedAt = structure.epoch
            /\ pageServer.tickets[d.prepared].tree = structure.tree
  BY <1>1, <1>3, <1>4, <1>5
<1> HIDE DEF d
<1>7. /\ controls' \in Controls /\ controls'.step = "idle" /\ controls'.used = d.used
      /\ controls'.prepared = d.prepared /\ controls'.preparedAt = d.preparedAt
      /\ controls'.preview = d.preview /\ controls'.previewAt = d.previewAt
  BY <1>2, <1>6, FinishedIsIdle
<1>8. ButtonsStand' /\ DialogStands'
  BY <1>1, <1>6, <1>7 DEF StructureInv, ButtonsStand, DialogStands, IsTicket
<1> QED
  BY <1>1, <1>7, <1>8, ButtonsMove

\* The answer of a publication.
LEMMA CommitAnsweredKeeps == ASSUME StructureInv, CommitAnswered PROVE StructureInv'
<1> DEFINE tree == pageServer.tickets[controls.ticket].tree
<1>1. /\ StructureTypeOK /\ controls.step = "answered" /\ controls.kind = "commit"
      /\ UNCHANGED <<pageServer, saving, recovery>> /\ controls \in Controls
      /\ controls' = Finished(controls) /\ structure \in Structure
  BY StructureTypes DEF StructureInv, CommitAnswered
<1>2. tree \in Trees
  BY <1>1, StructureTypes DEF StructureInv, ButtonsStand, IsTicket, Ticket
<1>3. structure' = structure \/ structure' = [structure EXCEPT !.hash = tree]
  BY DEF CommitAnswered
<1> HIDE DEF tree
<1>4. /\ structure' \in Structure /\ structure'.session = structure.session
      /\ structure'.tree = structure.tree /\ structure'.epoch = structure.epoch
      /\ structure'.token = structure.token /\ structure'.latestLock = structure.latestLock
      /\ structure'.dirty = structure.dirty
      /\ structure'.recovering = structure.recovering
  BY <1>1, <1>2, <1>3 DEF Structure
<1>5. /\ controls' \in Controls /\ controls'.step = "idle" /\ controls'.used = controls.used
      /\ controls'.prepared = controls.prepared /\ controls'.preparedAt = controls.preparedAt
      /\ controls'.preview = controls.preview /\ controls'.previewAt = controls.previewAt
  BY <1>1, FinishedIsIdle
<1>6. ButtonsStand' /\ DialogStands'
  BY <1>1, <1>4, <1>5 DEF StructureInv, ButtonsStand, DialogStands, IsTicket
<1>7. TicketsStand' /\ HostStands' /\ SaveStands' /\ RestoreStands'
  BY <1>1, <1>4 DEF StructureInv, TicketsStand, HostStands, SaveStands, RestoreStands, KnownVersion
<1> QED
  BY <1>1, <1>4, <1>5, <1>6, <1>7 DEF StructureInv, StructureTypeOK

\* The revisions are asked for.
LEMMA ListRevisionsKeeps == ASSUME StructureInv, ListRevisions PROVE StructureInv'
<1>1. /\ StructureTypeOK /\ UNCHANGED <<pageServer, structure, saving, controls>>
      /\ recovery.at = "none" /\ recovery' = [recovery EXCEPT !.at = "listing"]
      /\ recovery \in Recovery
  BY StructureTypes DEF StructureInv, ListRevisions, MayList
<1>2. recovery' \in Recovery /\ recovery'.at = "listing" /\ recovery'.wanted = recovery.wanted
  BY <1>1 DEF Recovery
<1>3. RestoreStands'
  BY <1>1, <1>2 DEF StructureInv, RestoreStands
<1> QED
  BY <1>1, <1>2, <1>3 DEF StructureInv, StructureTypeOK, TicketsStand, HostStands, SaveStands,
     ButtonsStand, DialogStands, KnownVersion, IsTicket

\* The list of revisions arrives.
LEMMA ListAnsweredKeeps == ASSUME StructureInv, ListAnswered PROVE StructureInv'
<1>1. /\ StructureTypeOK /\ UNCHANGED <<pageServer, structure, saving, controls>>
      /\ recovery.at = "listing" /\ recovery' = NoRecovery /\ 0 \in Versions
  BY StructureTypes DEF StructureInv, ListAnswered
<1>2. recovery' \in Recovery /\ recovery'.at = "none" /\ recovery'.wanted
  BY <1>1 DEF NoRecovery, Recovery
<1>3. RestoreStands'
  BY <1>1, <1>2 DEF StructureInv, RestoreStands
<1> QED
  BY <1>1, <1>2, <1>3 DEF StructureInv, StructureTypeOK, TicketsStand, HostStands, SaveStands,
     ButtonsStand, DialogStands, KnownVersion, IsTicket

\* A revision is chosen: the editor becomes readonly.
LEMMA RestoreRevisionKeeps ==
  ASSUME StructureInv, NEW source \in Trees, RestoreRevision(source)
  PROVE  StructureInv'
<1> DEFINE n == AfterChange(controls, structure.epoch, TRUE)
<1>1. /\ StructureTypeOK /\ UNCHANGED <<pageServer, saving>> /\ 0 \in Versions
      /\ structure \in Structure /\ controls \in Controls /\ NoTree \notin Trees
      /\ structure.session # 0 /\ structure.epoch \in Epochs
      /\ structure.latestLock \in Versions /\ structure.hash \in Trees \cup {NoTree}
  BY StructureTypes DEF StructureInv, RestoreRevision, MayRestore, TreeLoaded, Structure
<1>2. /\ recovery' \in Recovery /\ recovery'.at = "source" /\ recovery'.source = source
      /\ recovery'.expected = structure.latestLock /\ recovery'.answer = 0 /\ recovery'.wanted
  BY <1>1 DEF RestoreRevision, NoRecovery, Recovery
<1>3. /\ structure' \in Structure /\ structure'.recovering
      /\ structure'.session = structure.session
      /\ structure'.tree = structure.tree /\ structure'.epoch = structure.epoch
      /\ structure'.token = structure.token /\ structure'.latestLock = structure.latestLock
      /\ structure'.dirty = structure.dirty
  BY <1>1 DEF RestoreRevision, Structure
<1>4. controls' = n
  BY DEF RestoreRevision
<1>5. /\ n \in Controls
      /\ n.step = controls.step /\ n.kind = controls.kind /\ n.epoch = controls.epoch
      /\ n.version = controls.version /\ n.ok = controls.ok /\ n.ticket = controls.ticket
      /\ n.confirmed = controls.confirmed /\ n.used = controls.used
      /\ n.preparedAt = controls.preparedAt /\ n.previewAt = controls.previewAt
      /\ n.prepared \in {0, controls.prepared} /\ n.preview \in {NoTree, controls.preview}
  BY <1>1, ChangeClosesDialog
<1> HIDE DEF n
<1>6. ButtonsStand'
  BY <1>1, <1>3, <1>4, <1>5 DEF StructureInv, ButtonsStand, IsTicket
<1>7. DialogStands'
  BY <1>1, <1>3, <1>4, <1>5 DEF StructureInv, DialogStands, IsTicket
<1>8. TicketsStand' /\ HostStands' /\ SaveStands' /\ RestoreStands'
  BY <1>1, <1>2, <1>3 DEF StructureInv, TicketsStand, HostStands, SaveStands, RestoreStands,
     KnownVersion
<1> QED
  BY <1>1, <1>2, <1>3, <1>4, <1>5, <1>6, <1>7, <1>8 DEF StructureInv, StructureTypeOK

\* A restoring that ends without the new resource.
LEMMA EndedKeeps ==
  ASSUME StructureInv, RecoveryEnded, UNCHANGED <<pageServer, saving, controls>>,
         recovery.at \in {"source", "sent", "answered"}
  PROVE  StructureInv'
<1>1. /\ StructureTypeOK /\ structure \in Structure /\ 0 \in Versions /\ recovery.wanted
      /\ structure' = [structure EXCEPT !.recovering = FALSE]
  BY StructureTypes DEF StructureInv, RecoveryEnded, RestoreStands, Structure
<1>2. recovery' \in Recovery /\ recovery'.at = "none" /\ recovery'.wanted
  BY <1>1 DEF RecoveryEnded, NoRecovery, Recovery
<1>3. /\ structure' \in Structure /\ ~structure'.recovering
      /\ structure'.session = structure.session
      /\ structure'.tree = structure.tree /\ structure'.epoch = structure.epoch
      /\ structure'.token = structure.token /\ structure'.latestLock = structure.latestLock
      /\ structure'.dirty = structure.dirty
  BY <1>1 DEF Structure
<1>4. TicketsStand' /\ HostStands' /\ SaveStands' /\ RestoreStands'
  BY <1>2, <1>3 DEF StructureInv, TicketsStand, HostStands, SaveStands, RestoreStands, KnownVersion
<1>5. ButtonsStand' /\ DialogStands'
  BY <1>3 DEF StructureInv, ButtonsStand, DialogStands, IsTicket
<1> QED
  BY <1>1, <1>2, <1>3, <1>4, <1>5 DEF StructureInv, StructureTypeOK

\* The source of the revision was read.
LEMMA SourceReadKeeps == ASSUME StructureInv, SourceRead PROVE StructureInv'
<1>1. /\ StructureTypeOK /\ recovery.at = "source" /\ recovery \in Recovery
      /\ UNCHANGED <<pageServer, saving, controls>>
  BY StructureTypes DEF StructureInv, SourceRead
<1>2. CASE RecoveryEnded
  BY <1>1, <1>2, EndedKeeps
<1>3. CASE recovery' = [recovery EXCEPT !.at = "sent"] /\ UNCHANGED structure
  <2>1. /\ recovery' \in Recovery /\ recovery'.at = "sent" /\ recovery'.wanted = recovery.wanted
        /\ recovery'.expected = recovery.expected /\ recovery'.source = recovery.source
        /\ recovery'.answer = recovery.answer
    BY <1>1, <1>3 DEF Recovery
  <2>2. RestoreStands'
    BY <1>1, <1>3, <2>1 DEF StructureInv, RestoreStands
  <2> QED
    BY <1>1, <1>3, <2>1, <2>2 DEF StructureInv, StructureTypeOK, TicketsStand, HostStands,
       SaveStands, ButtonsStand, DialogStands, KnownVersion, IsTicket
<1> QED
  BY <1>2, <1>3 DEF SourceRead

\* The server writes the revision as the draft.
LEMMA HandleRestoreKeeps == ASSUME StructureInv, HandleRestore PROVE StructureInv'
<1>1. /\ StructureTypeOK /\ recovery.at = "sent" /\ UNCHANGED <<structure, saving, controls>>
      /\ recovery \in Recovery /\ recovery.source \in Trees /\ recovery.answer = 0
      /\ recovery.wanted
  BY StructureTypes DEF StructureInv, HandleRestore, RestoreStands
<1>2. ASSUME Accepts(recovery.expected), pageServer' = Written(recovery.source),
             NEW lost \in BOOLEAN,
             recovery' = [recovery EXCEPT !.at = "answered",
                             !.answer = IF lost THEN 0 ELSE pageServer'.version,
                             !.live = pageServer.live]
      PROVE  StructureInv'
  <2> DEFINE answer == IF lost THEN 0 ELSE pageServer'.version
  <2>1. /\ pageServer' \in PageServer /\ pageServer'.version = pageServer.version + 1
        /\ pageServer'.tickets = pageServer.tickets /\ pageServer'.draft = recovery.source
        /\ pageServer'.own
    BY <1>1, <1>2, DraftOfPageIsWritten
  <2>2. answer \in Versions /\ (answer # 0 => answer = pageServer'.version)
    BY <1>1, <2>1, StructureTypes DEF PageServer
  <2>3. recovery' = [recovery EXCEPT !.at = "answered", !.answer = answer,
                                     !.live = pageServer.live]
    BY <1>2
  <2> HIDE DEF answer
  <2>4. /\ recovery' \in Recovery /\ recovery'.at = "answered" /\ recovery'.answer = answer
        /\ recovery'.source = recovery.source /\ recovery'.expected = recovery.expected
        /\ recovery'.wanted = recovery.wanted
    BY <1>1, <2>2, <2>3, StructureTypes DEF PageServer, Recovery
  <2>5. TicketsStand' /\ HostStands' /\ ButtonsStand' /\ DialogStands'
    BY <1>1, <2>1, ServerMovesOn
  <2>6. SaveStands'
    BY <1>1, <2>1, StructureTypes, KnownStays DEF StructureInv, SaveStands, KnownVersion
  <2>7. RestoreStands'
    BY <1>1, <2>2, <2>1, <2>4, StructureTypes DEF StructureInv, RestoreStands, KnownVersion
  <2> QED
    BY <1>1, <2>1, <2>4, <2>5, <2>6, <2>7 DEF StructureInv, StructureTypeOK
<1>3. CASE recovery' = [recovery EXCEPT !.at = "answered"] /\ UNCHANGED pageServer
  <2>1. /\ recovery' \in Recovery /\ recovery'.at = "answered" /\ recovery'.answer = 0
        /\ recovery'.source = recovery.source /\ recovery'.expected = recovery.expected
        /\ recovery'.wanted = recovery.wanted
    BY <1>1, <1>3 DEF Recovery
  <2>2. RestoreStands'
    BY <1>1, <1>3, <2>1 DEF StructureInv, RestoreStands
  <2> QED
    BY <1>1, <1>3, <2>1, <2>2 DEF StructureInv, StructureTypeOK, TicketsStand, HostStands,
       SaveStands, ButtonsStand, DialogStands, KnownVersion, IsTicket
<1> QED
  BY <1>2, <1>3 DEF HandleRestore

\* The answer of a restoring: the restored draft is mounted, or nothing happens.
LEMMA RestoreAnsweredKeeps == ASSUME StructureInv, RestoreAnswered PROVE StructureInv'
<1>1. /\ StructureTypeOK /\ recovery.at = "answered" /\ UNCHANGED pageServer
      /\ recovery \in Recovery /\ pageServer \in PageServer /\ 0 \in Versions
  BY StructureTypes DEF StructureInv, RestoreAnswered
<1>2. CASE RecoveryEnded /\ UNCHANGED <<saving, controls>>
  BY <1>1, <1>2, EndedKeeps
<1>3. CASE /\ recovery.answer # 0
           /\ SessionMounted(recovery.answer, recovery.source, recovery.hash)
           /\ recovery' = NoRecovery
  BY <1>1, <1>3, MountKeeps DEF StructureInv, RestoreStands, Recovery, KnownVersion, NoRecovery
<1> QED
  BY <1>2, <1>3 DEF RestoreAnswered

\* Every step of the structure editor keeps it sound.
LEMMA StructureStep ==
  ASSUME StructureInv, StructureNext \/ UNCHANGED structureVars
  PROVE  StructureInv'
<1>1. CASE UNCHANGED structureVars
  BY <1>1 DEF structureVars, StructureInv, StructureTypeOK, TicketsStand, HostStands, SaveStands,
     RestoreStands, ButtonsStand, DialogStands, KnownVersion, IsTicket
<1>2. CASE LoadPage
  BY <1>2, LoadPageKeeps
<1>3. ASSUME NEW t \in Trees, ChangeTree(t) \/ RestoreRevision(t) \/ OtherSaves(t)
      PROVE  StructureInv'
  BY <1>3, ChangeKeeps, RestoreRevisionKeeps, OtherKeepsPage
<1>4. CASE SaveButtonV3 \/ RunWithSave("preview") \/ RunWithSave("prepare")
  BY <1>4, SaveButtonKeeps, RunKeeps
<1>5. CASE RunCommit \/ CancelDialog \/ ListRevisions
  BY <1>5, CommitKeeps, CancelDialogKeeps, ListRevisionsKeeps
<1>6. CASE StructureHandlers
  BY <1>6, HandleSaveKeeps, HandlePreviewKeeps, HandlePrepareKeeps, HandleCommitKeeps,
     HandleRestoreKeeps DEF StructureHandlers
<1>7. CASE StructureAnswers
  BY <1>7, SaveAnsweredKeeps, PreviewAnsweredKeeps, PrepareAnsweredKeeps, CommitAnsweredKeeps,
     ListAnsweredKeeps, SourceReadKeeps, RestoreAnsweredKeeps DEF StructureAnswers
<1>8. CASE OtherPublishes
  BY <1>8, OtherPublishesKeeps
<1> QED
  BY <1>1, <1>2, <1>3, <1>4, <1>5, <1>6, <1>7, <1>8 DEF StructureNext

\* What is not dirty is stored, and what is offered is of the screen.
LEMMA ScreenIsStored ==
  ASSUME StructureInv
  PROVE  CleanMeansStored /\ OffersTheScreen
BY DEF StructureInv, HostStands, DialogStands, KnownVersion, CleanMeansStored, OffersTheScreen,
   TreeLoaded

\* Who mounts an editor leaves the buttons idle.
LEMMA MountedIsIdle ==
  ASSUME NEW version, NEW tree, NEW hash, SessionMounted(version, tree, hash)
  PROVE  controls'.step = "idle"
BY DEF SessionMounted, NoControls

\* A write of this page replaces only what the page loaded or wrote.
LEMMA OthersDraftIsKept ==
  ASSUME StructureInv, StructureNext
  PROVE  pageServer'.version # pageServer.version /\ pageServer'.own => pageServer.own
<1>1. StructureTypeOK /\ pageServer \in PageServer
  BY StructureTypes DEF StructureInv
<1>2. CASE LoadPage
  BY <1>1, <1>2 DEF LoadPage, PageServer
<1>3. ASSUME NEW t \in Trees, OtherSaves(t)
      PROVE  ~pageServer'.own
  BY <1>1, <1>3 DEF OtherSaves, PageServer
<1>4. CASE HandleSave
  BY <1>4 DEF StructureInv, HandleSave, SaveStands, HostStands, Accepts
<1>5. CASE HandleRestore
  BY <1>5 DEF StructureInv, HandleRestore, RestoreStands, HostStands, Accepts
<1>6. CASE HandlePreview \/ HandlePrepare \/ HandleCommit \/ OtherPublishes
  BY <1>1, <1>6 DEF HandlePreview, HandlePrepare, HandleCommit, OtherPublishes, PageServer
<1>7. ASSUME NEW t \in Trees, ChangeTree(t) \/ RestoreRevision(t)
      PROVE  UNCHANGED pageServer
  BY <1>7 DEF ChangeTree, RestoreRevision
<1>8. CASE \/ SaveButtonV3 \/ RunWithSave("preview") \/ RunWithSave("prepare")
           \/ RunCommit \/ CancelDialog \/ ListRevisions \/ StructureAnswers
  BY <1>8 DEF SaveButtonV3, RunWithSave, RunCommit, CancelDialog, ListRevisions, StructureAnswers,
     SaveAnsweredV3, PreviewAnsweredV3, PrepareAnswered, CommitAnswered, ListAnswered, SourceRead,
     RestoreAnswered
<1> QED
  BY <1>2, <1>3, <1>4, <1>5, <1>6, <1>7, <1>8 DEF StructureNext, StructureHandlers

\* What becomes public is what was on the screen when it was confirmed.
LEMMA PublishesTheDialog ==
  ASSUME StructureInv, StructureNext
  PROVE  pageServer'.live # pageServer.live /\ controls'.step # controls.step
             => pageServer'.live = controls.confirmed
<1>1. StructureTypeOK /\ pageServer \in PageServer
  BY StructureTypes DEF StructureInv
<1>2. CASE LoadPage
  BY <1>1, <1>2 DEF LoadPage, PageServer
<1>3. ASSUME NEW t \in Trees, OtherSaves(t) \/ ChangeTree(t) \/ RestoreRevision(t)
      PROVE  pageServer'.live = pageServer.live
  BY <1>1, <1>3 DEF OtherSaves, ChangeTree, RestoreRevision, PageServer
<1>4. CASE HandleSave \/ HandleRestore \/ HandlePreview \/ HandlePrepare
  BY <1>1, <1>4 DEF HandleSave, HandleRestore, HandlePreview, HandlePrepare, Written, PageServer
<1>5. CASE HandleCommit
  BY <1>1, <1>5 DEF StructureInv, ButtonsStand, HandleCommit, PageServer
<1>6. CASE OtherPublishes
  BY <1>6 DEF OtherPublishes
<1>7. CASE \/ SaveButtonV3 \/ RunWithSave("preview") \/ RunWithSave("prepare")
           \/ RunCommit \/ CancelDialog \/ ListRevisions \/ StructureAnswers
  BY <1>7 DEF SaveButtonV3, RunWithSave, RunCommit, CancelDialog, ListRevisions, StructureAnswers,
     SaveAnsweredV3, PreviewAnsweredV3, PrepareAnswered, CommitAnswered, ListAnswered, SourceRead,
     RestoreAnswered
<1> QED
  BY <1>2, <1>3, <1>4, <1>5, <1>6, <1>7 DEF StructureNext, StructureHandlers

\* A token that is sent was never sent before.
LEMMA TokenIsFresh ==
  ASSUME StructureInv, StructureNext
  PROVE  controls.step = "idle" /\ controls'.step = "sent" /\ controls'.kind = "commit"
             => controls'.ticket \notin controls.used
<1>1. /\ StructureTypeOK /\ controls \in Controls /\ structure.epoch \in Epochs
      /\ structure \in Structure /\ NoTree \notin Trees
  BY StructureTypes DEF StructureInv, Structure
<1>2. SUFFICES ASSUME controls.step = "idle", controls'.step = "sent", controls'.kind = "commit"
               PROVE  controls'.ticket \notin controls.used
  OBVIOUS
<1>3. CASE RunCommit
  BY <1>1, <1>3 DEF StructureInv, DialogStands, RunCommit, Spent, Controls
<1>4. ASSUME NEW t \in Trees, ChangeTree(t)
      PROVE  FALSE
  <2>1. structure.epoch + 1 \in Epochs
    BY <1>1, <1>4, StructureTypes, StructureEditorAssumption DEF ChangeTree, Epochs
  <2>2. PICK e \in Epochs : e = structure.epoch + 1
    BY <2>1
  <2>3. controls' = AfterChange(controls, e, FALSE)
    BY <1>4, <2>2 DEF ChangeTree
  <2>4. controls'.step = controls.step
    BY <1>1, <2>3, ChangeClosesDialog
  <2> QED
    BY <1>2, <2>4
<1>5. ASSUME NEW t \in Trees, RestoreRevision(t)
      PROVE  FALSE
  BY <1>5, <1>1, <1>2, ChangeClosesDialog DEF RestoreRevision
<1>6. ~LoadPage
  BY <1>2, MountedIsIdle DEF LoadPage
<1>7. ~RestoreAnswered
  BY <1>2, MountedIsIdle DEF RestoreAnswered
<1>8. ~RunWithSave("preview") /\ ~RunWithSave("prepare")
  BY <1>1, <1>2 DEF RunWithSave, Controls
<1>9. ~CancelDialog
  BY <1>1, <1>2 DEF CancelDialog, Cancelled, Controls
<1>10. ~SaveAnsweredV3
  BY <1>2 DEF SaveAnsweredV3, ContinueWith
<1>11. /\ ~HandlePreview /\ ~HandlePrepare /\ ~HandleCommit
       /\ ~PreviewAnsweredV3 /\ ~PrepareAnswered /\ ~CommitAnswered
  BY <1>2 DEF HandlePreview, HandlePrepare, HandleCommit, PreviewAnsweredV3, PrepareAnswered,
     CommitAnswered
<1>12. /\ ~SaveButtonV3 /\ ~ListRevisions /\ ~ListAnswered /\ ~SourceRead
       /\ ~HandleSave /\ ~HandleRestore /\ ~OtherPublishes
  BY <1>2 DEF SaveButtonV3, ListRevisions, ListAnswered, SourceRead, HandleSave, HandleRestore,
     OtherPublishes
<1>13. ASSUME NEW t \in Trees, OtherSaves(t)
       PROVE  FALSE
  BY <1>2, <1>13 DEF OtherSaves
<1> QED
  BY <1>3, <1>4, <1>5, <1>6, <1>7, <1>8, <1>9, <1>10, <1>11, <1>12, <1>13 DEF StructureNext,
     StructureHandlers, StructureAnswers
-----------------------------------------------------------------------------
(***************************************************************************)
(* The bridge to Puck. Either the bridge follows Puck, and they differ by  *)
(* at most one accepted change, or it recovers, and holds the history that *)
(* leads back to the document.                                             *)
(***************************************************************************)

\* Before anything is refused: Puck shows the document or a change of it that was
\* accepted, its history is at what it shows, and nothing is awaited twice.
BridgeFollows ==
    /\ ~bridge.recovery.repaired /\ ~puck.foreign
    /\ puck.record = NoDocument => puck.histories[puck.index] = puck.data
    /\ puck.record # NoDocument => puck.record = puck.data
    /\ ~puck.changed => puck.data = bridge.document
    /\ puck.data # bridge.document => ~bridge.readonly /\ bridge.accepted = puck.data
    /\ puck.data = bridge.document =>
          /\ bridge.pending \in {NoDocument, bridge.document}
          /\ bridge.undoTarget \in {NoDocument, bridge.document}

\* While a change is being taken back: the history that is kept leads to the document.
BridgeRecovers ==
    /\ bridge.recovery.index \in 1 .. Len(bridge.recovery.saved)
    /\ bridge.recovery.saved[bridge.recovery.index] = bridge.document

BridgeInv ==
    /\ BridgeTypeOK
    /\ puck.index \in 1 .. Len(puck.histories)
    /\ IF bridge.recovery.on THEN BridgeRecovers ELSE BridgeFollows
-----------------------------------------------------------------------------
\* A change that is refused is held back: the bridge recovers from now on.
LEMMA FailingRecovers ==
  ASSUME puck \in Puck, NEW b \in Bridge, ~b.recovery.on
  PROVE  /\ Failing(b) \in Bridge
         /\ Failing(b).document = b.document
         /\ Failing(b).recovery.on
         /\ Failing(b).recovery.saved = puck.histories
         /\ Failing(b).recovery.index = puck.index
BY DEF Recovering, Puck, Failing, Bridge

\* What is not awaited any more.
LEMMA UnawaitedFields ==
  ASSUME NEW b \in Bridge
  PROVE  /\ Unawaited(b) \in Bridge
         /\ Unawaited(b).document = b.document
         /\ Unawaited(b).pending = NoDocument /\ Unawaited(b).accepted = NoDocument
         /\ Unawaited(b).undoTarget = NoDocument
         /\ Unawaited(b).readonly = b.readonly /\ Unawaited(b).recovery = b.recovery
BY DEF Unawaited, Bridge, Optional

\* An action of Puck is accepted, or begins a recovery, or finds one under way.
LEMMA ActionIsTaken ==
  ASSUME puck \in Puck, NEW b \in Bridge, NEW d \in Documents
  PROVE  LET n == ActionTaken(b, d)
         IN  /\ n \in Bridge /\ n.document = b.document
             /\ b.recovery.on \/ d = b.document => n = b
             /\ ~b.recovery.on /\ d # b.document /\ ~b.readonly
                /\ (d \in {b.undoTarget, b.pending} \/ <<b.document, d>> \in Approved)
                  => n = [b EXCEPT !.accepted = d]
             /\ ~b.recovery.on /\ d # b.document
                /\ (b.readonly \/ ~(d \in {b.undoTarget, b.pending} \/ <<b.document, d>> \in Approved))
                  => /\ n.recovery.on /\ n.recovery.saved = puck.histories
                     /\ n.recovery.index = puck.index
BY FailingRecovers DEF Bridge, Optional, ActionTaken

\* What Puck has after a dispatch.
LEMMA PuckDispatches ==
  ASSUME puck \in Puck, NEW d \in Documents, NEW record \in Optional, NEW foreign \in BOOLEAN,
         Dispatched(d, record, foreign)
  PROVE  /\ puck' \in Puck /\ puck'.data = d /\ puck'.changed /\ puck'.record = record
         /\ puck'.foreign = foreign /\ puck'.histories = puck.histories /\ puck'.index = puck.index
BY DEF Dispatched, Puck

\* A bridge starts at the document that Puck shows.
LEMMA BridgeStarts == BridgeInit => BridgeInv
<1> SUFFICES ASSUME NEW d \in Documents,
                    puck = [data |-> d, histories |-> <<d>>, index |-> 1,
                            changed |-> FALSE, record |-> NoDocument, foreign |-> FALSE],
                    bridge = [document |-> d, pending |-> NoDocument, accepted |-> NoDocument,
                              undoTarget |-> NoDocument, readonly |-> FALSE,
                              recovery |-> NotRecovering]
             PROVE  BridgeInv
  BY DEF BridgeInit
<1>1. <<d>> \in Seq(Documents) /\ Len(<<d>>) = 1 /\ <<d>>[1] = d
  OBVIOUS
<1>2. puck \in Puck
  BY <1>1 DEF Puck, Optional
<1>3. NotRecovering \in Recovering /\ ~NotRecovering.on /\ ~NotRecovering.repaired
  BY DEF NotRecovering, Recovering
<1>4. bridge \in Bridge
  BY <1>3 DEF Bridge, Optional
<1> QED
  BY <1>1, <1>2, <1>3, <1>4, PuckBridgeAssumption DEF BridgeInv, BridgeTypeOK, BridgeFollows

\* Before a recovery, an input finds Puck showing the document.
LEMMA InputFindsDocument ==
  ASSUME BridgeInv, Settled, ~bridge.recovery.on
  PROVE  /\ puck.data = bridge.document /\ puck.record = NoDocument
         /\ puck.histories[puck.index] = bridge.document
         /\ bridge.pending \in {NoDocument, bridge.document}
         /\ bridge.undoTarget \in {NoDocument, bridge.document}
BY DEF BridgeInv, BridgeFollows, Settled

\* commit: a command of the inspector or of the shell.
LEMMA CommandKeepsBridge ==
  ASSUME BridgeInv, NEW d \in Documents, CommitCommand(d)
  PROVE  BridgeInv'
<1> DEFINE b == [bridge EXCEPT !.pending = d]
<1>1. /\ puck \in Puck /\ bridge \in Bridge /\ ~bridge.recovery.on /\ ~bridge.readonly
      /\ d # bridge.document /\ bridge' = ActionTaken(b, d) /\ Dispatched(d, d, FALSE)
      /\ ~bridge.recovery.repaired /\ puck.index \in 1 .. Len(puck.histories)
  BY DEF CommitCommand, BridgeInv, BridgeTypeOK, BridgeFollows
<1>2. /\ b \in Bridge /\ b.document = bridge.document /\ b.recovery = bridge.recovery
      /\ b.readonly = bridge.readonly /\ b.pending = d
  BY <1>1 DEF Bridge, Optional
<1> HIDE DEF b
<1>3. bridge' = [b EXCEPT !.accepted = d] /\ bridge' \in Bridge
  BY <1>1, <1>2, ActionIsTaken
<1>4. /\ bridge'.document = bridge.document /\ bridge'.recovery = bridge.recovery
      /\ bridge'.readonly = bridge.readonly /\ bridge'.accepted = d
  BY <1>2, <1>3 DEF Bridge
<1>5. /\ puck' \in Puck /\ puck'.data = d /\ puck'.changed /\ puck'.record = d
      /\ ~puck'.foreign /\ puck'.histories = puck.histories /\ puck'.index = puck.index
  BY <1>1, PuckDispatches DEF Optional
<1> QED
  BY <1>1, <1>3, <1>4, <1>5, PuckBridgeAssumption DEF BridgeInv, BridgeTypeOK, BridgeFollows

\* An action of Puck's own, approved or not.
LEMMA VendorKeepsBridge ==
  ASSUME BridgeInv, NEW d \in Documents, VendorAction(d)
  PROVE  BridgeInv'
<1> DEFINE foreign == <<bridge.document, d>> \notin Approved \/ bridge.readonly
<1>1. PICK record \in {d, puck.record} : (record = d \/ foreign) /\ Dispatched(d, record, foreign)
  BY DEF VendorAction
<1>2. /\ puck \in Puck /\ bridge \in Bridge /\ d # puck.data /\ Settled
      /\ bridge' = ActionTaken(bridge, d)
      /\ puck.index \in 1 .. Len(puck.histories) /\ record \in Optional
  BY DEF VendorAction, BridgeInv, BridgeTypeOK, Optional, Puck
<1>3. /\ puck' \in Puck /\ puck'.data = d /\ puck'.changed /\ puck'.record = record
      /\ puck'.foreign = foreign /\ puck'.histories = puck.histories /\ puck'.index = puck.index
  BY <1>1, <1>2, PuckDispatches
<1>4. bridge' \in Bridge /\ bridge'.document = bridge.document
  BY <1>2, ActionIsTaken
<1>5. CASE bridge.recovery.on
  BY <1>2, <1>5, <1>3, ActionIsTaken DEF BridgeInv, BridgeTypeOK, BridgeRecovers
<1>6. CASE ~bridge.recovery.on /\ foreign
  BY <1>2, <1>6, <1>3, <1>4, InputFindsDocument, PuckBridgeAssumption, ActionIsTaken DEF BridgeInv,
     BridgeTypeOK, BridgeRecovers
<1>7. CASE ~bridge.recovery.on /\ ~foreign
  BY <1>2, <1>7, <1>1, <1>3, <1>4, InputFindsDocument, ActionIsTaken, PuckBridgeAssumption DEF
     BridgeInv, BridgeFollows, Bridge, BridgeTypeOK
<1> QED
  BY <1>5, <1>6, <1>7

\* undo and redo move the history and what it shows together.
LEMMA UndoKeepsBridge ==
  ASSUME BridgeInv, NEW step \in 1 .. Len(puck.histories), History(step)
  PROVE  BridgeInv'
<1> DEFINE target == puck.histories[step]
<1> DEFINE b == [bridge EXCEPT !.undoTarget = target]
<1>1. /\ puck \in Puck /\ bridge \in Bridge /\ Settled /\ ~bridge.recovery.on /\ ~bridge.readonly
      /\ bridge' = ActionTaken(b, target) /\ ~bridge.recovery.repaired
      /\ puck' = [puck EXCEPT !.data = target, !.index = step, !.changed = TRUE, !.foreign = FALSE]
  BY DEF History, BridgeInv, BridgeTypeOK, BridgeFollows
<1>2. puck.histories \in Seq(Documents) /\ Len(puck.histories) \in Nat /\ step \in Nat
  BY <1>1, LenProperties DEF Puck
<1>3. target \in Documents
  BY <1>2, ElementOfSeq
<1>4. /\ b \in Bridge /\ b.document = bridge.document /\ b.recovery = bridge.recovery
      /\ b.readonly = bridge.readonly /\ b.undoTarget = target /\ b.pending = bridge.pending
  BY <1>1, <1>3 DEF Bridge, Optional
<1>0. target = puck.histories[step]
  OBVIOUS
<1> HIDE DEF b, target
<1>5. /\ puck' \in Puck /\ puck'.data = target /\ puck'.changed /\ puck'.record = puck.record
      /\ ~puck'.foreign /\ puck'.histories = puck.histories /\ puck'.index = step
  BY <1>1, <1>2, <1>3 DEF Puck
<1>6. puck'.histories[puck'.index] = target
  BY <1>0, <1>5
<1>7. puck.record = NoDocument /\ bridge.pending \in {NoDocument, bridge.document}
  BY <1>1, InputFindsDocument
<1>8. CASE target = bridge.document
  <2>1. bridge' = b
    <3>1. target = b.document
      BY <1>4, <1>8
    <3> QED
      BY <1>1, <1>3, <1>4, <3>1, ActionIsTaken
  <2> QED
    BY <1>1, <1>3, <1>4, <1>5, <1>6, <1>7, <1>8, <2>1 DEF BridgeInv, BridgeTypeOK, BridgeFollows
<1>9. CASE target # bridge.document
  <2>1. bridge' = [b EXCEPT !.accepted = target] /\ bridge' \in Bridge
    BY <1>1, <1>3, <1>4, <1>9, ActionIsTaken
  <2>2. /\ bridge'.document = bridge.document /\ bridge'.recovery = bridge.recovery
        /\ bridge'.readonly = bridge.readonly /\ bridge'.accepted = target
    BY <1>4, <2>1 DEF Bridge
  <2> QED
    BY <1>1, <1>3, <1>5, <1>6, <1>7, <1>9, <2>1, <2>2 DEF BridgeInv, BridgeTypeOK, BridgeFollows
<1> QED
  BY <1>8, <1>9

\* onChange: the change that Puck reports is taken, or held back.
LEMMA OnChangeKeepsBridge == ASSUME BridgeInv, OnChange PROVE BridgeInv'
<1>1. /\ puck \in Puck /\ bridge \in Bridge /\ puck.changed
      /\ puck' = [puck EXCEPT !.changed = FALSE] /\ puck.index \in 1 .. Len(puck.histories)
  BY DEF OnChange, BridgeInv, BridgeTypeOK
<1>2. /\ puck' \in Puck /\ puck'.data = puck.data /\ ~puck'.changed /\ puck'.record = puck.record
      /\ puck'.foreign = puck.foreign /\ puck'.histories = puck.histories
      /\ puck'.index = puck.index /\ puck.data \in Documents
  BY <1>1 DEF Puck
<1>3. CASE bridge.recovery.on \/ puck.data = bridge.document
  BY <1>3, <1>1, <1>2 DEF OnChange, BridgeInv, BridgeTypeOK, BridgeRecovers, BridgeFollows
<1>4. CASE ~(bridge.recovery.on \/ puck.data = bridge.document)
  BY <1>4, <1>1, <1>2, UnawaitedFields DEF BridgeInv, BridgeFollows, OnChange, IsApproved, Bridge,
     BridgeTypeOK
<1> QED
  BY <1>3, <1>4

\* The effect that gives Puck its document back.
LEMMA RepairKeepsBridge == ASSUME BridgeInv, Repair PROVE BridgeInv'
<1>1. /\ puck \in Puck /\ bridge \in Bridge /\ bridge.recovery.on /\ BridgeRecovers
      /\ puck.index \in 1 .. Len(puck.histories)
  BY DEF Repair, BridgeInv, BridgeTypeOK
<1> DEFINE done == [bridge.recovery EXCEPT !.repaired = TRUE]
<1>2. bridge.recovery \in Recovering /\ bridge.document \in Documents
  BY <1>1 DEF Bridge
<1>3. /\ done \in Recovering /\ done.on = bridge.recovery.on /\ done.saved = bridge.recovery.saved
      /\ done.index = bridge.recovery.index
  BY <1>2 DEF Recovering
<1>4. bridge' = [bridge EXCEPT !.recovery = done]
  BY <1>1 DEF Repair
<1> HIDE DEF done
<1>5. bridge' \in Bridge /\ bridge'.document = bridge.document /\ bridge'.recovery = done
  BY <1>1, <1>3, <1>4 DEF Bridge
<1>6. puck' \in Puck /\ puck'.histories = puck.histories /\ puck'.index = puck.index
  BY <1>1, <1>2 DEF Repair, RepairedRecord, Puck, Optional
<1> QED
  BY <1>1, <1>3, <1>5, <1>6 DEF BridgeInv, BridgeTypeOK, BridgeRecovers

\* The new entry is the current one.
LEMMA RecordedIsCurrent ==
  ASSUME puck \in Puck, puck.record # NoDocument, puck.index \in 1 .. Len(puck.histories)
  PROVE  /\ Recorded \in Seq(Documents) /\ Len(Recorded) \in 1 .. Len(Recorded)
         /\ Recorded[Len(Recorded)] = puck.record
<1> DEFINE kept == SubSeq(puck.histories, 1, puck.index)
<1>1. /\ puck.histories \in Seq(Documents) /\ puck.index \in Nat /\ puck.record \in Documents
  BY DEF Puck, Optional
<1>2. /\ puck.index \in Int /\ 1 \in Int
      /\ \A i \in 1 .. puck.index : puck.histories[i] \in Documents
  BY <1>1, ElementOfSeq, LenProperties
<1>3. kept \in Seq(Documents) /\ Len(kept) = puck.index
  BY <1>2, SubSeqProperties
<1>4. /\ Append(kept, puck.record) \in Seq(Documents)
      /\ Len(Append(kept, puck.record)) = Len(kept) + 1
      /\ Append(kept, puck.record)[Len(kept) + 1] = puck.record
  BY <1>1, <1>3, AppendProperties
<1>5. Recorded = Append(kept, puck.record)
  BY DEF Recorded
<1> QED
  BY <1>1, <1>3, <1>4, <1>5

\* The history records what Puck shows, or the bridge leaves its recovery.
LEMMA RecordKeepsBridge == ASSUME BridgeInv, RecordHistory PROVE BridgeInv'
<1>1. /\ puck \in Puck /\ bridge \in Bridge /\ puck.record # NoDocument
      /\ puck.index \in 1 .. Len(puck.histories)
  BY DEF RecordHistory, BridgeInv, BridgeTypeOK
<1>2. CASE bridge.recovery.on
  <2> DEFINE b == [bridge EXCEPT !.recovery = NotRecovering]
  <2>1. NotRecovering \in Recovering /\ ~NotRecovering.on /\ ~NotRecovering.repaired
    BY DEF NotRecovering, Recovering
  <2>2. b \in Bridge /\ b.document = bridge.document /\ b.recovery = NotRecovering
    BY <1>1, <2>1 DEF Bridge
  <2>3. bridge' = Unawaited(b)
    BY <1>2 DEF RecordHistory
  <2> HIDE DEF b
  <2>4. /\ bridge' \in Bridge /\ bridge'.document = bridge.document
        /\ bridge'.pending = NoDocument /\ bridge'.undoTarget = NoDocument
        /\ bridge'.recovery = NotRecovering
    BY <2>2, <2>3, UnawaitedFields
  <2>5. /\ bridge.recovery \in Recovering /\ bridge.document \in Documents /\ BridgeRecovers
    BY <1>1, <1>2 DEF Bridge, BridgeInv
  <2>6. /\ puck' \in Puck /\ puck'.histories = bridge.recovery.saved
        /\ puck'.index = bridge.recovery.index /\ puck'.record = NoDocument
        /\ puck'.data = bridge.document /\ puck'.changed /\ ~puck'.foreign
    BY <1>1, <1>2, <2>5 DEF RecordHistory, Puck, Optional, Recovering
  <2> QED
    BY <2>1, <2>4, <2>5, <2>6 DEF BridgeInv, BridgeTypeOK, BridgeRecovers, BridgeFollows
<1>3. CASE ~bridge.recovery.on
  <2>1. /\ bridge' = bridge
        /\ puck' = [puck EXCEPT !.histories = Recorded, !.index = Len(Recorded), !.record = NoDocument]
    BY <1>3 DEF RecordHistory
  <2>2. /\ Recorded \in Seq(Documents) /\ Len(Recorded) \in 1 .. Len(Recorded)
        /\ Recorded[Len(Recorded)] = puck.record /\ Len(Recorded) \in Nat
    BY <1>1, RecordedIsCurrent
  <2>3. /\ puck' \in Puck /\ puck'.histories = Recorded /\ puck'.index = Len(Recorded)
        /\ puck'.record = NoDocument /\ puck'.data = puck.data /\ puck'.changed = puck.changed
        /\ puck'.foreign = puck.foreign
    BY <1>1, <2>1, <2>2 DEF Puck, Optional
  <2>4. puck.record = puck.data
    BY <1>1, <1>3 DEF BridgeInv, BridgeFollows
  <2> QED
    BY <1>1, <1>3, <2>1, <2>2, <2>3, <2>4 DEF BridgeInv, BridgeTypeOK, BridgeFollows
<1> QED
  BY <1>2, <1>3

\* The host makes the editor readonly, or writable again.
LEMMA ToggleKeepsBridge == ASSUME BridgeInv, ToggleReadonly PROVE BridgeInv'
BY DEF ToggleReadonly, BridgeInv, BridgeTypeOK, Bridge, BridgeRecovers, BridgeFollows

\* Every step of Puck and its bridge keeps what the bridge promises.
LEMMA BridgeStep == BridgeInv /\ [BridgeNext]_bridgeVars => BridgeInv'
<1> SUFFICES ASSUME BridgeInv, [BridgeNext]_bridgeVars
             PROVE  BridgeInv'
  OBVIOUS
<1>1. CASE UNCHANGED bridgeVars
  BY <1>1 DEF bridgeVars, BridgeInv, BridgeTypeOK, BridgeRecovers, BridgeFollows
<1>2. ASSUME Undo \/ Redo PROVE BridgeInv'
  <2>1. puck.index \in 1 .. Len(puck.histories) /\ Len(puck.histories) \in Nat /\ puck \in Puck
    BY DEF BridgeInv, BridgeTypeOK, Puck
  <2>2. \E step \in 1 .. Len(puck.histories) : History(step)
    <3>1. CASE Undo
      BY <2>1, <3>1 DEF Undo
    <3>2. CASE Redo
      BY <2>1, <3>2 DEF Redo
    <3> QED
      BY <1>2, <3>1, <3>2
  <2> QED
    BY <2>2, UndoKeepsBridge
<1> QED
  BY <1>1, <1>2, CommandKeepsBridge, VendorKeepsBridge, OnChangeKeepsBridge, RepairKeepsBridge,
     RecordKeepsBridge, ToggleKeepsBridge DEF BridgeNext

\* When nothing is outstanding, Puck and its history are at the document.
LEMMA BridgeIsCanvas == BridgeInv => CanvasShowsDocument /\ HistoryNamesDocument
BY DEF BridgeInv, BridgeFollows, CanvasShowsDocument, HistoryNamesDocument, Quiet

\* A change of Puck's own that is not allowed never becomes the document.
LEMMA ForeignStaysOut ==
  ASSUME BridgeInv, [BridgeNext]_bridgeVars, bridge'.document # bridge.document
  PROVE  ~puck.foreign
<1>1. puck \in Puck /\ bridge \in Bridge
  BY DEF BridgeInv, BridgeTypeOK
<1>2. ASSUME puck.foreign PROVE FALSE
  <2>1. bridge.recovery.on
    BY <1>2 DEF BridgeInv, BridgeFollows
  <2>2. CASE \E d \in Documents : VendorAction(d)
    BY <1>1, <2>1, <2>2, ActionIsTaken DEF VendorAction
  <2>3. CASE RecordHistory
    <3> DEFINE b == [bridge EXCEPT !.recovery = NotRecovering]
    <3>1. NotRecovering \in Recovering
      BY DEF NotRecovering, Recovering
    <3>2. b \in Bridge /\ b.document = bridge.document
      BY <1>1, <3>1 DEF Bridge
    <3>3. bridge' = Unawaited(b)
      BY <2>1, <2>3 DEF RecordHistory
    <3> HIDE DEF b
    <3> QED
      BY <3>2, <3>3, UnawaitedFields
  <2>4. CASE Repair
    BY <1>1, <2>4 DEF Repair, Bridge
  <2>5. CASE ToggleReadonly
    BY <1>1, <2>5 DEF ToggleReadonly, Bridge
  <2>6. CASE OnChange
    BY <2>1, <2>6 DEF OnChange
  <2>7. ASSUME NEW d \in Documents, CommitCommand(d) PROVE FALSE
    BY <2>1, <2>7 DEF CommitCommand
  <2>8. CASE Undo \/ Redo
    BY <2>1, <2>8 DEF Undo, Redo, History
  <2> QED
    BY <2>2, <2>3, <2>4, <2>5, <2>6, <2>7, <2>8 DEF BridgeNext, bridgeVars
<1> QED
  BY <1>2
-----------------------------------------------------------------------------
(***************************************************************************)
(* The media panels. A call is dated by the counter of its panel and the   *)
(* epoch of the document; a wish that was overtaken is older than one of   *)
(* them.                                                                   *)
(***************************************************************************)

\* A call is no newer than its panel and the page, and one that was overtaken is
\* older than one of them, or its panel is gone.
CallIsSound(c) ==
    /\ c.token <= panel[c.panel].sequence /\ c.epoch <= canvas.epoch
    /\ c.overtaken => \/ ~c.mine
                      \/ c.token < panel[c.panel].sequence
                      \/ c.epoch < canvas.epoch

MediaInv == MediaTypeOK /\ (\A c \in calls : CallIsSound(c)) /\ UploadFlagIsFreed
-----------------------------------------------------------------------------
\* A call that is marked is the call it was.
SameCall(n, o) == /\ n \in Call /\ n.panel = o.panel /\ n.kind = o.kind
                  /\ n.token = o.token /\ n.epoch = o.epoch

\* Calls that are marked as overtaken are the calls that they were.
LEMMA OvertakenCalls ==
  ASSUME NEW cs \in SUBSET Call
  PROVE  /\ \A n \in Overtaken(cs) : \E o \in cs : SameCall(n, o) /\ n.mine = o.mine
         /\ \A o \in cs : \E n \in Overtaken(cs) : SameCall(n, o) /\ n.mine = o.mine
<1>1. ASSUME NEW o \in cs
      PROVE  SameCall([o EXCEPT !.overtaken = TRUE], o) /\ [o EXCEPT !.overtaken = TRUE].mine = o.mine
  BY DEF SameCall, Call
<1> QED
  BY <1>1 DEF Overtaken

\* Calls of a panel that was left are the calls that they were.
LEMMA CallsAreAbandoned ==
  ASSUME NEW cs \in SUBSET Call
  PROVE  \A n \in CallsAbandoned(cs) : \E o \in cs : SameCall(n, o) /\ ~n.mine
BY DEF SameCall, Call, CallsAbandoned

\* What each end of a panel's work leaves of the panel.
LEMMA PanelFields ==
  ASSUME MediaTypeOK, NEW p \in Panels
  PROVE  /\ MoreRequests => PanelClosed(p) \in Panel /\ CancelledSession(p) \in Panel
         /\ PanelClosed(p).sequence = panel[p].sequence + 1 /\ ~PanelClosed(p).uploading
         /\ CancelledSession(p).sequence = panel[p].sequence + 1
         /\ CancelledSession(p).uploading = panel[p].uploading
         /\ MoreRequests => Remounted(p) \in Panel
         /\ Remounted(p).sequence = panel[p].sequence + 1 /\ ~Remounted(p).uploading
<1>1. panel[p] \in Panel /\ MaxRequests \in Nat
  BY MediaAssumption DEF MediaTypeOK
<1>2. MoreRequests => panel[p].sequence + 1 \in 0 .. MaxRequests
  BY <1>1 DEF MoreRequests, Panel
<1>3. /\ MoreRequests => PanelClosed(p) \in Panel
      /\ PanelClosed(p).sequence = panel[p].sequence + 1 /\ ~PanelClosed(p).uploading
      /\ PanelClosed(p) = [panel[p] EXCEPT !.open = FALSE, !.uploading = FALSE, !.busy = FALSE,
                              !.sequence = @ + 1]
  BY <1>1, <1>2 DEF PanelClosed, Panel
<1>4. /\ MoreRequests => CancelledSession(p) \in Panel
      /\ CancelledSession(p).sequence = panel[p].sequence + 1
      /\ CancelledSession(p).uploading = panel[p].uploading
  BY <1>1, <1>2 DEF CancelledSession, Panel
<1>5. /\ MoreRequests => Remounted(p) \in Panel
      /\ Remounted(p).sequence = panel[p].sequence + 1 /\ ~Remounted(p).uploading
  BY <1>1, <1>2, <1>3 DEF Remounted, Panel
<1> QED
  BY <1>3, <1>4, <1>5

\* What a request makes of its panel, and its end.
LEMMA PanelWorks ==
  ASSUME MediaTypeOK, NEW p \in Panels, NEW kind \in {"list", "upload"}
  PROVE  /\ MoreRequests => PanelStarted(p, kind) \in Panel
         /\ PanelStarted(p, kind).sequence = panel[p].sequence + 1
         /\ PanelStarted(p, kind).uploading = (panel[p].uploading \/ (kind = "upload" /\ p = "replace"))
         /\ \A c : /\ Ended(p, c) \in Panel /\ Ended(p, c).sequence = panel[p].sequence
                   /\ Ended(p, c).uploading = (panel[p].uploading /\ c.kind # "upload")
<1>1. panel[p] \in Panel /\ MaxRequests \in Nat
  BY MediaAssumption DEF MediaTypeOK
<1>2. MoreRequests => panel[p].sequence + 1 \in 0 .. MaxRequests
  BY <1>1 DEF MoreRequests, Panel
<1>3. /\ MoreRequests => PanelStarted(p, kind) \in Panel
      /\ PanelStarted(p, kind).sequence = panel[p].sequence + 1
      /\ PanelStarted(p, kind).uploading = (panel[p].uploading \/ (kind = "upload" /\ p = "replace"))
  BY <1>1, <1>2 DEF PanelStarted, Panel
<1>4. ASSUME NEW c
      PROVE  /\ Ended(p, c) \in Panel /\ Ended(p, c).sequence = panel[p].sequence
             /\ Ended(p, c).uploading = (panel[p].uploading /\ c.kind # "upload")
  BY <1>1 DEF Ended, Panel
<1> QED
  BY <1>3, <1>4

\* One panel changes.
LEMMA PanelChanges ==
  ASSUME MediaTypeOK, NEW p \in Panels, NEW q \in Panel, panel' = [panel EXCEPT ![p] = q]
  PROVE  /\ panel' \in [Panels -> Panel] /\ panel'[p] = q
         /\ \A other \in Panels \ {p} : panel'[other] = panel[other]
BY DEF MediaTypeOK

\* A call of after is one of before, or it is asked now.
CallGoesOn(n, o) ==
    /\ SameCall(n, o)
    /\ n.mine => o.mine
    /\ n.overtaken => \/ n = o \/ ~n.mine
                      \/ panel[o.panel].sequence < panel'[o.panel].sequence
                      \/ canvas.epoch < canvas'.epoch

CallIsNew(n) == /\ n \in Call /\ ~n.overtaken
                /\ n.token = panel'[n.panel].sequence /\ n.epoch = canvas'.epoch

\* Calls that go on, and new ones, are sound when the counters only grow.
LEMMA CallsStaySound ==
  ASSUME MediaInv, canvas' \in Canvas, panel' \in [Panels -> Panel],
         canvas.epoch <= canvas'.epoch,
         \A p \in Panels : panel[p].sequence <= panel'[p].sequence,
         \A n \in calls' : (\E o \in calls : CallGoesOn(n, o)) \/ CallIsNew(n)
  PROVE  MediaTypeOK' /\ \A c \in calls' : CallIsSound(c)'
<1>1. calls' \subseteq Call
  BY DEF CallGoesOn, SameCall, CallIsNew
<1>2. ASSUME NEW n \in calls' PROVE CallIsSound(n)'
  <2>1. n \in Call /\ n.panel \in Panels /\ n.token \in Nat /\ n.epoch \in Nat
    BY <1>1 DEF Call
  <2>2. /\ panel'[n.panel].sequence \in Nat /\ panel[n.panel].sequence \in Nat
        /\ canvas'.epoch \in Nat /\ canvas.epoch \in Nat
    BY <2>1, MediaAssumption DEF MediaInv, MediaTypeOK, Panel, Canvas
  <2>3. CASE CallIsNew(n)
    BY <2>1, <2>2, <2>3 DEF CallIsNew, CallIsSound
  <2>4. ASSUME NEW o \in calls, CallGoesOn(n, o) PROVE CallIsSound(n)'
    BY <2>1, <2>2, <2>4 DEF MediaInv, MediaTypeOK, CallGoesOn, SameCall, CallIsSound
  <2> QED
    BY <2>3, <2>4
<1> QED
  BY <1>1, <1>2 DEF MediaTypeOK

\* The flag of the inspector is kept with the upload it stands for.
LEMMA UploadFlagStays ==
  ASSUME UploadFlagIsFreed, panel'["replace"].uploading => panel["replace"].uploading,
         panel'["replace"].uploading =>
            \A o \in Of("replace") : o.kind = "upload" /\ o.mine =>
              \E n \in calls' : n.panel = "replace" /\ n.kind = "upload" /\ n.mine
  PROVE  UploadFlagIsFreed'
BY DEF UploadFlagIsFreed, Of

\* Both panels closed, and nothing on its way.
LEMMA MediaStarts == MediaInit => MediaInv
<1> SUFFICES ASSUME NEW a \in Assets,
                    canvas = [epoch |-> 0, selected |-> NoNode, readonly |-> FALSE,
                              image |-> [n \in Nodes |-> a], added |-> {}],
                    panel = [p \in Panels |-> [open |-> FALSE, sequence |-> 0,
                                               uploading |-> FALSE, busy |-> FALSE]],
                    calls = {}
             PROVE  MediaInv
  BY DEF MediaInit
<1>1. canvas \in Canvas
  BY MediaAssumption DEF Canvas
<1>2. panel \in [Panels -> Panel]
  BY MediaAssumption DEF Panel
<1>3. ~panel["replace"].uploading
  BY DEF Panels
<1> QED
  BY <1>1, <1>2, <1>3 DEF MediaInv, MediaTypeOK, UploadFlagIsFreed

\* The facts that every handler begins with.
LEMMA MediaFacts ==
  ASSUME MediaInv
  PROVE  /\ canvas \in Canvas /\ panel \in [Panels -> Panel] /\ calls \in SUBSET Call
         /\ canvas.epoch \in Nat /\ \A p \in Panels : panel[p].sequence \in Nat
         /\ \A p : Of(p) \in SUBSET Call /\ Of(p) \subseteq calls
         /\ \A p : \A c \in Of(p) : c.panel = p
         /\ "replace" \in Panels /\ "insert" \in Panels
         /\ \A c \in calls : c \in Of("replace") \/ c \in Of("insert")
         /\ \A o \in calls : CallGoesOn(o, o)
<1>1. canvas \in Canvas /\ panel \in [Panels -> Panel] /\ calls \in SUBSET Call
  BY DEF MediaInv, MediaTypeOK
<1>2. canvas.epoch \in Nat /\ \A p \in Panels : panel[p].sequence \in Nat
  BY <1>1, MediaAssumption DEF Canvas, Panel
<1>3. \A c \in calls : c.panel \in Panels
  BY <1>1 DEF Call
<1> QED
  BY <1>1, <1>2, <1>3 DEF Of, Panels, CallGoesOn, SameCall

\* Calls of one panel are given up or marked while the others go on.
LEMMA CallsAreMarked ==
  ASSUME MediaInv, NEW p \in Panels,
         \/ panel[p].sequence < panel'[p].sequence
         \/ canvas.epoch < canvas'.epoch
  PROVE  /\ \A n \in Overtaken(Of(p)) : \E o \in calls : CallGoesOn(n, o)
         /\ \A n \in CallsAbandoned(Of(p)) : \E o \in calls : CallGoesOn(n, o)
BY MediaFacts, OvertakenCalls, CallsAreAbandoned DEF CallGoesOn

\* An upload that is marked is still the upload of its panel.
LEMMA UploadIsMarked ==
  ASSUME MediaInv, NEW cs \in SUBSET calls, NEW o \in cs, o.kind = "upload", o.mine,
         o.panel = "replace"
  PROVE  \E n \in Overtaken(cs) : n.panel = "replace" /\ n.kind = "upload" /\ n.mine
BY MediaFacts, OvertakenCalls DEF SameCall

\* Another node is selected: the panels begin another session.
LEMMA SelectKeepsMedia ==
  ASSUME MediaInv, NEW n \in Nodes \cup {NoNode}, SelectNode(n)
  PROVE  MediaInv'
BY MediaFacts, PanelFields, PanelChanges, CallsAreMarked, UploadFlagStays, CallsStaySound DEF
   SelectNode, MediaInv, Canvas, Panels

\* An edit beside the panels makes every earlier call late.
LEMMA ElsewhereKeepsMedia == ASSUME MediaInv, EditElsewhere PROVE MediaInv'
<1>1. /\ canvas' = [canvas EXCEPT !.epoch = @ + 1] /\ canvas.epoch < MaxEdits
      /\ panel' = panel /\ calls' = Overtaken(calls)
  BY DEF EditElsewhere
<1>2. canvas.epoch + 1 \in 0 .. MaxEdits /\ canvas.epoch \in Nat
  BY <1>1, MediaFacts, MediaAssumption
<1>3. canvas' \in Canvas /\ canvas'.epoch = canvas.epoch + 1
  BY <1>1, <1>2, MediaFacts DEF Canvas
<1>4. canvas.epoch < canvas'.epoch /\ canvas.epoch <= canvas'.epoch
  BY <1>2, <1>3
<1>5. ASSUME NEW m \in calls' PROVE \E o \in calls : CallGoesOn(m, o)
  BY <1>1, <1>4, OvertakenCalls, MediaFacts DEF CallGoesOn
<1>6. UploadFlagIsFreed'
  BY <1>1, UploadFlagStays, UploadIsMarked, MediaFacts DEF MediaInv, Of
<1>7. panel' \in [Panels -> Panel] /\ \A p \in Panels : panel[p].sequence <= panel'[p].sequence
  BY <1>1, MediaFacts
<1> QED
  BY <1>3, <1>4, <1>5, <1>6, <1>7, CallsStaySound DEF MediaInv

\* The editor becomes readonly, or writable again.
LEMMA ReadonlyKeepsMedia == ASSUME MediaInv, SetReadonly PROVE MediaInv'
<1> DEFINE q == [panel["replace"] EXCEPT !.sequence = @ + 1]
<1>1. canvas' = [canvas EXCEPT !.readonly = ~@] /\ MoreRequests /\ MediaTypeOK
  BY DEF SetReadonly, MediaInv
<1>2. canvas' \in Canvas /\ canvas'.epoch = canvas.epoch /\ canvas.epoch <= canvas'.epoch
  <2>1. canvas' \in Canvas /\ canvas'.epoch = canvas.epoch /\ canvas.epoch \in Nat
    BY <1>1, MediaFacts DEF Canvas
  <2> QED
    BY <2>1
<1>3. CASE ~canvas'.readonly
  BY <1>3, <1>2 DEF SetReadonly, MediaInv, MediaTypeOK, CallIsSound, UploadFlagIsFreed, Of
<1>4. CASE canvas'.readonly
  <2>1. /\ panel' = [panel EXCEPT !["replace"] = q]
        /\ calls' = Of("insert") \cup Overtaken(Of("replace"))
    BY <1>4 DEF SetReadonly
  <2>2. panel["replace"].sequence + 1 \in 0 .. MaxRequests /\ panel["replace"].sequence \in Nat
    BY <1>1, MediaFacts, MediaAssumption DEF MoreRequests
  <2>3. /\ q \in Panel /\ q.sequence = panel["replace"].sequence + 1
        /\ q.uploading = panel["replace"].uploading
    BY <2>2, MediaFacts DEF Panel
  <2> HIDE DEF q
  <2>4. /\ panel' \in [Panels -> Panel] /\ panel'["replace"] = q /\ panel'["insert"] = panel["insert"]
    BY <1>1, <2>1, <2>3, PanelChanges, MediaFacts DEF Panels
  <2>5. /\ \A p \in Panels : panel[p].sequence <= panel'[p].sequence
        /\ panel["replace"].sequence < panel'["replace"].sequence
    BY <2>2, <2>3, <2>4, MediaFacts DEF Panels
  <2>6. \A m \in calls' : \E o \in calls : CallGoesOn(m, o)
    BY <2>1, <2>5, CallsAreMarked, MediaFacts
  <2>7. UploadFlagIsFreed'
    BY <2>1, <2>3, <2>4, UploadFlagStays, UploadIsMarked, MediaFacts DEF MediaInv
  <2> QED
    BY <1>2, <2>4, <2>5, <2>6, <2>7, CallsStaySound DEF MediaInv
<1> QED
  BY <1>3, <1>4

\* The replacing of an image is cancelled.
LEMMA CancelKeepsMedia == ASSUME MediaInv, CancelReplace PROVE MediaInv'
BY PanelFields, MediaFacts, PanelChanges, CallsAreMarked, UploadFlagStays, UploadIsMarked,
   CallsStaySound DEF CancelReplace, MediaInv, Panels

\* The panel of the insertion is closed.
LEMMA CloseKeepsMedia == ASSUME MediaInv, CloseInsertion PROVE MediaInv'
BY PanelFields, MediaFacts, PanelChanges, CallsAreMarked, UploadFlagStays, CallsStaySound DEF
   CloseInsertion, MediaInv, Panels

\* What is asked is new, of its panel and of the page of now.
LEMMA AskedIsNew ==
  ASSUME MediaInv, NEW p \in Panels, NEW kind \in {"list", "upload"}, NEW a \in Assets,
         panel' \in [Panels -> Panel], panel'[p].sequence = panel[p].sequence + 1,
         canvas' = canvas
  PROVE  \A n \in Asked(p, kind, a) : CallIsNew(n) /\ n.mine /\ n.panel = p /\ n.kind = kind
<1> DEFINE n == [panel |-> p, kind |-> kind, token |-> panel'[p].sequence,
                 epoch |-> canvas.epoch, node |-> canvas.selected, asset |-> a,
                 mine |-> TRUE, overtaken |-> FALSE]
<1>1. panel'[p] \in Panel /\ panel[p].sequence \in Nat /\ canvas \in Canvas
  BY MediaFacts
<1>2. panel'[p].sequence \in 1 .. MaxRequests
  BY <1>1, MediaAssumption DEF Panel
<1>3. n \in Call
  BY <1>1, <1>2 DEF Call, Canvas
<1>4. CallIsNew(n) /\ n.mine /\ n.panel = p /\ n.kind = kind
  BY <1>3 DEF CallIsNew
<1> QED
  BY <1>4 DEF Asked

\* The panel of the insertion is opened and asks for its list.
LEMMA OpenKeepsMedia == ASSUME MediaInv, OpenInsertion PROVE MediaInv'
<1> DEFINE q == [PanelStarted("insert", "list") EXCEPT !.open = TRUE]
<1>1. /\ panel' = [panel EXCEPT !["insert"] = q] /\ MoreRequests
      /\ canvas' = canvas /\ MediaTypeOK
  BY DEF OpenInsertion, MediaInv
<1>2. PICK a \in Assets : calls' = calls \cup Asked("insert", "list", a)
  BY DEF OpenInsertion
<1>3. /\ PanelStarted("insert", "list") \in Panel
      /\ PanelStarted("insert", "list").sequence = panel["insert"].sequence + 1
  BY <1>1, PanelWorks, MediaFacts
<1>4. q \in Panel /\ q.sequence = panel["insert"].sequence + 1
  BY <1>3 DEF Panel
<1> HIDE DEF q
<1>5. panel' \in [Panels -> Panel] /\ panel'["insert"] = q /\ panel'["replace"] = panel["replace"]
  BY <1>1, <1>4, PanelChanges, MediaFacts DEF Panels
<1>6. /\ \A p \in Panels : panel[p].sequence <= panel'[p].sequence
      /\ panel'["insert"].sequence = panel["insert"].sequence + 1
  BY <1>4, <1>5, MediaFacts DEF Panels
<1>7. \A m \in Asked("insert", "list", a) : CallIsNew(m)
  BY <1>1, <1>5, <1>6, AskedIsNew, MediaFacts
<1>8. \A m \in calls' : (\E o \in calls : CallGoesOn(m, o)) \/ CallIsNew(m)
  BY <1>2, <1>7, MediaFacts
<1>9. UploadFlagIsFreed'
  BY <1>2, <1>5, UploadFlagStays, MediaFacts DEF MediaInv
<1>10. canvas' \in Canvas /\ canvas.epoch <= canvas'.epoch
  BY <1>1, MediaFacts
<1> QED
  BY <1>5, <1>6, <1>8, <1>9, <1>10, CallsStaySound DEF MediaInv

\* The replace panel asks for its list.
LEMMA ListKeepsMedia == ASSUME MediaInv, ListImages PROVE MediaInv'
<1>1. /\ panel' = [panel EXCEPT !["replace"] = PanelStarted("replace", "list")] /\ MoreRequests
      /\ canvas' = canvas /\ MediaTypeOK
  BY DEF ListImages, MediaInv
<1>2. PICK a \in Assets : calls' = Of("insert") \cup Overtaken(Of("replace"))
                                     \cup Asked("replace", "list", a)
  BY DEF ListImages
<1>3. /\ PanelStarted("replace", "list") \in Panel
      /\ PanelStarted("replace", "list").sequence = panel["replace"].sequence + 1
      /\ PanelStarted("replace", "list").uploading = panel["replace"].uploading
  BY <1>1, MediaFacts, PanelWorks DEF Panel
<1>5. /\ panel' \in [Panels -> Panel] /\ panel'["replace"] = PanelStarted("replace", "list")
      /\ panel'["insert"] = panel["insert"]
  BY <1>1, <1>3, PanelChanges, MediaFacts DEF Panels
<1>6. /\ \A p \in Panels : panel[p].sequence <= panel'[p].sequence
      /\ panel["replace"].sequence < panel'["replace"].sequence
      /\ panel'["replace"].sequence = panel["replace"].sequence + 1
  BY <1>3, <1>5, MediaFacts DEF Panels
<1>7. \A m \in Asked("replace", "list", a) : CallIsNew(m)
  BY <1>1, <1>5, <1>6, AskedIsNew, MediaFacts
<1>8. \A m \in calls' : (\E o \in calls : CallGoesOn(m, o)) \/ CallIsNew(m)
  BY <1>2, <1>6, <1>7, CallsAreMarked, MediaFacts
<1>9. UploadFlagIsFreed'
  BY <1>2, <1>3, <1>5, UploadFlagStays, UploadIsMarked, MediaFacts DEF MediaInv
<1>10. canvas' \in Canvas /\ canvas.epoch <= canvas'.epoch
  BY <1>1, MediaFacts
<1> QED
  BY <1>5, <1>6, <1>8, <1>9, <1>10, CallsStaySound DEF MediaInv

\* A file is chosen in one of the panels.
LEMMA UploadKeepsMedia ==
  ASSUME MediaInv, NEW p \in Panels, NEW a \in Assets, UploadImage(p, a)
  PROVE  MediaInv'
<1>1. /\ panel' = [panel EXCEPT ![p] = PanelStarted(p, "upload")] /\ MoreRequests
      /\ canvas' = canvas /\ MediaTypeOK
      /\ calls' = (calls \ Of(p)) \cup Overtaken(Of(p)) \cup Asked(p, "upload", a)
  BY DEF UploadImage, MediaInv
<1>2. /\ PanelStarted(p, "upload") \in Panel
      /\ PanelStarted(p, "upload").sequence = panel[p].sequence + 1
  BY <1>1, PanelWorks
<1>3. /\ panel' \in [Panels -> Panel] /\ panel'[p] = PanelStarted(p, "upload")
      /\ \A other \in Panels \ {p} : panel'[other] = panel[other]
  BY <1>1, <1>2, PanelChanges
<1>4. /\ panel[p].sequence < panel'[p].sequence /\ panel'[p].sequence = panel[p].sequence + 1
  BY <1>2, <1>3, MediaFacts
<1>5. ASSUME NEW q \in Panels PROVE panel[q].sequence <= panel'[q].sequence
  BY <1>2, <1>3, MediaFacts
<1>6. \A m \in Asked(p, "upload", a) : CallIsNew(m) /\ m.mine /\ m.panel = p /\ m.kind = "upload"
  BY <1>1, <1>3, <1>4, AskedIsNew
<1>7. \A m \in calls' : (\E o \in calls : CallGoesOn(m, o)) \/ CallIsNew(m)
  BY <1>1, <1>4, <1>6, CallsAreMarked, MediaFacts
<1>8. UploadFlagIsFreed'
  <2>1. CASE p = "replace"
    BY <1>1, <1>6, <2>1 DEF Asked, UploadFlagIsFreed, Of
  <2>2. CASE p # "replace"
    <3>1. panel'["replace"] = panel["replace"] /\ Of("replace") \subseteq calls'
      BY <2>2, <1>1, <1>3, MediaFacts
    <3> QED
      BY <3>1, UploadFlagStays, MediaFacts DEF MediaInv
  <2> QED
    BY <2>1, <2>2
<1>9. canvas' \in Canvas /\ canvas.epoch <= canvas'.epoch
  BY <1>1, MediaFacts
<1> QED
  BY <1>3, <1>5, <1>7, <1>8, <1>9, CallsStaySound DEF MediaInv

\* An image that is applied makes a new epoch of the page.
LEMMA ImageIsApplied ==
  ASSUME MediaInv, NEW a \in Assets, canvas.epoch < MaxEdits,
         canvas' = Inserted(a) \/ \E n : canvas' = Replaced(n, a)
  PROVE  canvas' \in Canvas /\ canvas.epoch < canvas'.epoch /\ canvas.epoch <= canvas'.epoch
<1>1. canvas \in Canvas /\ canvas.epoch \in Nat /\ canvas.epoch + 1 \in 0 .. MaxEdits
  BY MediaFacts, MediaAssumption
<1>2. CASE canvas' = Inserted(a)
  <2>1. canvas' \in Canvas /\ canvas'.epoch = canvas.epoch + 1
    BY <1>1, <1>2 DEF Inserted, Canvas
  <2> QED
    BY <1>1, <2>1
<1>3. ASSUME NEW n, canvas' = Replaced(n, a)
      PROVE  canvas' \in Canvas /\ canvas'.epoch = canvas.epoch + 1
  BY <1>1, <1>3 DEF Canvas, Replaced
<1> QED
  BY <1>1, <1>2, <1>3

\* An image of the list replaces the selected one.
LEMMA ChooseKeepsMedia == ASSUME MediaInv, NEW a \in Assets, ChooseImage(a) PROVE MediaInv'
BY ImageIsApplied, PanelFields, MediaFacts, PanelChanges, CallsAreMarked, UploadFlagStays,
   CallsStaySound DEF ChooseImage, MediaInv, Panels

\* An image of the list is inserted.
LEMMA InsertKeepsMedia == ASSUME MediaInv, NEW a \in Assets, InsertImage(a) PROVE MediaInv'
BY ImageIsApplied, PanelFields, MediaFacts, PanelChanges, CallsAreMarked, UploadFlagStays,
   UploadIsMarked, CallsStaySound DEF InsertImage, MediaInv, Panels

\* A call ends without changing the document.
LEMMA EndKeepsMedia == ASSUME MediaInv, NEW c \in calls, CallEnds(c) PROVE MediaInv'
<1>1. /\ calls' = calls \ {c} /\ canvas' = canvas /\ MediaTypeOK /\ c \in Call /\ c.panel \in Panels
      /\ panel' = IF c.mine THEN [panel EXCEPT ![c.panel] = Ended(c.panel, c)] ELSE panel
  BY MediaFacts DEF CallEnds, MediaInv, Call
<1>2. /\ Ended(c.panel, c) \in Panel /\ Ended(c.panel, c).sequence = panel[c.panel].sequence
      /\ Ended(c.panel, c).uploading = (panel[c.panel].uploading /\ c.kind # "upload")
  BY <1>1, PanelWorks
<1>3. CASE ~c.mine
  BY <1>1, <1>3, UploadFlagStays, MediaFacts, CallsStaySound DEF MediaInv
<1>4. CASE c.mine
  <2>1. /\ panel' \in [Panels -> Panel] /\ panel'[c.panel] = Ended(c.panel, c)
        /\ \A other \in Panels \ {c.panel} : panel'[other] = panel[other]
    BY <1>1, <1>2, <1>4, PanelChanges
  <2>2. UploadFlagIsFreed'
    <3>1. CASE c.panel = "replace" /\ c.kind = "upload"
      BY <1>2, <2>1, <3>1 DEF UploadFlagIsFreed
    <3>2. CASE ~(c.panel = "replace" /\ c.kind = "upload")
      BY <1>2, <2>1, <1>1, <3>2, MediaFacts, UploadFlagStays DEF MediaInv
    <3> QED
      BY <3>1, <3>2
  <2>3. \A m \in calls' : \E o \in calls : CallGoesOn(m, o)
    BY <1>1, MediaFacts
  <2>4. ASSUME NEW p \in Panels PROVE panel[p].sequence <= panel'[p].sequence
    BY <1>2, <2>1, MediaFacts
  <2>5. canvas' \in Canvas /\ canvas.epoch <= canvas'.epoch
    BY <1>1, MediaFacts
  <2> QED
    BY <2>1, <2>2, <2>3, <2>4, <2>5, CallsStaySound DEF MediaInv
<1> QED
  BY <1>3, <1>4

\* An upload whose wish still stands is applied.
LEMMA AppliedKeepsMedia == ASSUME MediaInv, NEW c \in calls, UploadApplied(c) PROVE MediaInv'
<1> DEFINE q == IF c.panel = "insert" THEN PanelClosed("insert")
                ELSE IF canvas'.image # canvas.image THEN Remounted("replace")
                ELSE Ended("replace", c)
<1>1. /\ c \in Call /\ c.panel \in Panels /\ c.asset \in Assets /\ c.kind = "upload"
      /\ canvas.epoch < MaxEdits /\ MoreRequests /\ MediaTypeOK
      /\ canvas' = IF c.panel = "replace" THEN Replaced(c.node, c.asset) ELSE Inserted(c.asset)
      /\ panel' = [panel EXCEPT ![c.panel] = q]
      /\ calls' = CallsAbandoned(Of(c.panel) \ {c}) \cup Overtaken(calls \ Of(c.panel))
  BY MediaFacts DEF UploadApplied, MediaInv, Call
<1>2. canvas' \in Canvas /\ canvas.epoch < canvas'.epoch /\ canvas.epoch <= canvas'.epoch
  BY <1>1, ImageIsApplied
<1>3. /\ q \in Panel /\ q.sequence >= panel[c.panel].sequence
      /\ c.panel = "replace" => ~q.uploading
  <2>1. CASE c.panel = "insert"
    BY <1>1, <2>1, PanelFields, MediaFacts
  <2>2. CASE c.panel = "replace" /\ canvas'.image # canvas.image
    BY <1>1, <2>2, PanelFields, MediaFacts
  <2>3. CASE c.panel = "replace" /\ ~(canvas'.image # canvas.image)
    <3>1. /\ Ended("replace", c) \in Panel /\ Ended("replace", c).sequence = panel["replace"].sequence
          /\ ~Ended("replace", c).uploading
      BY <1>1, <2>3, PanelWorks, MediaFacts
    <3>2. panel["replace"].sequence \in Nat
      BY MediaFacts
    <3> QED
      BY <2>3, <3>1, <3>2
  <2> QED
    BY <1>1, <2>1, <2>2, <2>3 DEF Panels
<1> HIDE DEF q
<1>4. /\ panel' \in [Panels -> Panel] /\ panel'[c.panel] = q
      /\ \A other \in Panels \ {c.panel} : panel'[other] = panel[other]
  BY <1>1, <1>3, PanelChanges
<1>5. ASSUME NEW p \in Panels PROVE panel[p].sequence <= panel'[p].sequence
  BY <1>3, <1>4, MediaFacts, MediaAssumption DEF Panel
<1>6. ASSUME NEW m \in calls' PROVE \E o \in calls : CallGoesOn(m, o)
  <2>1. CASE m \in CallsAbandoned(Of(c.panel) \ {c})
    BY <2>1, CallsAreAbandoned, MediaFacts DEF CallGoesOn
  <2>2. CASE m \in Overtaken(calls \ Of(c.panel))
    BY <2>2, <1>2, OvertakenCalls, MediaFacts DEF CallGoesOn
  <2> QED
    BY <1>1, <2>1, <2>2
<1>7. UploadFlagIsFreed'
  <2>1. CASE c.panel = "replace"
    BY <1>3, <1>4, <2>1 DEF UploadFlagIsFreed
  <2>2. CASE c.panel # "replace"
    BY <1>4, <2>2, <1>1, MediaFacts, UploadIsMarked, UploadFlagStays DEF MediaInv
  <2> QED
    BY <2>1, <2>2
<1> QED
  BY <1>2, <1>4, <1>5, <1>6, <1>7, CallsStaySound DEF MediaInv

\* Every step of the panels keeps their calls in order.
LEMMA MediaStep == MediaInv /\ [MediaNext]_mediaVars => MediaInv'
<1> SUFFICES ASSUME MediaInv, [MediaNext]_mediaVars
             PROVE  MediaInv'
  OBVIOUS
<1>1. CASE UNCHANGED mediaVars
  BY <1>1 DEF mediaVars, MediaInv, MediaTypeOK, CallIsSound, UploadFlagIsFreed, Of
<1> QED
  BY <1>1, SelectKeepsMedia, ElsewhereKeepsMedia, ReadonlyKeepsMedia, CancelKeepsMedia,
     CloseKeepsMedia, OpenKeepsMedia, ListKeepsMedia, UploadKeepsMedia, ChooseKeepsMedia,
     InsertKeepsMedia, EndKeepsMedia, AppliedKeepsMedia DEF MediaNext

\* An upload that is applied is the latest wish, and its image is still the one selected.
LEMMA LatestWishApplies ==
  ASSUME MediaInv, NEW c \in calls, UploadApplied(c)
  PROVE  ~c.overtaken /\ c.node = canvas.selected
BY MediaFacts DEF MediaInv, UploadApplied, Call, CallIsSound, StillMeant
-----------------------------------------------------------------------------
(***************************************************************************)
(* The editors of Header and Footer. The editor, and each request, names a *)
(* version of the server and the content that it had. A request of an      *)
(* editor that was left knows of the server alone.                         *)
(***************************************************************************)

\* A version of a set is one the server has had, and if it is the newest, the content
\* is the stored draft.
NamesDraft(s, version, shell, store) ==
    /\ version <= store.version[s]
    /\ version = store.version[s] => shell = store.draft[s]

\* The editor that shows no unsaved change has the draft of the version it knows.
EditorStands(editor, store) ==
    /\ editor.version = 0 => ~editor.dirty
    /\ editor.version # 0 =>
          /\ editor.target \in ShellSets /\ editor.data \in Shells
          /\ editor.version <= store.version[editor.target]
          /\ ~editor.dirty => NamesDraft(editor.target, editor.version, editor.data, store)
          /\ editor.kind = "part" => editor.data = editor.canvas

\* The request of the mounted editor is for its set, and what it carries is what the
\* editor has, unless it was edited since.
AsksForEditor(r, editor) ==
    /\ r.target = editor.target
    /\ r.kind = "load" => editor.version = 0
    /\ r.kind # "load" =>
          /\ editor.version # 0 /\ r.edits <= editor.edits
          /\ r.edits = editor.edits => editor.data = r.shell
          /\ r.edits # editor.edits => editor.dirty

RequestStands(r, editor, store) ==
    /\ r.kind = "load" => r.mine
    /\ r.mine => AsksForEditor(r, editor)
    /\ r.kind # "load" => r.shell \in Shells /\ r.asked = r.shell
    /\ r.kind = "publish" /\ r.at = "sent" =>
          r.expected # 0 /\ NamesDraft(r.target, r.expected, r.shell, store)
    /\ r.at = "answered" /\ r.answer # 0 =>
          r.shell \in Shells /\ NamesDraft(r.target, r.answer, r.shell, store)
    /\ r.at = "answered" /\ r.answer # 0 /\ r.kind = "publish" =>
          store.live[r.target] # NoShell

PartEditorsInv ==
    /\ SitePartEditorsTypeOK
    /\ \A s \in ShellSets : shellServer.version[s] # 0 => shellServer.draft[s] \in Shells
    /\ workspace.ready \subseteq Ready
    /\ EditorStands(shellEditor, shellServer)
    /\ \A r \in shellRequests : RequestStands(r, shellEditor, shellServer)
    /\ \A r, q \in shellRequests : r.mine /\ q.mine => r = q

\* A server that was written to: versions grow with drafts, and what is published
\* stays so.
ServerFollows(next, store) ==
    \A s \in ShellSets :
       /\ store.version[s] <= next.version[s]
       /\ next.version[s] = store.version[s] => next.draft[s] = store.draft[s]
       /\ store.live[s] # NoShell => next.live[s] # NoShell
-----------------------------------------------------------------------------
\* The variables have their types, and so have their parts.
LEMMA PartTypes ==
  ASSUME SitePartEditorsTypeOK
  PROVE  /\ shellServer \in ShellServer /\ shellEditor \in ShellEditor
         /\ workspace \in Workspace
         /\ shellServer.version \in [ShellSets -> ShellVersions]
         /\ shellServer.draft \in [ShellSets -> OptionalShell]
         /\ shellServer.live \in [ShellSets -> OptionalShell]
         /\ shellServer.current \in SUBSET ShellSets
         /\ ShellVersions \subseteq Nat /\ 0 .. MaxShellEdits \subseteq Nat
         /\ \A s \in ShellSets : shellServer.version[s] \in Nat
         /\ shellEditor.version \in Nat /\ shellEditor.edits \in Nat
         /\ \A r \in shellRequests :
               /\ r \in ShellRequest /\ r.target \in ShellSets
               /\ r.expected \in Nat /\ r.answer \in Nat /\ r.edits \in Nat
BY SitePartEditorsAssumption DEF ShellVersions, SitePartEditorsTypeOK, ShellServer, ShellEditor,
   ShellRequest

\* One set of the store is written.
LEMMA SetIsWritten ==
  ASSUME SitePartEditorsTypeOK, NEW s \in ShellSets, NEW version \in ShellVersions,
         NEW draft \in OptionalShell, NEW live \in OptionalShell,
         NEW current \in SUBSET ShellSets
  PROVE  LET n == WithSet(s, version, draft, live, current)
         IN  /\ n \in ShellServer
             /\ n.version[s] = version /\ n.draft[s] = draft /\ n.live[s] = live
             /\ \A t \in ShellSets \ {s} : /\ n.version[t] = shellServer.version[t]
                                           /\ n.draft[t] = shellServer.draft[t]
                                           /\ n.live[t] = shellServer.live[t]
BY PartTypes DEF WithSet, ShellServer

\* What names a draft names it still, or an older version.
LEMMA NamesStay ==
  ASSUME NEW store \in ShellServer, NEW next \in ShellServer, ServerFollows(next, store),
         NEW s \in ShellSets, NEW version \in Nat, NEW shell,
         NamesDraft(s, version, shell, store)
  PROVE  NamesDraft(s, version, shell, next)
BY SitePartEditorsAssumption DEF ShellServer, ShellVersions, ServerFollows, NamesDraft

\* An editor stays sound when the server moves on.
LEMMA EditorStandsStill ==
  ASSUME NEW store \in ShellServer, NEW next \in ShellServer, ServerFollows(next, store),
         NEW editor \in ShellEditor, EditorStands(editor, store)
  PROVE  EditorStands(editor, next)
<1>1. CASE editor.version = 0
  BY <1>1 DEF EditorStands
<1>2. CASE editor.version # 0
  BY <1>2, SitePartEditorsAssumption, NamesStay DEF EditorStands, ShellEditor, ShellVersions,
     ShellServer, ServerFollows
<1> QED
  BY <1>1, <1>2

\* A request stays sound when the server moves on.
LEMMA RequestStandsStill ==
  ASSUME NEW store \in ShellServer, NEW next \in ShellServer, ServerFollows(next, store),
         NEW editor, NEW r \in ShellRequest, RequestStands(r, editor, store)
  PROVE  RequestStands(r, editor, next)
BY SitePartEditorsAssumption, NamesStay DEF ShellRequest, ShellVersions, RequestStands,
   ServerFollows

\* A request of an editor that was left knows of the server alone.
LEMMA OthersWait ==
  ASSUME PartEditorsInv, NEW r \in shellRequests, r.mine, NEW q \in shellRequests, q # r,
         NEW editor
  PROVE  ~q.mine /\ RequestStands(q, editor, shellServer)
BY DEF PartEditorsInv, RequestStands

\* A step in the workspace, or at the store, beside the editor.
LEMMA BesideTheEditor ==
  ASSUME PartEditorsInv, shellServer' \in ShellServer, ServerFollows(shellServer', shellServer),
         \A s \in ShellSets : shellServer'.version[s] # 0 => shellServer'.draft[s] \in Shells,
         workspace' \in Workspace, workspace'.ready \subseteq Ready,
         UNCHANGED <<shellEditor, shellRequests>>
  PROVE  PartEditorsInv'
BY PartTypes, EditorStandsStill, RequestStandsStill DEF PartEditorsInv, SitePartEditorsTypeOK,
   Ready, ServerFollows

\* Another editor mounts: only its own request is asked by it.
LEMMA EditorMounts ==
  ASSUME PartEditorsInv, NEW s \in ShellSets, Mounts("set", s)
  PROVE  /\ shellEditor' \in ShellEditor /\ EditorStands(shellEditor', shellServer)
         /\ shellRequests' \subseteq ShellRequest
         /\ \A r \in shellRequests' : RequestStands(r, shellEditor', shellServer)
         /\ \A r, q \in shellRequests' : r.mine /\ q.mine => r = q
<1> DEFINE own == NewRequest("load", s)
<1>1. 0 \in ShellVersions /\ 0 \in 0 .. MaxShellEdits
  BY SitePartEditorsAssumption DEF ShellVersions
<1>2. /\ shellEditor' \in ShellEditor /\ shellEditor'.target = s /\ shellEditor'.version = 0
      /\ ~shellEditor'.dirty
  BY <1>1 DEF Mounts, Fresh, ShellEditor, OptionalShell
<1>3. /\ own \in ShellRequest /\ own.kind = "load" /\ own.mine /\ own.target = s
      /\ own.at = "sent"
  BY <1>1 DEF NewRequest, ShellRequest, OptionalShell
<1> HIDE DEF own
<1>4. ASSUME NEW r \in shellRequests'
      PROVE  \/ r = own
             \/ /\ r \in ShellRequest /\ ~r.mine
                /\ RequestStands(r, shellEditor', shellServer)
  <2>1. SUFFICES ASSUME r # own
                 PROVE  r \in ShellRequest /\ ~r.mine /\ RequestStands(r, shellEditor', shellServer)
    OBVIOUS
  <2>2. PICK q \in shellRequests : q.kind # "load" /\ r = [q EXCEPT !.mine = FALSE]
    BY <2>1 DEF Mounts, Orphaned, own
  <2>3. q \in ShellRequest /\ RequestStands(q, shellEditor, shellServer)
    BY PartTypes DEF PartEditorsInv
  <2>4. /\ r \in ShellRequest /\ ~r.mine /\ r.kind = q.kind /\ r.at = q.at
        /\ r.target = q.target /\ r.expected = q.expected /\ r.answer = q.answer
        /\ r.shell = q.shell /\ r.asked = q.asked
    BY <2>2, <2>3 DEF ShellRequest
  <2> QED
    BY <2>2, <2>3, <2>4 DEF RequestStands
<1>5. RequestStands(own, shellEditor', shellServer)
  BY <1>2, <1>3 DEF RequestStands, AsksForEditor
<1> QED
  BY <1>2, <1>3, <1>4, <1>5 DEF EditorStands

\* Nothing is loaded and nobody asks.
LEMMA PartEditorsStart == SitePartEditorsInit => PartEditorsInv
<1> SUFFICES ASSUME NEW kind \in {"set", "part"},
               shellServer = [version |-> [s \in ShellSets |-> IF s = FirstSet THEN 1 ELSE 0],
                          draft |-> Initially, live |-> Initially,
                          current |-> {FirstSet}, active |-> FirstSet],
               workspace = [listed |-> {}, ready |-> {}, active |-> NoShellSet,
                        pending |-> IF kind = "set" THEN "load" ELSE "none",
                        activating |-> NoShellSet],
               shellEditor = Fresh(kind, IF kind = "set" THEN NoShellSet ELSE FirstSet),
               shellRequests = IF kind = "set" THEN {} ELSE {NewRequest("load", FirstSet)}
             PROVE  PartEditorsInv
  BY DEF SitePartEditorsInit
<1>1. 0 \in ShellVersions /\ 1 \in ShellVersions /\ 0 \in 0 .. MaxShellEdits
  BY SitePartEditorsAssumption DEF ShellVersions
<1>2. Initially \in [ShellSets -> OptionalShell]
  BY SitePartEditorsAssumption DEF Initially, OptionalShell
<1>3. [s \in ShellSets |-> IF s = FirstSet THEN 1 ELSE 0] \in [ShellSets -> ShellVersions]
  BY <1>1
<1>4. shellServer \in ShellServer
  BY <1>2, <1>3, SitePartEditorsAssumption DEF ShellServer
<1>5. workspace \in Workspace /\ workspace.ready = {}
  BY DEF Workspace
<1>6. /\ shellEditor \in ShellEditor /\ shellEditor.version = 0 /\ ~shellEditor.dirty
      /\ shellEditor.target = IF kind = "set" THEN NoShellSet ELSE FirstSet
  BY <1>1, SitePartEditorsAssumption DEF Fresh, ShellEditor, OptionalShell
<1> DEFINE own == NewRequest("load", FirstSet)
<1>7. /\ own \in ShellRequest /\ own.kind = "load" /\ own.mine /\ own.target = FirstSet
      /\ own.at = "sent"
  BY <1>1, SitePartEditorsAssumption DEF NewRequest, ShellRequest, OptionalShell
<1> HIDE DEF own
<1>8. \A s \in ShellSets : shellServer.version[s] # 0 => shellServer.draft[s] \in Shells
  BY SitePartEditorsAssumption DEF Initially
<1>9. \A r \in shellRequests : r = own /\ shellEditor.target = FirstSet
  BY <1>6 DEF own
<1>10. SitePartEditorsTypeOK
  BY <1>4, <1>5, <1>6, <1>7, <1>9 DEF SitePartEditorsTypeOK
<1>11. \A r \in shellRequests : RequestStands(r, shellEditor, shellServer)
  BY <1>6, <1>7, <1>9 DEF RequestStands, AsksForEditor
<1> QED
  BY <1>5, <1>6, <1>8, <1>9, <1>10, <1>11 DEF PartEditorsInv, EditorStands
-----------------------------------------------------------------------------
(* The steps *)

\* A step that leaves the server alone follows it.
LEMMA TheServerFollowsItself ==
  ASSUME SitePartEditorsTypeOK
  PROVE  ServerFollows(shellServer, shellServer)
BY PartTypes DEF ServerFollows

\* A draft that is written: the version grows, and what is published stays.
LEMMA DraftIsWritten ==
  ASSUME PartEditorsInv, NEW s \in ShellSets, NEW d \in Shells,
         shellServer.version[s] < MaxShellVersion, shellServer' = Drafted(s, d)
  PROVE  /\ shellServer' \in ShellServer /\ ServerFollows(shellServer', shellServer)
         /\ \A t \in ShellSets : shellServer'.version[t] # 0 => shellServer'.draft[t] \in Shells
         /\ shellServer'.version[s] = shellServer.version[s] + 1 /\ shellServer'.draft[s] = d
<1>1. SitePartEditorsTypeOK
  BY DEF PartEditorsInv
<1>2. /\ shellServer.version[s] + 1 \in ShellVersions /\ d \in OptionalShell
      /\ shellServer.live[s] \in OptionalShell
      /\ shellServer.current \ {s} \in SUBSET ShellSets
  BY <1>1, PartTypes, SitePartEditorsAssumption DEF ShellVersions, OptionalShell
<1>3. /\ shellServer' \in ShellServer
      /\ shellServer'.version[s] = shellServer.version[s] + 1
      /\ shellServer'.draft[s] = d /\ shellServer'.live[s] = shellServer.live[s]
      /\ \A t \in ShellSets \ {s} : /\ shellServer'.version[t] = shellServer.version[t]
                                    /\ shellServer'.draft[t] = shellServer.draft[t]
                                    /\ shellServer'.live[t] = shellServer.live[t]
  BY <1>1, <1>2, SetIsWritten DEF Drafted
<1>4. \A t \in ShellSets : shellServer.version[t] \in Nat
  BY <1>1, PartTypes
<1>5. ServerFollows(shellServer', shellServer)
  BY <1>3, <1>4 DEF ServerFollows
<1>6. \A t \in ShellSets : shellServer'.version[t] # 0 => shellServer'.draft[t] \in Shells
  BY <1>3 DEF PartEditorsInv
<1> QED
  BY <1>3, <1>5, <1>6

\* The workspace lists the sets.
LEMMA LoadOfWorkspaceKeeps == ASSUME PartEditorsInv, WorkspaceLoaded PROVE PartEditorsInv'
<1>1. PICK s \in Stored : Mounts("set", s)
  BY DEF WorkspaceLoaded
<1>2. /\ shellServer' = shellServer /\ SitePartEditorsTypeOK /\ s \in ShellSets
      /\ Stored \subseteq ShellSets /\ Ready \subseteq ShellSets
  BY DEF WorkspaceLoaded, PartEditorsInv, Stored, Ready
<1>3. shellServer.active \in ShellSets \cup {NoShellSet}
  BY <1>2, PartTypes DEF ShellServer
<1>4. workspace' \in Workspace /\ workspace'.ready = Ready
  BY <1>2, <1>3, PartTypes DEF WorkspaceLoaded, Workspace
<1> QED
  BY <1>1, <1>2, <1>4, EditorMounts DEF PartEditorsInv, SitePartEditorsTypeOK, Ready

\* A set is selected, and its editor mounts.
LEMMA SelectOfSetKeeps ==
  ASSUME PartEditorsInv, NEW s \in ShellSets, SelectSet(s)
  PROVE  PartEditorsInv'
BY EditorMounts DEF SelectSet, PartEditorsInv, SitePartEditorsTypeOK, Ready

\* The set that was asked for is created, or not.
LEMMA CreateKeeps == ASSUME PartEditorsInv, CreateSetAnswered PROVE PartEditorsInv'
<1>0. SitePartEditorsTypeOK
  BY DEF PartEditorsInv
<1>1. CASE \E s \in ShellSets \ Stored :
              /\ shellServer' = WithSet(s, 1, DefaultShell, shellServer.live[s],
                                        shellServer.current)
              /\ workspace' = [workspace EXCEPT !.listed = @ \cup {s}, !.pending = "none"]
              /\ Mounts("set", s)
  <2>1. PICK s \in ShellSets \ Stored :
              /\ shellServer' = WithSet(s, 1, DefaultShell, shellServer.live[s],
                                        shellServer.current)
              /\ workspace' = [workspace EXCEPT !.listed = @ \cup {s}, !.pending = "none"]
              /\ Mounts("set", s)
    BY <1>1
  <2>2. /\ 1 \in ShellVersions /\ DefaultShell \in Shells /\ DefaultShell \in OptionalShell
        /\ shellServer.live[s] \in OptionalShell
        /\ shellServer.current \in SUBSET ShellSets /\ s \in ShellSets
    BY <1>0, PartTypes, SitePartEditorsAssumption DEF ShellVersions, OptionalShell
  <2>3. /\ shellServer' \in ShellServer
        /\ shellServer'.version[s] = 1
        /\ shellServer'.draft[s] = DefaultShell /\ shellServer'.live[s] = shellServer.live[s]
        /\ \A t \in ShellSets \ {s} : /\ shellServer'.version[t] = shellServer.version[t]
                                      /\ shellServer'.draft[t] = shellServer.draft[t]
                                      /\ shellServer'.live[t] = shellServer.live[t]
    BY <1>0, <2>1, <2>2, SetIsWritten
  <2>4. shellServer.version[s] = 0 /\ \A t \in ShellSets : shellServer.version[t] \in Nat
    BY <1>0, PartTypes DEF Stored
  <2>5. ServerFollows(shellServer', shellServer)
    BY <2>3, <2>4 DEF ServerFollows
  <2>6. \A t \in ShellSets : shellServer'.version[t] # 0 => shellServer'.draft[t] \in Shells
    BY <2>2, <2>3 DEF PartEditorsInv
  <2>7. workspace' \in Workspace /\ workspace'.ready = workspace.ready
    BY <1>0, <2>1, PartTypes DEF Workspace
  <2>8. /\ shellEditor' \in ShellEditor /\ EditorStands(shellEditor', shellServer)
        /\ shellRequests' \subseteq ShellRequest
        /\ \A r \in shellRequests' : RequestStands(r, shellEditor', shellServer)
        /\ \A r, q \in shellRequests' : r.mine /\ q.mine => r = q
    BY <2>1, <2>2, EditorMounts
  <2>9. shellServer \in ShellServer
    BY <1>0, PartTypes
  <2>10. EditorStands(shellEditor', shellServer')
    BY <2>3, <2>5, <2>8, <2>9, EditorStandsStill
  <2>11. \A r \in shellRequests' : RequestStands(r, shellEditor', shellServer')
    BY <2>3, <2>5, <2>8, <2>9, RequestStandsStill
  <2>12. workspace'.ready \subseteq Ready'
    BY <2>5, <2>7 DEF PartEditorsInv, Ready, ServerFollows
  <2> QED
    BY <2>3, <2>6, <2>7, <2>8, <2>10, <2>11, <2>12 DEF PartEditorsInv, SitePartEditorsTypeOK
<1>2. CASE /\ workspace' = [workspace EXCEPT !.pending = "none"]
           /\ UNCHANGED <<shellServer, shellEditor, shellRequests>>
  BY <1>0, <1>2, PartTypes, BesideTheEditor, TheServerFollowsItself DEF Workspace, PartEditorsInv
<1> QED
  BY <1>1, <1>2 DEF CreateSetAnswered

\* A button of the workspace is pressed.
LEMMA AskingKeeps ==
  ASSUME PartEditorsInv, AskCreateSet \/ AskActivate
  PROVE  PartEditorsInv'
<1>0. SitePartEditorsTypeOK
  BY DEF PartEditorsInv
<1>1. /\ UNCHANGED <<shellServer, shellEditor, shellRequests>>
      /\ workspace' \in Workspace /\ workspace'.ready = workspace.ready
  <2>1. CASE AskCreateSet
    BY <1>0, <2>1, PartTypes DEF AskCreateSet, Workspace
  <2>2. CASE AskActivate
    BY <1>0, <2>2, PartTypes DEF AskActivate, MayActivate, Workspace
  <2> QED
    BY <2>1, <2>2
<1> QED
  BY <1>0, <1>1, BesideTheEditor, TheServerFollowsItself, PartTypes DEF PartEditorsInv

\* The activation that was asked for is done, or refused.
LEMMA ActivateKeeps == ASSUME PartEditorsInv, ActivateAnswered PROVE PartEditorsInv'
<1> DEFINE s == workspace.activating
<1>0. SitePartEditorsTypeOK /\ UNCHANGED <<shellEditor, shellRequests>>
  BY DEF PartEditorsInv, ActivateAnswered
<1>1. CASE /\ s \in Ready
           /\ shellServer' = [shellServer EXCEPT !.active = s]
           /\ workspace' = [workspace EXCEPT !.active = s, !.activating = NoShellSet]
  <2>1. s \in ShellSets
    BY <1>1 DEF Ready
  <2> HIDE DEF s
  <2>2. /\ shellServer' \in ShellServer /\ shellServer'.version = shellServer.version
        /\ shellServer'.draft = shellServer.draft /\ shellServer'.live = shellServer.live
    BY <1>0, <1>1, <2>1, PartTypes DEF ShellServer
  <2>3. workspace' \in Workspace /\ workspace'.ready = workspace.ready
    BY <1>0, <1>1, <2>1, PartTypes DEF Workspace
  <2>4. ServerFollows(shellServer', shellServer)
    BY <1>0, <2>2, PartTypes DEF ServerFollows
  <2> QED
    BY <1>0, <2>2, <2>3, <2>4, BesideTheEditor DEF PartEditorsInv
<1>2. CASE /\ workspace' = [workspace EXCEPT !.activating = NoShellSet]
           /\ shellServer' = shellServer
  BY <1>0, <1>2, PartTypes, BesideTheEditor, TheServerFollowsItself DEF Workspace, PartEditorsInv
<1> QED
  BY <1>1, <1>2 DEF ActivateAnswered

\* An edit on the canvas of the editor.
LEMMA EditKeeps ==
  ASSUME PartEditorsInv, NEW c \in Shells, EditShell(c)
  PROVE  PartEditorsInv'
<1>1. /\ SitePartEditorsTypeOK /\ UNCHANGED <<shellServer, workspace, shellRequests>>
      /\ shellEditor.version # 0
  BY DEF PartEditorsInv, EditShell, Opened
<1>2. shellEditor.edits + 1 \in 0 .. MaxShellEdits /\ c \in OptionalShell
  BY <1>1, PartTypes, SitePartEditorsAssumption DEF EditShell, OptionalShell, ShellEditor
<1>3. shellEditor' = [shellEditor EXCEPT !.canvas = c, !.data = c, !.dirty = TRUE,
                                         !.edits = shellEditor.edits + 1]
  BY <1>1, PartTypes DEF EditShell, ShellEditor
<1>4. /\ shellEditor' \in ShellEditor /\ shellEditor'.target = shellEditor.target
      /\ shellEditor'.version = shellEditor.version /\ shellEditor'.data = c
      /\ shellEditor'.canvas = c /\ shellEditor'.dirty
      /\ shellEditor'.edits = shellEditor.edits + 1
  BY <1>1, <1>2, <1>3, PartTypes DEF ShellEditor
<1>5. EditorStands(shellEditor', shellServer)
  BY <1>1, <1>4 DEF PartEditorsInv, EditorStands
<1>6. ASSUME NEW r \in shellRequests PROVE RequestStands(r, shellEditor', shellServer)
  BY <1>1, <1>4, PartTypes DEF PartEditorsInv, RequestStands, AsksForEditor
<1> QED
  BY <1>1, <1>4, <1>5, <1>6 DEF PartEditorsInv, SitePartEditorsTypeOK, Ready

\* What is sent is what the editor would save, for the version that it knows.
LEMMA SentIsTyped ==
  ASSUME PartEditorsInv, Opened, NEW publishes \in BOOLEAN
  PROVE  LET r == SaveOf(publishes)
         IN  /\ r \in ShellRequest /\ r.kind = "save" /\ r.at = "sent" /\ r.mine
             /\ r.target = shellEditor.target /\ r.shell = shellEditor.data
             /\ r.asked = shellEditor.data /\ r.edits = shellEditor.edits
             /\ r.expected = shellEditor.version /\ shellEditor.data \in Shells
             /\ shellEditor.target \in ShellSets
<1>1. /\ SitePartEditorsTypeOK /\ shellEditor.target \in ShellSets
      /\ shellEditor.data \in Shells
  BY DEF PartEditorsInv, Opened, EditorStands
<1>2. /\ shellEditor.edits \in 0 .. MaxShellEdits /\ shellEditor.version \in ShellVersions
      /\ shellEditor.data \in OptionalShell /\ 0 \in ShellVersions
      /\ 0 \in 0 .. MaxShellEdits
  BY <1>1, PartTypes, SitePartEditorsAssumption DEF ShellEditor, ShellVersions
<1> DEFINE n == NewRequest("save", shellEditor.target)
<1>3. n \in ShellRequest /\ n.kind = "save" /\ n.at = "sent" /\ n.mine
  BY <1>1, <1>2 DEF NewRequest, ShellRequest, OptionalShell
<1>4. SaveOf(publishes)
        = [n EXCEPT !.shell = shellEditor.data, !.edits = shellEditor.edits,
                    !.expected = shellEditor.version, !.publish = publishes,
                    !.asked = shellEditor.data]
  BY DEF SaveOf
<1>5. n.target = shellEditor.target
  BY DEF NewRequest
<1> HIDE DEF n
<1> QED
  BY <1>1, <1>2, <1>3, <1>4, <1>5 DEF ShellRequest

\* The editor that waits for nothing sends one request.
LEMMA OneIsSent ==
  ASSUME PartEditorsInv, ~Waiting, NEW r \in ShellRequest, r.mine,
         RequestStands(r, shellEditor, shellServer),
         shellRequests' = shellRequests \cup {r},
         UNCHANGED <<shellServer, workspace, shellEditor>>
  PROVE  PartEditorsInv'
BY DEF Waiting, Mine, PartEditorsInv, SitePartEditorsTypeOK, Ready

\* The editor asks for its content, saves or publishes.
LEMMA SendingKeeps ==
  ASSUME PartEditorsInv, AutosaveShell \/ SaveShell \/ PublishShell
  PROVE  PartEditorsInv'
<1>1. /\ Opened /\ ~Waiting /\ UNCHANGED <<shellServer, workspace, shellEditor>>
  BY DEF AutosaveShell, SaveShell, PublishShell, MayAutosave
<1>2. ASSUME NEW publishes \in BOOLEAN, shellRequests' = shellRequests \cup {SaveOf(publishes)}
      PROVE  PartEditorsInv'
  BY <1>1, <1>2, SentIsTyped, PartTypes, OneIsSent DEF PartEditorsInv, RequestStands, AsksForEditor,
     Opened
<1>3. ASSUME ~shellEditor.dirty,
             shellRequests' = shellRequests \cup {PublishOf(SaveOf(FALSE), shellEditor.version)}
      PROVE  PartEditorsInv'
  <2> DEFINE s == SaveOf(FALSE)
             r == PublishOf(s, shellEditor.version)
  <2>1. /\ s \in ShellRequest /\ s.mine
        /\ s.target = shellEditor.target /\ s.shell = shellEditor.data
        /\ s.asked = shellEditor.data /\ s.edits = shellEditor.edits
        /\ shellEditor.data \in Shells /\ shellEditor.target \in ShellSets
    BY <1>1, SentIsTyped
  <2>2. shellRequests' = shellRequests \cup {r} /\ shellEditor.version \in ShellVersions
        /\ 0 \in ShellVersions
    BY <1>3, PartTypes, SitePartEditorsAssumption DEF PartEditorsInv, ShellEditor, ShellVersions
  <2>3. r = [s EXCEPT !.kind = "publish", !.at = "sent", !.expected = shellEditor.version,
                      !.answer = 0, !.publish = FALSE]
    BY DEF PublishOf
  <2> HIDE DEF r, s
  <2>4. /\ r \in ShellRequest /\ r.kind = "publish" /\ r.at = "sent" /\ r.mine
        /\ r.target = shellEditor.target /\ r.shell = shellEditor.data
        /\ r.asked = shellEditor.data /\ r.edits = shellEditor.edits
        /\ r.expected = shellEditor.version
    BY <2>1, <2>2, <2>3 DEF ShellRequest
  <2>5. shellEditor.edits \in Nat
    BY PartTypes DEF PartEditorsInv
  <2>6. NamesDraft(r.target, r.expected, r.shell, shellServer)
    BY <1>1, <1>3, <2>4 DEF PartEditorsInv, EditorStands, Opened
  <2>7. RequestStands(r, shellEditor, shellServer)
    BY <1>1, <2>1, <2>4, <2>5, <2>6 DEF RequestStands, AsksForEditor, Opened
  <2> QED
    BY <1>1, <2>2, <2>4, <2>7, OneIsSent
<1> QED
  BY <1>2, <1>3 DEF AutosaveShell, SaveShell, PublishShell

\* A request gets its answer.
LEMMA OneIsAnswered ==
  ASSUME PartEditorsInv, NEW r \in shellRequests, NEW q \in ShellRequest, q.mine = r.mine,
         shellServer' \in ShellServer, ServerFollows(shellServer', shellServer),
         \A s \in ShellSets : shellServer'.version[s] # 0 => shellServer'.draft[s] \in Shells,
         RequestStands(q, shellEditor, shellServer'),
         shellRequests' = (shellRequests \ {r}) \cup {q},
         UNCHANGED <<workspace, shellEditor>>
  PROVE  PartEditorsInv'
BY PartTypes, EditorStandsStill, RequestStandsStill DEF PartEditorsInv, SitePartEditorsTypeOK,
   Ready, ServerFollows

\* The answer tells the version and the content that the call left.
LEMMA AnswerIsTrue ==
  ASSUME PartEditorsInv, NEW r \in shellRequests, NEW version \in ShellVersions,
         NEW shell \in OptionalShell, NEW store,
         r.kind # "load" => shell = r.shell,
         version # 0 => shell \in Shells /\ NamesDraft(r.target, version, shell, store),
         version # 0 /\ r.kind = "publish" => store.live[r.target] # NoShell
  PROVE  LET q == [r EXCEPT !.at = "answered", !.answer = version, !.shell = shell]
         IN  q \in ShellRequest /\ q.mine = r.mine /\ RequestStands(q, shellEditor, store)
<1> DEFINE q == [r EXCEPT !.at = "answered", !.answer = version, !.shell = shell]
<1>1. r \in ShellRequest /\ RequestStands(r, shellEditor, shellServer)
  BY PartTypes DEF PartEditorsInv
<1>2. /\ q \in ShellRequest /\ q.kind = r.kind /\ q.at = "answered" /\ q.answer = version
      /\ q.shell = shell /\ q.mine = r.mine /\ q.target = r.target /\ q.edits = r.edits
      /\ q.asked = r.asked
  BY <1>1 DEF ShellRequest
<1> HIDE DEF q
<1>3. RequestStands(q, shellEditor, store)
  BY <1>1, <1>2 DEF RequestStands, AsksForEditor
<1> QED
  BY <1>2, <1>3 DEF q

\* Without its content the answer is the same.
LEMMA AnsweredKeepsShell ==
  ASSUME PartEditorsInv, NEW r \in shellRequests, NEW version, AnsweredWith(r, version)
  PROVE  /\ r.shell \in OptionalShell
         /\ shellRequests' = (shellRequests \ {r}) \cup
               {[r EXCEPT !.at = "answered", !.answer = version, !.shell = r.shell]}
BY PartTypes DEF PartEditorsInv, ShellRequest, AnsweredWith

\* A request that fails or is refused.
LEMMA RefusedKeeps ==
  ASSUME PartEditorsInv, NEW r \in shellRequests, AnsweredWith(r, 0),
         UNCHANGED <<shellServer, workspace, shellEditor>>
  PROVE  PartEditorsInv'
<1>1. /\ r.shell \in OptionalShell
      /\ shellRequests' = (shellRequests \ {r}) \cup
            {[r EXCEPT !.at = "answered", !.answer = 0, !.shell = r.shell]}
  BY AnsweredKeepsShell
<1>2. /\ 0 \in ShellVersions /\ SitePartEditorsTypeOK /\ shellServer \in ShellServer
      /\ ServerFollows(shellServer, shellServer)
  BY PartTypes, TheServerFollowsItself, SitePartEditorsAssumption DEF PartEditorsInv, ShellVersions
<1> DEFINE q == [r EXCEPT !.at = "answered", !.answer = 0, !.shell = r.shell]
<1>3. q \in ShellRequest /\ q.mine = r.mine /\ RequestStands(q, shellEditor, shellServer)
  BY <1>1, <1>2, AnswerIsTrue
<1>4. shellRequests' = (shellRequests \ {r}) \cup {q}
  BY <1>1
<1> HIDE DEF q
<1> QED
  BY <1>2, <1>3, <1>4, OneIsAnswered DEF PartEditorsInv

\* The server handled a call, and the answer may be lost.
LEMMA HandledKeeps ==
  ASSUME PartEditorsInv, NEW r \in shellRequests, r.kind # "load",
         shellServer' \in ShellServer, ServerFollows(shellServer', shellServer),
         \A s \in ShellSets : shellServer'.version[s] # 0 => shellServer'.draft[s] \in Shells,
         shellServer'.draft[r.target] = r.shell, r.shell \in Shells,
         r.kind = "publish" => shellServer'.live[r.target] # NoShell,
         NEW lost \in BOOLEAN,
         AnsweredWith(r, IF lost THEN 0 ELSE shellServer'.version[r.target]),
         UNCHANGED <<workspace, shellEditor>>
  PROVE  PartEditorsInv'
<1> DEFINE version == IF lost THEN 0 ELSE shellServer'.version[r.target]
           q == [r EXCEPT !.at = "answered", !.answer = version, !.shell = r.shell]
<1>1. SitePartEditorsTypeOK /\ r.target \in ShellSets
  BY PartTypes DEF PartEditorsInv
<1>2. version \in ShellVersions /\ (version # 0 => version = shellServer'.version[r.target])
  BY <1>1, SitePartEditorsAssumption DEF ShellServer, ShellVersions
<1>3. version \in Nat
  BY <1>1, <1>2, PartTypes
<1>4. AnsweredWith(r, version)
  OBVIOUS
<1> HIDE DEF version
<1>5. /\ r.shell \in OptionalShell /\ shellRequests' = (shellRequests \ {r}) \cup {q}
  BY <1>4, AnsweredKeepsShell
<1>6. version # 0 => r.shell \in Shells /\ NamesDraft(r.target, version, r.shell, shellServer')
  BY <1>2, <1>3 DEF NamesDraft
<1>7. q \in ShellRequest /\ q.mine = r.mine /\ RequestStands(q, shellEditor, shellServer')
  BY <1>2, <1>5, <1>6, AnswerIsTrue
<1> HIDE DEF q
<1> QED
  BY <1>5, <1>7, OneIsAnswered

\* What a publication makes public is the draft of the version that it names.
LEMMA PublishesTheDraft ==
  ASSUME PartEditorsInv, NEW r \in shellRequests, r.kind = "publish", r.at = "sent",
         AcceptsShell(r)
  PROVE  /\ shellServer.version[r.target] # 0 /\ r.shell = shellServer.draft[r.target]
         /\ r.asked = r.shell /\ r.shell \in Shells /\ r.target \in ShellSets
BY PartTypes DEF PartEditorsInv, AcceptsShell, RequestStands, NamesDraft

\* What a publication makes of the server.
LEMMA PublicationIsWritten ==
  ASSUME PartEditorsInv, NEW r \in shellRequests, r.kind = "publish", r.at = "sent",
         AcceptsShell(r),
         shellServer' = DraftPublished(r.target)
  PROVE  /\ shellServer' \in ShellServer /\ ServerFollows(shellServer', shellServer)
         /\ \A t \in ShellSets : shellServer'.version[t] # 0 => shellServer'.draft[t] \in Shells
         /\ shellServer'.draft[r.target] = r.shell /\ shellServer'.live[r.target] = r.shell
         /\ \A t \in ShellSets \ {r.target} : shellServer'.live[t] = shellServer.live[t]
<1>0. PICK s \in ShellSets : s = r.target
  BY PublishesTheDraft
<1> DEFINE version == IF s \in shellServer.current THEN shellServer.version[s]
                      ELSE shellServer.version[s] + 1
           current == shellServer.current \cup {s}
<1>1. /\ SitePartEditorsTypeOK /\ r.shell = shellServer.draft[s]
      /\ r.shell \in Shells
  BY <1>0, PublishesTheDraft DEF PartEditorsInv
<1>2. /\ shellServer.version[s] \in ShellVersions /\ shellServer.version[s] < MaxShellVersion
      /\ MaxShellVersion \in Nat
  BY <1>0, <1>1, PartTypes, SitePartEditorsAssumption DEF AcceptsShell, RoomFor, Room, ShellVersions
<1>3. version \in ShellVersions /\ shellServer.version[s] <= version
  BY <1>2 DEF ShellVersions
<1>4. /\ r.shell \in OptionalShell /\ current \in SUBSET ShellSets
  BY <1>1, PartTypes DEF OptionalShell
<1>5. shellServer' = WithSet(s, version, r.shell, r.shell, current)
  BY <1>0, <1>1 DEF DraftPublished
<1> HIDE DEF version, current
<1>6. /\ shellServer' \in ShellServer
      /\ shellServer'.version[s] = version
      /\ shellServer'.draft[s] = r.shell /\ shellServer'.live[s] = r.shell
      /\ \A t \in ShellSets \ {s} : /\ shellServer'.version[t] = shellServer.version[t]
                                    /\ shellServer'.draft[t] = shellServer.draft[t]
                                    /\ shellServer'.live[t] = shellServer.live[t]
  BY <1>1, <1>3, <1>4, <1>5, SetIsWritten
<1>7. \A t \in ShellSets : shellServer.version[t] \in Nat
  BY <1>1, PartTypes
<1>8. r.shell # NoShell
  BY <1>1, SitePartEditorsAssumption DEF NoShell
<1>9. ServerFollows(shellServer', shellServer)
  BY <1>1, <1>3, <1>6, <1>8, <1>7 DEF ServerFollows
<1>10. \A t \in ShellSets : shellServer'.version[t] # 0 => shellServer'.draft[t] \in Shells
  BY <1>1, <1>6 DEF PartEditorsInv
<1> QED
  BY <1>0, <1>6, <1>9, <1>10

\* The server handles a request, of this editor or of one that was left.
LEMMA HandleKeeps ==
  ASSUME PartEditorsInv, NEW r \in shellRequests, HandleShell(r)
  PROVE  PartEditorsInv'
<1>1. /\ SitePartEditorsTypeOK /\ r.at = "sent" /\ UNCHANGED <<workspace, shellEditor>>
      /\ r.target \in ShellSets /\ RequestStands(r, shellEditor, shellServer)
  BY PartTypes DEF PartEditorsInv, HandleShell
<1>2. CASE AnsweredWith(r, 0) /\ UNCHANGED shellServer
  BY <1>1, <1>2, RefusedKeeps
<1>3. CASE /\ r.kind = "load"
           /\ shellRequests' = (shellRequests \ {r}) \cup
                 {[r EXCEPT !.at = "answered", !.answer = shellServer.version[r.target],
                            !.shell = shellServer.draft[r.target]]}
           /\ UNCHANGED shellServer
  <2> DEFINE version == shellServer.version[r.target]
             shell == shellServer.draft[r.target]
             q == [r EXCEPT !.at = "answered", !.answer = version, !.shell = shell]
  <2>1. /\ version \in ShellVersions /\ shell \in OptionalShell /\ version \in Nat
        /\ (version # 0 => shell \in Shells)
    BY <1>1, PartTypes DEF PartEditorsInv
  <2>2. NamesDraft(r.target, version, shell, shellServer)
    BY <2>1 DEF NamesDraft
  <2>3. shellRequests' = (shellRequests \ {r}) \cup {q}
    BY <1>3
  <2> HIDE DEF version, shell
  <2>4. q \in ShellRequest /\ q.mine = r.mine /\ RequestStands(q, shellEditor, shellServer)
    BY <1>3, <2>1, <2>2, AnswerIsTrue
  <2> HIDE DEF q
  <2>5. shellServer \in ShellServer /\ ServerFollows(shellServer, shellServer)
    BY <1>1, PartTypes, TheServerFollowsItself
  <2> QED
    BY <1>1, <1>3, <2>3, <2>4, <2>5, OneIsAnswered DEF PartEditorsInv
<1>4. ASSUME r.kind = "save", AcceptsShell(r), shellServer' = Drafted(r.target, r.shell),
             NEW lost \in BOOLEAN,
             AnsweredWith(r, IF lost THEN 0 ELSE shellServer'.version[r.target])
      PROVE  PartEditorsInv'
  <2>1. r.shell \in Shells
    BY <1>1, <1>4 DEF RequestStands
  <2>2. shellServer.version[r.target] < MaxShellVersion
    BY <1>1, <1>4, PartTypes, SitePartEditorsAssumption DEF AcceptsShell, RoomFor, Room
  <2>3. /\ shellServer' \in ShellServer /\ ServerFollows(shellServer', shellServer)
        /\ \A t \in ShellSets : shellServer'.version[t] # 0 => shellServer'.draft[t] \in Shells
        /\ shellServer'.draft[r.target] = r.shell
    BY <1>1, <1>4, <2>1, <2>2, DraftIsWritten
  <2> QED
    BY <1>1, <1>4, <2>1, <2>3, HandledKeeps
<1>5. ASSUME r.kind = "publish", AcceptsShell(r),
             shellServer' = DraftPublished(r.target),
             NEW lost \in BOOLEAN,
             AnsweredWith(r, IF lost THEN 0 ELSE shellServer'.version[r.target])
      PROVE  PartEditorsInv'
  BY <1>1, <1>5, PublicationIsWritten, PublishesTheDraft, SitePartEditorsAssumption, HandledKeeps
     DEF NoShell
<1> QED
  BY <1>2, <1>3, <1>4, <1>5 DEF HandleShell

\* The editor takes the answer that it waited for.
LEMMA EditorTakesAnswer ==
  ASSUME PartEditorsInv, NEW r \in shellRequests, r.mine,
         shellEditor' \in ShellEditor, EditorStands(shellEditor', shellServer),
         shellRequests' \subseteq ShellRequest,
         NEW q, shellRequests' = shellRequests \ {r} \/ shellRequests' = (shellRequests \ {r}) \cup {q},
         q \in shellRequests' => RequestStands(q, shellEditor', shellServer),
         shellServer' = shellServer, workspace' \in Workspace, workspace'.ready \subseteq Ready
  PROVE  PartEditorsInv'
BY OthersWait DEF PartEditorsInv, SitePartEditorsTypeOK, Ready

\* The answer of a load.
LEMMA LoadKeepsParts ==
  ASSUME PartEditorsInv, NEW r \in shellRequests, LoadAnswered(r)
  PROVE  PartEditorsInv'
<1>1. /\ SitePartEditorsTypeOK /\ r \in ShellRequest /\ r.mine
      /\ RequestStands(r, shellEditor, shellServer) /\ r.kind = "load" /\ r.at = "answered"
      /\ shellEditor \in ShellEditor /\ workspace \in Workspace /\ r.target \in ShellSets
  BY PartTypes DEF PartEditorsInv, LoadAnswered, RequestStands
<1>2. r.target = shellEditor.target /\ ~shellEditor.dirty
  BY <1>1 DEF RequestStands, AsksForEditor, PartEditorsInv, EditorStands
<1>3. /\ shellEditor' \in ShellEditor /\ shellEditor'.target = r.target
      /\ shellEditor'.version = r.answer /\ shellEditor'.canvas = r.shell
      /\ shellEditor'.data = r.shell /\ ~shellEditor'.dirty
  BY <1>1, <1>2 DEF LoadAnswered, ShellEditor, ShellRequest
<1>4. EditorStands(shellEditor', shellServer)
  BY <1>1, <1>3 DEF EditorStands, RequestStands, NamesDraft
<1>5. shellRequests' = shellRequests \ {r} /\ shellServer' = shellServer
      /\ workspace' = workspace /\ shellRequests' \subseteq ShellRequest
  BY <1>1 DEF LoadAnswered, SitePartEditorsTypeOK
<1>6. workspace'.ready \subseteq Ready /\ r \notin shellRequests'
  BY <1>5 DEF PartEditorsInv
<1> QED
  BY <1>1, <1>3, <1>4, <1>5, <1>6, EditorTakesAnswer

\* Only an answer to what is still there makes the editor clean.
LEMMA SavedEditorStands ==
  ASSUME PartEditorsInv, NEW r \in shellRequests, r.mine, r.kind # "load", r.at = "answered",
         r.answer # 0
  PROVE  LET n == SavedEditor(r)
         IN  /\ n \in ShellEditor /\ EditorStands(n, shellServer)
             /\ n.target = shellEditor.target /\ n.version = r.answer
             /\ n.edits = shellEditor.edits /\ n.data = shellEditor.data
             /\ r.edits # shellEditor.edits => n.dirty
<1> DEFINE dirty == shellEditor.dirty /\ shellEditor.edits # r.edits
           n == SavedEditor(r)
<1>1. /\ SitePartEditorsTypeOK /\ r \in ShellRequest
      /\ RequestStands(r, shellEditor, shellServer)
      /\ shellEditor \in ShellEditor /\ EditorStands(shellEditor, shellServer)
  BY PartTypes DEF PartEditorsInv
<1>2. AsksForEditor(r, shellEditor)
  BY <1>1 DEF RequestStands
<1>3. /\ dirty \in BOOLEAN /\ (~dirty => r.edits = shellEditor.edits)
      /\ (r.edits # shellEditor.edits => dirty)
  BY <1>2 DEF AsksForEditor
<1>4. n = [shellEditor EXCEPT !.version = r.answer, !.dirty = dirty]
  BY DEF SavedEditor
<1> HIDE DEF dirty, n
<1>5. /\ n \in ShellEditor /\ n.version = r.answer /\ n.dirty = dirty
      /\ n.target = shellEditor.target /\ n.data = shellEditor.data
      /\ n.canvas = shellEditor.canvas /\ n.edits = shellEditor.edits
      /\ n.kind = shellEditor.kind
  BY <1>1, <1>3, <1>4 DEF ShellEditor, ShellRequest
<1>6. ~dirty => shellEditor.data = r.shell
  BY <1>2, <1>3 DEF AsksForEditor
<1>7. /\ shellEditor.version # 0 /\ r.target = shellEditor.target
      /\ NamesDraft(r.target, r.answer, r.shell, shellServer)
  BY <1>1, <1>2 DEF AsksForEditor, RequestStands
<1>8. EditorStands(n, shellServer)
  BY <1>1, <1>5, <1>6, <1>7 DEF EditorStands, NamesDraft
<1> QED
  BY <1>3, <1>5, <1>8 DEF n

\* The publication that a save is followed by is of what was saved.
LEMMA FollowedByPublication ==
  ASSUME PartEditorsInv, NEW r \in shellRequests, r.kind = "save", r.at = "answered",
         r.answer # 0, NEW editor,
         r.mine => /\ editor.target = shellEditor.target /\ editor.version # 0
                   /\ editor.edits = shellEditor.edits /\ editor.data = shellEditor.data
                   /\ r.edits # shellEditor.edits => editor.dirty
  PROVE  LET q == PublishOf(r, r.answer)
         IN  q \in ShellRequest /\ q.mine = r.mine /\ RequestStands(q, editor, shellServer)
<1> DEFINE q == PublishOf(r, r.answer)
<1>1. r \in ShellRequest /\ RequestStands(r, shellEditor, shellServer)
      /\ 0 \in ShellVersions
  BY PartTypes, SitePartEditorsAssumption DEF PartEditorsInv, ShellVersions
<1>2. q = [r EXCEPT !.kind = "publish", !.at = "sent", !.expected = r.answer, !.answer = 0,
                    !.publish = FALSE]
  BY DEF PublishOf
<1> HIDE DEF q
<1>3. /\ q \in ShellRequest /\ q.kind = "publish" /\ q.at = "sent" /\ q.expected = r.answer
      /\ q.shell = r.shell /\ q.mine = r.mine /\ q.target = r.target /\ q.edits = r.edits
      /\ q.asked = r.asked
  BY <1>1, <1>2 DEF ShellRequest
<1>4. r.mine => AsksForEditor(q, editor)
  BY <1>1, <1>3 DEF RequestStands, AsksForEditor
<1>5. RequestStands(q, editor, shellServer)
  BY <1>1, <1>3, <1>4 DEF RequestStands
<1> QED
  BY <1>3, <1>5 DEF q

\* The answer of a save.
LEMMA SaveKeepsParts ==
  ASSUME PartEditorsInv, NEW r \in shellRequests, SaveShellAnswered(r)
  PROVE  PartEditorsInv'
<1> DEFINE q == PublishOf(r, r.answer)
<1>1. /\ SitePartEditorsTypeOK /\ r.kind = "save" /\ r.at = "answered"
      /\ UNCHANGED <<shellServer, workspace>> /\ r \in ShellRequest
      /\ shellEditor \in ShellEditor /\ EditorStands(shellEditor, shellServer)
      /\ workspace \in Workspace /\ workspace.ready \subseteq Ready
      /\ shellRequests \subseteq ShellRequest
  BY PartTypes DEF PartEditorsInv, SaveShellAnswered
<1>2. \/ shellRequests' = shellRequests \ {r}
      \/ /\ shellRequests' = (shellRequests \ {r}) \cup {q}
         /\ r.answer # 0
  BY DEF SaveShellAnswered, Without
<1>3. ASSUME r.answer # 0, NEW editor,
             r.mine => /\ editor.target = shellEditor.target /\ editor.version # 0
                       /\ editor.edits = shellEditor.edits /\ editor.data = shellEditor.data
                       /\ r.edits # shellEditor.edits => editor.dirty
      PROVE  q \in ShellRequest /\ q.mine = r.mine /\ RequestStands(q, editor, shellServer)
  BY <1>1, <1>3, FollowedByPublication
<1> HIDE DEF q
<1>4. CASE r.mine
  <2>1. /\ shellEditor' \in ShellEditor /\ EditorStands(shellEditor', shellServer)
        /\ r.answer # 0 =>
              /\ shellEditor'.target = shellEditor.target /\ shellEditor'.version # 0
              /\ shellEditor'.edits = shellEditor.edits /\ shellEditor'.data = shellEditor.data
              /\ r.edits # shellEditor.edits => shellEditor'.dirty
    <3>1. CASE r.answer = 0
      BY <1>1, <3>1 DEF SaveShellAnswered
    <3>2. CASE r.answer # 0
      BY <1>4, <3>2, <1>1, SavedEditorStands DEF SaveShellAnswered
    <3> QED
      BY <3>1, <3>2
  <2>2. r.answer # 0 => q \in ShellRequest /\ RequestStands(q, shellEditor', shellServer)
    BY <1>3, <2>1
  <2>3. q \in shellRequests' => RequestStands(q, shellEditor', shellServer)
    <3>1. CASE r.answer # 0
      BY <2>2, <3>1
    <3>2. CASE r.answer = 0
      BY <1>2, <3>2, <1>4, OthersWait
    <3> QED
      BY <3>1, <3>2
  <2>4. shellRequests' \subseteq ShellRequest
    BY <1>1, <1>2, <2>2
  <2>5. workspace' \in Workspace /\ workspace'.ready \subseteq Ready /\ shellServer' = shellServer
    BY <1>1
  <2> QED
    BY <1>2, <1>4, <2>1, <2>3, <2>4, <2>5, EditorTakesAnswer
<1>5. CASE ~r.mine
  BY <1>5, <1>3, <1>2, <1>1 DEF SaveShellAnswered, PartEditorsInv, SitePartEditorsTypeOK, Ready
<1> QED
  BY <1>4, <1>5

\* What the set editor holds after its publication is what was published.
LEMMA PublishedEditorStands ==
  ASSUME PartEditorsInv, NEW r \in shellRequests, r.mine, r.kind = "publish",
         r.at = "answered", r.answer # 0, shellEditor.kind = "set"
  PROVE  /\ PublishedSetEditor(r) \in ShellEditor
         /\ EditorStands(PublishedSetEditor(r), shellServer)
<1> DEFINE n == PublishedSetEditor(r)
<1>1. /\ r \in ShellRequest /\ RequestStands(r, shellEditor, shellServer)
      /\ shellEditor \in ShellEditor /\ r.target \in ShellSets
  BY PartTypes DEF PartEditorsInv
<1>2. /\ r.target = shellEditor.target /\ r.shell \in Shells
      /\ NamesDraft(r.target, r.answer, r.shell, shellServer)
  BY <1>1 DEF RequestStands, AsksForEditor
<1>3. n = [shellEditor EXCEPT !.version = r.answer, !.dirty = FALSE, !.data = r.shell]
  BY DEF PublishedSetEditor
<1> HIDE DEF n
<1>4. /\ n \in ShellEditor /\ n.version = r.answer /\ ~n.dirty /\ n.data = r.shell
      /\ n.target = r.target /\ n.kind = "set"
  BY <1>1, <1>2, <1>3 DEF ShellEditor, ShellRequest
<1>5. EditorStands(n, shellServer)
  BY <1>1, <1>2, <1>4 DEF EditorStands, NamesDraft
<1> QED
  BY <1>4, <1>5 DEF n

\* The answer of a publication.
LEMMA PublishKeepsParts ==
  ASSUME PartEditorsInv, NEW r \in shellRequests, PublishShellAnswered(r)
  PROVE  PartEditorsInv'
<1>1. /\ SitePartEditorsTypeOK /\ r.kind = "publish" /\ r.at = "answered"
      /\ shellServer' = shellServer /\ r \in ShellRequest /\ r.target \in ShellSets
      /\ shellEditor \in ShellEditor /\ EditorStands(shellEditor, shellServer)
      /\ workspace \in Workspace /\ workspace.ready \subseteq Ready
      /\ shellRequests' = shellRequests \ {r} /\ shellRequests' \subseteq ShellRequest
  BY PartTypes DEF PartEditorsInv, PublishShellAnswered, Without, SitePartEditorsTypeOK
<1>2. workspace' \in Workspace /\ workspace'.ready \subseteq Ready
  <2>1. CASE r.answer = 0
    BY <1>1, <2>1 DEF PublishShellAnswered
  <2>2. CASE r.answer # 0
    BY <1>1, <2>2 DEF PartEditorsInv, RequestStands, Ready, PublishShellAnswered, Told, Workspace
  <2> QED
    BY <2>1, <2>2
<1>3. CASE ~r.mine \/ r.answer = 0
  BY <1>3, <1>1, <1>2 DEF PublishShellAnswered, PartEditorsInv, SitePartEditorsTypeOK, Ready
<1>4. CASE r.mine /\ r.answer # 0
  <2>1. shellEditor' = IF IsSetEditor THEN PublishedSetEditor(r) ELSE SavedEditor(r)
    BY <1>4 DEF PublishShellAnswered
  <2>2. shellEditor' \in ShellEditor /\ EditorStands(shellEditor', shellServer)
    BY <1>1, <1>4, <2>1, PublishedEditorStands, SavedEditorStands DEF IsSetEditor
  <2>3. r \notin shellRequests'
    BY <1>1
  <2> QED
    BY <1>1, <1>2, <1>4, <2>2, <2>3, EditorTakesAnswer
<1> QED
  BY <1>3, <1>4

\* Another administrator saves the set.
LEMMA OtherKeepsParts ==
  ASSUME PartEditorsInv, NEW d \in Shells, OtherSavesShell(d)
  PROVE  PartEditorsInv'
<1> DEFINE s == shellEditor.target
<1>1. /\ s \in ShellSets /\ Room(s) /\ shellServer' = Drafted(s, d)
      /\ UNCHANGED <<workspace, shellEditor, shellRequests>> /\ SitePartEditorsTypeOK
  BY DEF OtherSavesShell, Stored, PartEditorsInv
<1>2. shellServer.version[s] < MaxShellVersion
  BY <1>1, PartTypes, SitePartEditorsAssumption DEF Room
<1> HIDE DEF s
<1>3. /\ shellServer' \in ShellServer /\ ServerFollows(shellServer', shellServer)
      /\ \A t \in ShellSets : shellServer'.version[t] # 0 => shellServer'.draft[t] \in Shells
  BY <1>1, <1>2, DraftIsWritten
<1> QED
  BY <1>1, <1>3, BesideTheEditor, PartTypes DEF PartEditorsInv

\* Every step of the workspace and its editors keeps them sound.
LEMMA PartEditorsStep ==
  ASSUME PartEditorsInv, [SitePartEditorsNext]_partEditorVars
  PROVE  PartEditorsInv'
<1>1. CASE UNCHANGED partEditorVars
  BY <1>1 DEF PartEditorsInv, SitePartEditorsTypeOK, Ready, partEditorVars
<1>2. CASE WorkspaceLoaded
  BY <1>2, LoadOfWorkspaceKeeps
<1>3. CASE AskCreateSet \/ AskActivate
  BY <1>3, AskingKeeps
<1>4. CASE CreateSetAnswered
  BY <1>4, CreateKeeps
<1>5. CASE ActivateAnswered
  BY <1>5, ActivateKeeps
<1>6. CASE AutosaveShell \/ SaveShell \/ PublishShell
  BY <1>6, SendingKeeps
<1>7. ASSUME NEW s \in ShellSets, SelectSet(s) PROVE PartEditorsInv'
  BY <1>7, SelectOfSetKeeps
<1>8. ASSUME NEW c \in Shells, EditShell(c) \/ OtherSavesShell(c) PROVE PartEditorsInv'
  BY <1>8, EditKeeps, OtherKeepsParts
<1>9. ASSUME NEW r \in shellRequests,
             HandleShell(r) \/ LoadAnswered(r) \/ SaveShellAnswered(r) \/ PublishShellAnswered(r)
      PROVE  PartEditorsInv'
  BY <1>9, HandleKeeps, LoadKeepsParts, SaveKeepsParts, PublishKeepsParts
<1> QED
  BY <1>1, <1>2, <1>3, <1>4, <1>5, <1>6, <1>7, <1>8, <1>9 DEF SitePartEditorsNext

\* A clean canvas is stored, and what can be activated is ready.
LEMMA PartsAreTrue == PartEditorsInv => CleanPartIsStored /\ OffersOnlyReady
<1>1. ASSUME PartEditorsInv PROVE CleanPartIsStored
  <2>1. shellEditor.kind \in {"set", "part"}
    BY <1>1, PartTypes DEF PartEditorsInv, ShellEditor
  <2> QED
    BY <1>1, <2>1 DEF PartEditorsInv, EditorStands, CleanPartIsStored, IsSetEditor,
       CleanCanvasIsStored, Opened, NamesDraft
<1> QED
  BY <1>1 DEF PartEditorsInv, OffersOnlyReady, MayActivate

\* The property of a step.
LEMMA PublishesTheCanvas ==
  ASSUME PartEditorsInv, [SitePartEditorsNext]_partEditorVars, NEW s \in ShellSets,
         shellServer'.live[s] # shellServer.live[s]
  PROVE  \E r \in shellRequests : /\ r.kind = "publish" /\ r.target = s
                                  /\ shellServer'.live[s] = r.asked
<1>0. SitePartEditorsTypeOK
  BY DEF PartEditorsInv
<1>1. ASSUME NEW t \in ShellSets, NEW d \in Shells, shellServer' = Drafted(t, d) PROVE FALSE
  BY <1>1, <1>0, PartTypes DEF Drafted, WithSet
<1>2. CASE CreateSetAnswered
  <2>1. PICK t \in ShellSets :
          shellServer' = WithSet(t, 1, DefaultShell, shellServer.live[t], shellServer.current)
    BY <1>2 DEF CreateSetAnswered
  <2> DEFINE lives == [shellServer.live EXCEPT ![t] = shellServer.live[t]]
  <2>2. lives[s] = shellServer.live[s]
    BY <1>0, PartTypes
  <2>3. shellServer'.live = lives
    BY <2>1 DEF WithSet
  <2> QED
    BY <2>2, <2>3
<1>3. CASE ActivateAnswered
  BY <1>0, <1>3, PartTypes DEF ActivateAnswered, ShellServer
<1>4. ASSUME NEW r \in shellRequests, HandleShell(r)
      PROVE  r.kind = "publish" /\ r.target = s /\ shellServer'.live[s] = r.asked
  BY <1>0, <1>4, <1>1, PartTypes, PublicationIsWritten, PublishesTheDraft DEF HandleShell,
     PartEditorsInv, RequestStands
<1>5. CASE \E d \in Shells : OtherSavesShell(d)
  BY <1>1, <1>5 DEF OtherSavesShell, Stored
<1> QED
  BY <1>2, <1>3, <1>4, <1>5 DEF SitePartEditorsNext, partEditorVars, WorkspaceLoaded, AskCreateSet,
     AskActivate, AutosaveShell, SaveShell, PublishShell, SelectSet, EditShell, LoadAnswered,
     SaveShellAnswered, PublishShellAnswered
-----------------------------------------------------------------------------
(***************************************************************************)
(* The pair of parts. Each part knows a version of its row; two calls are  *)
(* on their way together only when they save different parts.              *)
(***************************************************************************)

\* A part knows a version of its row, its next save sends it, and what is clean is
\* the draft of that version.
PartStands(part, row) ==
    /\ part.token = part.lock /\ part.lock <= row.lock /\ 1 <= row.lock
    /\ part.lock # 0 /\ ~part.dirty /\ part.lock = row.lock => part.doc = row.draft

\* What a part was sent with is what the editor still knows of it, and a successful
\* answer tells the version and the draft that the call made of it.
WritesOnePart(c, part, row) ==
    /\ c.locks[c.part] = part.lock
    /\ c.kind = "save" =>
          /\ part.pending /\ c.edits <= part.edits
          /\ part.edits = c.edits \/ ~part.dirty => part.doc = c.doc
    /\ c.at = "answered" /\ CallSucceeded(c) =>
          /\ part.lock < c.answer[c.part].lock /\ c.answer[c.part].lock <= row.lock
          /\ c.answer[c.part].lock = row.lock => row.draft = c.doc

PublishesPart(c, k, part, row) ==
    /\ c.locks[k] = part.lock /\ ~part.dirty
    /\ c.at = "answered" /\ CallSucceeded(c) =>
          /\ part.lock <= c.answer[k].lock /\ c.answer[k].lock <= row.lock
          /\ c.answer[k].lock = row.lock => part.doc = row.draft

CallStands(c, editor, rows) ==
    /\ c.kind # "publish" => c.doc \in PartDocs
    /\ c.at = "answered" => c.mine
    /\ c.mine =>
          /\ c.kind # "save" => editor.busy
          /\ c.kind # "publish" => WritesOnePart(c, editor.parts[c.part], rows[c.part])
          /\ c.kind = "publish" =>
                \A k \in PartKinds : PublishesPart(c, k, editor.parts[k], rows[k])

\* Only saves of different parts are on their way together.
Alone(c, d) == /\ c.mine /\ d.mine /\ c # d
               => c.kind = "save" /\ d.kind = "save" /\ c.part # d.part

PairInv == /\ PairTypeOK
           /\ \A k \in PartKinds : PartStands(Parts[k], pairServer[k])
           /\ \A c \in partCalls : CallStands(c, pairEditor, pairServer)
           /\ \A c, d \in partCalls : Alone(c, d)
-----------------------------------------------------------------------------
\* The facts that every step begins with.
LEMMA PairFacts ==
  ASSUME PairTypeOK
  PROVE  /\ \A k \in PartKinds : Parts[k] \in PartEditor /\ pairServer[k] \in PartRow
         /\ Parts \in [PartKinds -> PartEditor] /\ pairServer \in [PartKinds -> PartRow]
         /\ pairEditor \in PairEditor /\ partCalls \subseteq PartCall
         /\ 0 \in PairLocks /\ PairLocks \subseteq Nat
         /\ "header" \in PartKinds /\ "footer" \in PartKinds
BY StructurePartPairAssumption DEF PairTypeOK, PairEditor, Parts, PairLocks, PartKinds

\* One part of the editor is another.
LEMMA PartIsReplaced ==
  ASSUME PairTypeOK, NEW k \in PartKinds, NEW part \in PartEditor
  PROVE  LET n == WithPart(k, part)
         IN  /\ n \in PairEditor /\ n.parts \in [PartKinds -> PartEditor]
             /\ n.parts[k] = part /\ n.busy = pairEditor.busy
             /\ \A j \in PartKinds \ {k} : n.parts[j] = Parts[j]
BY PairFacts DEF WithPart, PairEditor

\* What is read is not more than a row moves on.
LEMMA LocksAreNumbers ==
  ASSUME PairTypeOK
  PROVE  /\ \A k \in PartKinds : /\ Parts[k].lock \in Nat /\ Parts[k].token \in Nat
                                 /\ Parts[k].edits \in Nat /\ pairServer[k].lock \in Nat
         /\ \A c \in partCalls : /\ c.part \in PartKinds /\ c.edits \in Nat
                                 /\ \A k \in PartKinds : /\ c.locks[k] \in Nat
                                                         /\ c.answer[k].lock \in Nat
BY StructurePartPairAssumption, PairFacts DEF PairLocks, PartEditor, PartRow, PartCall

\* While nothing is pending and the editor is not busy, none of its calls is on its way.
LEMMA NobodyCalls ==
  ASSUME PairInv, ~pairEditor.busy, ~AnyPending
  PROVE  \A c \in partCalls : ~c.mine
BY LocksAreNumbers DEF PairInv, CallStands, WritesOnePart, AnyPending, Parts

\* Nothing is mounted and nobody asks.
LEMMA PairStarts == PairInit => PairInv
<1> SUFFICES ASSUME PairInit PROVE PairInv
  OBVIOUS
<1>1. 0 \in PairLocks /\ 0 \in 0 .. MaxPartEdits /\ 1 \in PairLocks
  BY StructurePartPairAssumption DEF PairLocks
<1>2. pairServer \in [PartKinds -> PartRow] /\ \A k \in PartKinds : pairServer[k].lock = 1
  BY <1>1, StructurePartPairAssumption DEF PairInit, PartRow, OptionalDoc
<1>3. /\ Parts = [k \in PartKinds |-> [lock |-> 0, active |-> 0, token |-> 0, doc |-> FirstPartDoc,
                                       edits |-> 0, dirty |-> FALSE, pending |-> FALSE]]
  BY DEF PairInit, Parts
<1>4. Parts \in [PartKinds -> PartEditor] /\ \A k \in PartKinds : Parts[k].lock = 0 /\ Parts[k].token = 0
  BY <1>1, <1>3, StructurePartPairAssumption DEF PartEditor
<1>5. pairEditor \in PairEditor
  BY <1>4 DEF PairInit, PairEditor, Parts, PartKinds
<1>6. PairTypeOK
  BY <1>2, <1>5 DEF PairInit, PairTypeOK
<1>7. \A k \in PartKinds : PartStands(Parts[k], pairServer[k])
  BY <1>2, <1>4 DEF PartStands
<1> QED
  BY <1>6, <1>7 DEF PairInit, PairInv

\* The editor that mounts has what the server has.
LEMMA LoadKeepsPair == ASSUME PairInv, PairLoaded PROVE PairInv'
<1>1. /\ pairHost' = "open" /\ pairServer' = pairServer /\ PairTypeOK
  BY DEF PairLoaded, PairInv
<1>2. CASE UNCHANGED <<pairEditor, partCalls>>
  BY <1>1, <1>2 DEF PairInv, PairTypeOK, Parts
<1>3. CASE /\ pairEditor' = OpenedPair
           /\ partCalls' = {[c EXCEPT !.mine = FALSE] :
                               c \in {o \in partCalls : o.kind = "publish" /\ o.at = "sent"}}
  <2> DEFINE parts == [k \in PartKinds |->
        [lock |-> pairServer[k].lock, active |-> pairServer[k].active,
         token |-> pairServer[k].lock, doc |-> pairServer[k].draft, edits |-> 0,
         dirty |-> FALSE, pending |-> FALSE]]
  <2>1. ASSUME NEW k \in PartKinds
        PROVE  /\ parts[k] \in PartEditor /\ parts[k].lock = pairServer[k].lock
               /\ parts[k].token = pairServer[k].lock /\ parts[k].doc = pairServer[k].draft
    BY <1>1, PairFacts, StructurePartPairAssumption DEF PartEditor, PartRow
  <2>2. parts \in [PartKinds -> PartEditor]
    BY <2>1
  <2>3. pairEditor' = [parts |-> parts, shown |-> "header", preview |-> FALSE, busy |-> FALSE]
    BY <1>3 DEF OpenedPair
  <2> HIDE DEF parts
  <2>4. pairEditor' \in PairEditor /\ pairEditor'.parts = parts
    BY <2>2, <2>3 DEF PairEditor, PartKinds
  <2>5. ASSUME NEW n \in partCalls'
        PROVE  n \in PartCall /\ ~n.mine /\ n.kind = "publish" /\ n.at = "sent"
    <3>1. PICK o \in partCalls : /\ o.kind = "publish" /\ o.at = "sent"
                                 /\ n = [o EXCEPT !.mine = FALSE]
      BY <1>3
    <3>2. o \in PartCall
      BY <1>1, PairFacts
    <3> QED
      BY <3>1, <3>2 DEF PartCall
  <2>6. PairTypeOK'
    BY <1>1, <2>4, <2>5 DEF PairTypeOK
  <2>7. ASSUME NEW k \in PartKinds PROVE PartStands(Parts[k], pairServer[k])'
    BY <1>1, <2>1, <2>4, LocksAreNumbers DEF PairInv, PartStands, Parts
  <2>8. ASSUME NEW n \in partCalls' PROVE CallStands(n, pairEditor', pairServer')
    BY <2>5 DEF CallStands
  <2>9. ASSUME NEW n \in partCalls', NEW m \in partCalls' PROVE Alone(n, m)
    BY <2>5 DEF Alone
  <2> QED
    BY <2>6, <2>7, <2>8, <2>9 DEF PairInv
<1> QED
  BY <1>2, <1>3 DEF PairLoaded

\* The views of the pair change nothing of its parts.
LEMMA ViewsKeepPair ==
  ASSUME PairInv,
         \/ SelectPair \/ TogglePairPreview \/ \E k \in PartKinds : ShowPart(k)
  PROVE  PairInv'
<1>1. /\ partCalls' = partCalls /\ pairServer' = pairServer
      /\ pairHost' \in {"loading", "open"} /\ PairTypeOK
  BY DEF SelectPair, TogglePairPreview, ShowPart, PairInv, PairTypeOK
<1>2. pairEditor' \in PairEditor /\ pairEditor'.parts = pairEditor.parts
      /\ pairEditor'.busy = pairEditor.busy
  BY <1>1, PairFacts DEF SelectPair, TogglePairPreview, PairEditor, ShowPart
<1> QED
  BY <1>1, <1>2 DEF PairInv, PairTypeOK, Parts, CallStands

\* An accepted change of one part.
LEMMA ChangeKeepsPair ==
  ASSUME PairInv, NEW k \in PartKinds, NEW d \in PartDocs, ChangePart(k, d)
  PROVE  PairInv'
<1> DEFINE part == [Parts[k] EXCEPT !.doc = d, !.edits = @ + 1, !.dirty = TRUE]
<1>1. /\ pairEditor' = WithPart(k, part) /\ ~pairEditor.busy /\ PairTypeOK
      /\ Parts[k].edits < MaxPartEdits
      /\ pairServer' = pairServer /\ pairHost' = pairHost /\ partCalls' = partCalls
  BY DEF ChangePart, PartReadonly, PairInv
<1>2. Parts[k].edits + 1 \in 0 .. MaxPartEdits /\ Parts[k].edits \in Nat
  BY <1>1, LocksAreNumbers, StructurePartPairAssumption
<1>3. /\ part \in PartEditor /\ part.lock = Parts[k].lock /\ part.token = Parts[k].token
      /\ part.dirty /\ part.edits = Parts[k].edits + 1 /\ part.pending = Parts[k].pending
  BY <1>1, <1>2, PairFacts DEF PartEditor
<1> HIDE DEF part
<1>4. /\ pairEditor' \in PairEditor /\ pairEditor'.parts[k] = part
      /\ \A j \in PartKinds \ {k} : pairEditor'.parts[j] = Parts[j]
      /\ pairEditor'.busy = pairEditor.busy
  BY <1>1, <1>3, PartIsReplaced
<1>5. PairTypeOK'
  BY <1>1, <1>4 DEF PairTypeOK
<1>6. ASSUME NEW j \in PartKinds PROVE PartStands(Parts[j], pairServer[j])'
  BY <1>1, <1>3, <1>4 DEF PairInv, PartStands, Parts
<1>7. ASSUME NEW c \in partCalls PROVE CallStands(c, pairEditor', pairServer')
  <2>1. CallStands(c, pairEditor, pairServer) /\ c.part \in PartKinds /\ c.edits \in Nat
    BY <1>1, LocksAreNumbers DEF PairInv
  <2>2. c.mine => c.kind = "save"
    BY <1>1, <2>1 DEF CallStands
  <2>3. c.mine => WritesOnePart(c, Parts[c.part], pairServer[c.part])
    BY <2>1, <2>2 DEF CallStands, Parts
  <2>4. c.mine => WritesOnePart(c, pairEditor'.parts[c.part], pairServer[c.part])
    BY <1>2, <1>3, <1>4, <2>1, <2>3 DEF WritesOnePart
  <2> QED
    BY <1>1, <2>1, <2>2, <2>4 DEF CallStands
<1> QED
  BY <1>1, <1>5, <1>6, <1>7 DEF PairInv

\* What a call sends.
LEMMA CallFields ==
  ASSUME PairTypeOK, NEW kind \in {"save", "publish", "restore"}, NEW k \in PartKinds,
         NEW d \in OptionalDoc, NEW active \in PairLocks, NEW locks \in [PartKinds -> PairLocks]
  PROVE  LET c == CallOf(kind, k, d, active, locks)
         IN  /\ c \in PartCall /\ c.mine /\ c.at = "sent" /\ c.kind = kind /\ c.part = k
             /\ c.doc = d /\ c.locks = locks /\ c.edits = Parts[k].edits
BY PairFacts DEF NoAnswer, PartEditor, CallOf, PartCall

\* saveDraft of one part.
LEMMA SaveKeepsPair ==
  ASSUME PairInv, NEW k \in PartKinds, SavePart(k)
  PROVE  PairInv'
<1> DEFINE part == [Parts[k] EXCEPT !.pending = TRUE]
<1> DEFINE locks == [NoLocks EXCEPT ![k] = Parts[k].token]
<1> DEFINE n == CallOf("save", k, Parts[k].doc, 0, locks)
<1>1. /\ pairEditor' = WithPart(k, part) /\ ~pairEditor.busy /\ PairTypeOK
      /\ ~Parts[k].pending /\ partCalls' = partCalls \cup {n}
      /\ pairServer' = pairServer /\ pairHost' = pairHost
  BY DEF SavePart, PartReadonly, PairInv
<1>2. Parts[k] \in PartEditor
  BY <1>1, PairFacts
<1>3. /\ part \in PartEditor /\ part.lock = Parts[k].lock /\ part.token = Parts[k].token
      /\ part.dirty = Parts[k].dirty /\ part.edits = Parts[k].edits /\ part.pending
      /\ part.doc = Parts[k].doc
  BY <1>2 DEF PartEditor
<1>4. locks \in [PartKinds -> PairLocks] /\ locks[k] = Parts[k].token
  BY <1>1, <1>2, PairFacts DEF NoLocks, PartEditor
<1>5. Parts[k].doc \in PartDocs /\ Parts[k].doc \in OptionalDoc
  BY <1>2 DEF PartEditor, OptionalDoc
<1> HIDE DEF part, locks
<1>6. /\ n \in PartCall /\ n.mine /\ n.at = "sent" /\ n.kind = "save" /\ n.part = k
      /\ n.doc = Parts[k].doc /\ n.locks = locks /\ n.edits = Parts[k].edits
  BY <1>1, <1>4, <1>5, CallFields, PairFacts
<1> HIDE DEF n
<1>7. /\ pairEditor' \in PairEditor /\ pairEditor'.parts[k] = part
      /\ \A j \in PartKinds \ {k} : pairEditor'.parts[j] = Parts[j]
      /\ pairEditor'.busy = pairEditor.busy
  BY <1>1, <1>3, PartIsReplaced
<1>8. PairTypeOK'
  BY <1>1, <1>6, <1>7 DEF PairTypeOK
<1>9. ASSUME NEW j \in PartKinds PROVE PartStands(Parts[j], pairServer[j])'
  BY <1>1, <1>3, <1>7 DEF PairInv, PartStands, Parts
<1>10. ASSUME NEW c \in partCalls, c.mine
       PROVE  /\ c.kind = "save" /\ c.part # k /\ c.part \in PartKinds
              /\ CallStands(c, pairEditor, pairServer)
  BY <1>1, <1>10, LocksAreNumbers DEF PairInv, CallStands, WritesOnePart, Parts
<1>11. CallStands(n, pairEditor', pairServer')
  BY <1>1, <1>3, <1>4, <1>6, <1>5, <1>7, LocksAreNumbers DEF PairInv, PartStands, WritesOnePart,
     CallStands
<1>12. ASSUME NEW c \in partCalls PROVE CallStands(c, pairEditor', pairServer')
  <2>1. CallStands(c, pairEditor, pairServer)
    BY DEF PairInv
  <2>2. CASE c.mine
    BY <1>7, <1>10, <2>2, <1>1, <2>1 DEF Parts, CallStands
  <2>3. CASE ~c.mine
    BY <2>1, <2>3 DEF CallStands
  <2> QED
    BY <2>2, <2>3
<1>13. ASSUME NEW c \in partCalls', NEW d \in partCalls' PROVE Alone(c, d)
  BY <1>6, <1>10, <1>1 DEF Alone, PairInv
<1> QED
  BY <1>1, <1>8, <1>9, <1>11, <1>12, <1>13 DEF PairInv

\* A request of both parts, or one that makes the editor wait, is alone on its way.
LEMMA WaitingKeepsPair ==
  ASSUME PairInv, ~pairEditor.busy, ~AnyPending, NEW n \in PartCall,
         pairEditor' = [pairEditor EXCEPT !.busy = TRUE], partCalls' = partCalls \cup {n},
         pairServer' = pairServer, pairHost' = pairHost,
         n.at = "sent", n.mine, n.kind # "save", n.kind # "publish" => n.doc \in PartDocs,
         n.kind # "publish" => n.locks[n.part] = Parts[n.part].lock,
         n.kind = "publish" => \A k \in PartKinds : n.locks[k] = Parts[k].lock /\ ~Parts[k].dirty
  PROVE  PairInv'
<1>1. PairTypeOK /\ n.part \in PartKinds
  BY DEF PairInv, PartCall
<1>2. /\ pairEditor' \in PairEditor /\ pairEditor'.parts = pairEditor.parts /\ pairEditor'.busy
  BY <1>1, PairFacts DEF PairEditor
<1>3. \A c \in partCalls : ~c.mine
  BY NobodyCalls
<1>4. PairTypeOK' /\ \A k \in PartKinds : PartStands(Parts[k], pairServer[k])'
  BY <1>1, <1>2 DEF PairTypeOK, PairInv, Parts
<1>5. CallStands(n, pairEditor', pairServer')
  BY <1>1, <1>2 DEF CallStands, WritesOnePart, PublishesPart, Parts
<1>6. ASSUME NEW c \in partCalls PROVE CallStands(c, pairEditor', pairServer')
  BY <1>3 DEF PairInv, CallStands
<1>7. ASSUME NEW c \in partCalls', NEW d \in partCalls' PROVE Alone(c, d)
  BY <1>3 DEF Alone
<1> QED
  BY <1>4, <1>5, <1>6, <1>7 DEF PairInv

\* The pair is published: both parts are clean and idle.
LEMMA PublishKeepsPair == ASSUME PairInv, PublishPair PROVE PairInv'
<1> DEFINE locks == [k \in PartKinds |-> Parts[k].lock]
<1> DEFINE n == CallOf("publish", "header", NoPartDoc, 0, locks)
<1>1. /\ ~pairEditor.busy /\ ~AnyPending /\ \A k \in PartKinds : ~Parts[k].dirty
      /\ pairEditor' = [pairEditor EXCEPT !.busy = TRUE] /\ partCalls' = partCalls \cup {n}
      /\ pairServer' = pairServer /\ pairHost' = pairHost /\ PairTypeOK
  BY DEF PublishPair, MayPublishPair, PairInv
<1>2. locks \in [PartKinds -> PairLocks]
  BY <1>1, PairFacts DEF PartEditor
<1>3. \A k \in PartKinds : locks[k] = Parts[k].lock
  OBVIOUS
<1>4. NoPartDoc \in OptionalDoc /\ "header" \in PartKinds /\ 0 \in PairLocks
  BY <1>1, PairFacts DEF OptionalDoc
<1> HIDE DEF locks
<1>5. /\ n \in PartCall /\ n.mine /\ n.at = "sent" /\ n.kind = "publish" /\ n.locks = locks
  BY <1>1, <1>2, <1>4, CallFields
<1> HIDE DEF n
<1> QED
  BY <1>1, <1>3, <1>5, WaitingKeepsPair

\* A revision of one part is restored.
LEMMA RestoreKeepsPair == ASSUME PairInv, NEW d \in PartDocs, RestorePart(d) PROVE PairInv'
<1> DEFINE k == pairEditor.shown
<1> DEFINE locks == [NoLocks EXCEPT ![k] = Parts[k].lock]
<1> DEFINE n == CallOf("restore", k, d, Parts[k].active, locks)
<1>1. /\ ~pairEditor.busy /\ ~AnyPending
      /\ pairEditor' = [pairEditor EXCEPT !.busy = TRUE] /\ partCalls' = partCalls \cup {n}
      /\ pairServer' = pairServer /\ pairHost' = pairHost /\ PairTypeOK
  BY DEF RestorePart, PartReadonly, PairInv
<1>2. k \in PartKinds
  BY <1>1, PairFacts DEF PairEditor
<1>3. locks \in [PartKinds -> PairLocks] /\ locks[k] = Parts[k].lock /\ Parts[k].active \in PairLocks
  BY <1>1, <1>2, PairFacts DEF NoLocks, PartEditor
<1>4. d \in OptionalDoc
  BY DEF OptionalDoc
<1> HIDE DEF locks, k
<1>5. /\ n \in PartCall /\ n.mine /\ n.at = "sent" /\ n.kind = "restore" /\ n.locks = locks
      /\ n.part = k /\ n.doc = d
  BY <1>1, <1>2, <1>3, <1>4, CallFields
<1> HIDE DEF n
<1> QED
  BY <1>1, <1>2, <1>3, <1>5, WaitingKeepsPair

\* A row that is written moves its version.
LEMMA RowIsSaved ==
  ASSUME NEW row \in PartRow, NEW d \in PartDocs, row.lock < MaxPartLock
  PROVE  /\ PartSaved(row, d) \in PartRow /\ PartSaved(row, d).draft = d
         /\ PartSaved(row, d).lock = row.lock + 1
<1>1. row.lock + 1 \in PairLocks
  BY StructurePartPairAssumption DEF PartRow, PairLocks
<1> QED
  BY <1>1 DEF PartSaved, PartRow

\* What publishing makes of a row.
LEMMA RowIsPublished ==
  ASSUME NEW row \in PartRow, row.lock < MaxPartLock
  PROVE  /\ PartPublished(row) \in PartRow /\ PartPublished(row).draft = row.draft
         /\ PartPublished(row).live = row.draft
         /\ PartPublished(row).lock \in {row.lock, row.lock + 1}
<1>1. row.lock + 1 \in PairLocks /\ row.draft \in OptionalDoc
  BY StructurePartPairAssumption DEF PartRow, PairLocks, OptionalDoc
<1>2. CASE row.live = row.draft
  BY <1>2 DEF PartPublished
<1>3. CASE row.live # row.draft
  BY <1>3, <1>1 DEF PartPublished, PartRow
<1> QED
  BY <1>2, <1>3

\* The version of a row moves on whenever its draft does.
RowGoesOn(row, next) ==
    \/ next.lock = row.lock + 1
    \/ next.lock = row.lock /\ next.draft = row.draft

\* What stands of a part and its calls still stands when the rows have moved on.
LEMMA PartStillStands ==
  ASSUME PairTypeOK, NEW k \in PartKinds, NEW next \in PartRow, RowGoesOn(pairServer[k], next),
         PartStands(Parts[k], pairServer[k])
  PROVE  PartStands(Parts[k], next)
BY LocksAreNumbers DEF RowGoesOn, PartStands

\* A call stays what it was when the rows move on.
LEMMA CallStillStands ==
  ASSUME PairTypeOK, NEW c \in partCalls, NEW rows \in [PartKinds -> PartRow],
         \A k \in PartKinds : RowGoesOn(pairServer[k], rows[k]),
         CallStands(c, pairEditor, pairServer)
  PROVE  CallStands(c, pairEditor, rows)
<1>1. c.part \in PartKinds /\ \A k \in PartKinds : c.answer[k].lock \in Nat
  BY LocksAreNumbers
<1>2. ASSUME WritesOnePart(c, Parts[c.part], pairServer[c.part])
      PROVE  WritesOnePart(c, Parts[c.part], rows[c.part])
  BY <1>1, <1>2, LocksAreNumbers DEF WritesOnePart, RowGoesOn
<1>3. ASSUME NEW k \in PartKinds, PublishesPart(c, k, Parts[k], pairServer[k])
      PROVE  PublishesPart(c, k, Parts[k], rows[k])
  BY <1>1, <1>3, LocksAreNumbers DEF PublishesPart, RowGoesOn
<1> QED
  BY <1>2, <1>3 DEF CallStands, Parts

\* Another administrator saves a part.
LEMMA OtherKeepsPair ==
  ASSUME PairInv, NEW k \in PartKinds, NEW d \in PartDocs, OtherSavesPart(k, d)
  PROVE  PairInv'
<1> DEFINE row == PartSaved(pairServer[k], d)
<1>1. /\ pairServer' = [pairServer EXCEPT ![k] = row] /\ PairTypeOK
      /\ pairServer[k].lock < MaxPartLock - 1
      /\ pairHost' = pairHost /\ pairEditor' = pairEditor /\ partCalls' = partCalls
  BY PairFacts DEF OtherSavesPart, PairInv
<1>2. pairServer[k] \in PartRow /\ pairServer[k].lock < MaxPartLock
  BY <1>1, PairFacts, LocksAreNumbers, StructurePartPairAssumption
<1>3. row \in PartRow /\ row.lock = pairServer[k].lock + 1
  BY <1>2, RowIsSaved
<1> HIDE DEF row
<1>4. /\ pairServer' \in [PartKinds -> PartRow]
      /\ \A j \in PartKinds : RowGoesOn(pairServer[j], pairServer'[j])
  BY <1>1, <1>3, PairFacts DEF RowGoesOn
<1>5. PairTypeOK' /\ \A j \in PartKinds : PartStands(Parts[j], pairServer[j])'
  BY <1>1, <1>4, PartStillStands DEF PairTypeOK, PairInv, Parts
<1> QED
  BY <1>1, <1>4, <1>5, CallStillStands DEF PairInv

\* The server's turn: what it makes of the rows.
LEMMA RowsAreHandled ==
  ASSUME PairInv, NEW c \in partCalls, HandlePartCall(c)
  PROVE  /\ pairServer' \in [PartKinds -> PartRow]
         /\ \A k \in PartKinds : RowGoesOn(pairServer[k], pairServer'[k])
         /\ pairServer' # pairServer =>
              /\ \A k \in PartKinds : pairServer'[k] # pairServer[k] => c.locks[k] = pairServer[k].lock
              /\ c.kind # "publish" =>
                   /\ c.locks[c.part] = pairServer[c.part].lock
                   /\ pairServer'[c.part].lock = c.locks[c.part] + 1
                   /\ pairServer'[c.part].draft = c.doc
              /\ c.kind = "publish" => \A k \in PartKinds :
                   /\ c.locks[k] = pairServer[k].lock
                   /\ pairServer'[k].draft = pairServer[k].draft
                   /\ pairServer'[k].live = pairServer[k].draft
<1>1. /\ PairTypeOK /\ c.part \in PartKinds
      /\ c.kind # "publish" => c.doc \in PartDocs
  BY LocksAreNumbers DEF PairInv, CallStands
<1>2. CASE pairServer' = pairServer
  BY <1>1, <1>2, PairFacts DEF RowGoesOn
<1>3. CASE /\ c.kind # "publish" /\ PartAccepts(c, c.part)
           /\ pairServer' = [pairServer EXCEPT ![c.part] = PartSaved(@, c.doc)]
  BY <1>1, <1>3, RowIsSaved, PairFacts DEF PartAccepts, RowGoesOn
<1>4. CASE /\ c.kind = "publish" /\ \A k \in PartKinds : PartAccepts(c, k)
           /\ pairServer' = [k \in PartKinds |-> PartPublished(pairServer[k])]
  BY <1>1, <1>4, RowIsPublished, PairFacts DEF PartAccepts, RowGoesOn
<1> QED
  BY <1>2, <1>3, <1>4 DEF HandlePartCall

\* The server handles a call: of this page or of one before it.
LEMMA HandleKeepsPair ==
  ASSUME PairInv, NEW c \in partCalls, HandlePartCall(c)
  PROVE  PairInv'
<1> DEFINE told == [k \in PartKinds |-> [lock |-> pairServer'[k].lock,
                                         active |-> pairServer'[k].active]]
<1>1. /\ PairTypeOK /\ c.at = "sent" /\ pairHost' = pairHost /\ pairEditor' = pairEditor
      /\ c \in PartCall /\ c.part \in PartKinds /\ CallStands(c, pairEditor, pairServer)
  BY PairFacts, LocksAreNumbers DEF HandlePartCall, PairInv
<1>2. PICK answered \in BOOLEAN :
        /\ answered => pairServer' # pairServer
        /\ partCalls' = (partCalls \ {c}) \cup
             {[o EXCEPT !.at = "answered", !.answer = IF ~answered THEN NoAnswer ELSE told] :
                o \in {c} \cap MyPartCalls}
  BY DEF HandlePartCall
<1>3. /\ pairServer' \in [PartKinds -> PartRow]
      /\ \A k \in PartKinds : RowGoesOn(pairServer[k], pairServer'[k])
  BY RowsAreHandled
<1>4. \A d \in partCalls : CallStands(d, pairEditor', pairServer')
  BY <1>1, <1>3, CallStillStands DEF PairInv
<1>5. \A k \in PartKinds : PartStands(Parts[k], pairServer[k])'
  BY <1>1, <1>3, PartStillStands DEF PairInv, Parts
<1>6. CASE ~c.mine
  BY <1>2, <1>6, <1>1, <1>3, <1>4, <1>5 DEF MyPartCalls, PairInv, PairTypeOK
<1>7. CASE c.mine
  <2> DEFINE answer == IF ~answered THEN NoAnswer ELSE told
  <2> DEFINE n == [c EXCEPT !.at = "answered", !.answer = answer]
  <2>1. partCalls' = (partCalls \ {c}) \cup {n}
    BY <1>2, <1>7 DEF MyPartCalls
  <2>2. answer \in [PartKinds -> [lock : PairLocks, active : PairLocks]]
    BY <1>1, <1>3, PairFacts DEF NoAnswer, PartRow
  <2>3. answer # NoAnswer => pairServer' # pairServer /\ \A k \in PartKinds : answer[k].lock = pairServer'[k].lock
    BY <1>2
  <2> HIDE DEF answer, told
  <2>4. /\ n \in PartCall /\ n.at = "answered" /\ n.answer = answer /\ n.kind = c.kind
        /\ n.part = c.part /\ n.mine /\ n.locks = c.locks /\ n.doc = c.doc /\ n.edits = c.edits
    BY <1>1, <1>7, <2>2 DEF PartCall
  <2> HIDE DEF n
  <2>5. PairTypeOK'
    BY <1>1, <1>3, <2>1, <2>4 DEF PairTypeOK
  <2>6. ASSUME n.kind # "publish"
        PROVE  WritesOnePart(n, Parts[n.part], pairServer'[n.part])
    <3>1. WritesOnePart(c, Parts[c.part], pairServer[c.part])
      BY <1>1, <1>7, <2>4, <2>6 DEF CallStands, Parts
    <3>2. CASE ~CallSucceeded(n)
      BY <2>4, <3>1, <3>2 DEF WritesOnePart
    <3>3. CASE CallSucceeded(n)
      BY <1>1, <2>3, <2>4, <3>3, <2>6, <3>1, RowsAreHandled, LocksAreNumbers DEF CallSucceeded,
         WritesOnePart
    <3> QED
      BY <3>2, <3>3
  <2>7. ASSUME n.kind = "publish", NEW k \in PartKinds
        PROVE  PublishesPart(n, k, Parts[k], pairServer'[k])
    <3>1. PublishesPart(c, k, Parts[k], pairServer[k])
      BY <1>1, <1>7, <2>4, <2>7 DEF CallStands, Parts
    <3>2. CASE ~CallSucceeded(n)
      BY <2>4, <3>1, <3>2 DEF PublishesPart
    <3>3. CASE CallSucceeded(n)
      <4>1. /\ pairServer' # pairServer /\ n.answer[k].lock = pairServer'[k].lock
        BY <1>1, <2>3, <2>4, <3>3 DEF CallSucceeded
      <4>2. /\ c.locks[k] = pairServer[k].lock /\ pairServer'[k].draft = pairServer[k].draft
        BY <2>4, <2>7, <4>1, RowsAreHandled
      <4>3. /\ PartStands(Parts[k], pairServer[k]) /\ RowGoesOn(pairServer[k], pairServer'[k])
            /\ pairServer[k].lock \in Nat
        BY <1>1, <1>3, LocksAreNumbers DEF PairInv
      <4> QED
        BY <2>4, <3>1, <4>1, <4>2, <4>3 DEF PublishesPart, PartStands, RowGoesOn
    <3> QED
      BY <3>2, <3>3
  <2>8. CallStands(n, pairEditor', pairServer')
    BY <1>1, <2>4, <1>7, <2>6, <2>7 DEF CallStands, Parts
  <2>9. ASSUME NEW o \in partCalls \ {c} PROVE Alone(o, n) /\ Alone(n, o)
    BY <1>7, <2>4 DEF PairInv, Alone
  <2>10. ASSUME NEW o \in partCalls', NEW d \in partCalls' PROVE Alone(o, d)
    BY <2>1, <2>9 DEF PairInv, Alone
  <2> QED
    BY <1>4, <1>5, <2>1, <2>5, <2>8, <2>10 DEF PairInv
<1> QED
  BY <1>6, <1>7

\* The calls that stay when one is answered are of the other part, or nobody hears them.
LEMMA OthersStay ==
  ASSUME PairInv, NEW c \in partCalls, c.at = "answered", NEW editor,
         c.kind = "save" => \A j \in PartKinds \ {c.part} : editor.parts[j] = Parts[j],
         partCalls' = partCalls \ {c}
  PROVE  /\ \A d \in partCalls' : CallStands(d, editor, pairServer)
         /\ \A d, e \in partCalls' : Alone(d, e)
<1>1. c.mine /\ PairTypeOK
  BY DEF PairInv, CallStands
<1>2. ASSUME NEW d \in partCalls' PROVE CallStands(d, editor, pairServer)
  <2>1. CallStands(d, pairEditor, pairServer) /\ d.part \in PartKinds /\ Alone(c, d) /\ c # d
    BY <1>1, LocksAreNumbers DEF PairInv
  <2>2. CASE ~d.mine
    BY <2>1, <2>2 DEF CallStands
  <2>3. CASE d.mine
    BY <1>1, <2>1, <2>3 DEF Alone, Parts, CallStands
  <2> QED
    BY <2>2, <2>3
<1> QED
  BY <1>2 DEF PairInv

\* The version that an answer tells is taken over by the part and its next save.
LEMMA LockIsTaken ==
  ASSUME NEW part \in PartEditor, NEW lock \in PairLocks, part.token = part.lock, part.lock <= lock
  PROVE  LET n == WithLock(part, lock)
         IN  /\ n \in PartEditor /\ n.lock = lock /\ n.token = lock
             /\ n.dirty = part.dirty /\ n.doc = part.doc /\ n.edits = part.edits
             /\ n.pending = part.pending
<1>1. part.lock \in Nat /\ lock \in Nat
  BY StructurePartPairAssumption DEF PartEditor, PairLocks
<1>2. TokenAfter(part.token, lock) = lock
  BY <1>1 DEF TokenAfter
<1>3. WithLock(part, lock) = [part EXCEPT !.lock = lock, !.token = lock]
  BY <1>2 DEF WithLock, PartEditor
<1> QED
  BY <1>3 DEF PartEditor

\* The answer of a save.
LEMMA SavedKeepsPair ==
  ASSUME PairInv, NEW c \in partCalls, PartSaveAnswered(c)
  PROVE  PairInv'
<1> DEFINE old == Parts[c.part]
<1> DEFINE lock == c.answer[c.part].lock
<1> DEFINE clean == PartDirtyAfter(c, old)
<1> DEFINE part == IF CallSucceeded(c)
                   THEN [WithLock(old, lock) EXCEPT !.dirty = clean, !.pending = FALSE]
                   ELSE PartFailed(old)
<1>1. /\ PairTypeOK /\ c.at = "answered" /\ c.kind = "save" /\ partCalls' = partCalls \ {c}
      /\ pairEditor' = WithPart(c.part, part)
      /\ pairServer' = pairServer /\ pairHost' = pairHost /\ c.part \in PartKinds
      /\ CallStands(c, pairEditor, pairServer)
  BY LocksAreNumbers DEF PartSaveAnswered, PairInv
<1>2. /\ old \in PartEditor /\ c \in PartCall /\ PartStands(old, pairServer[c.part])
      /\ WritesOnePart(c, old, pairServer[c.part]) /\ lock \in PairLocks
  BY <1>1, PairFacts DEF PairInv, CallStands, Parts, PartCall
<1>3. part \in PartEditor /\ PartStands(part, pairServer[c.part])
  <2>1. CASE ~CallSucceeded(c)
    BY <2>1, <1>2 DEF PartFailed, PartEditor, PartStands
  <2>2. CASE CallSucceeded(c)
    <3>1. /\ old.lock < lock /\ lock <= pairServer[c.part].lock
          /\ lock = pairServer[c.part].lock => pairServer[c.part].draft = c.doc
          /\ old.edits = c.edits \/ ~old.dirty => old.doc = c.doc
      BY <1>1, <1>2, <2>2 DEF WritesOnePart
    <3>2. old.lock <= lock /\ old.token = old.lock /\ 1 <= pairServer[c.part].lock
      BY <1>1, <1>2, <3>1, LocksAreNumbers DEF PartStands
    <3> DEFINE locked == WithLock(old, lock)
    <3>3. /\ locked \in PartEditor /\ locked.lock = lock /\ locked.token = lock
          /\ locked.dirty = old.dirty /\ locked.doc = old.doc /\ locked.edits = old.edits
      BY <1>2, <3>2, LockIsTaken
    <3>4. clean \in BOOLEAN /\ (~clean => old.doc = c.doc)
      BY <1>2, <3>1 DEF PartEditor, PartDirtyAfter
    <3>5. part = [locked EXCEPT !.dirty = clean, !.pending = FALSE]
      BY <2>2
    <3> HIDE DEF locked, clean, part, old, lock
    <3>6. /\ part \in PartEditor /\ part.lock = lock /\ part.token = lock
          /\ part.dirty = clean /\ part.doc = old.doc
      BY <3>3, <3>4, <3>5 DEF PartEditor
    <3> QED
      BY <3>1, <3>2, <3>4, <3>6 DEF PartStands
  <2> QED
    BY <2>1, <2>2
<1> HIDE DEF part
<1>4. /\ pairEditor' \in PairEditor /\ pairEditor'.parts[c.part] = part
      /\ \A j \in PartKinds \ {c.part} : pairEditor'.parts[j] = Parts[j]
  BY <1>1, <1>3, PartIsReplaced
<1>5. partCalls' \subseteq partCalls
  BY <1>1
<1>6. PairTypeOK'
  BY <1>1, <1>4, <1>5 DEF PairTypeOK
<1>7. ASSUME NEW k \in PartKinds PROVE PartStands(Parts[k], pairServer[k])'
  BY <1>1, <1>3, <1>4 DEF PairInv, Parts
<1>8. /\ \A d \in partCalls' : CallStands(d, pairEditor', pairServer')
      /\ \A d, e \in partCalls' : Alone(d, e)
  BY <1>1, <1>4, OthersStay
<1> QED
  BY <1>6, <1>7, <1>8 DEF PairInv

\* The answer of the publication of both parts.
LEMMA PublishedKeepsPair ==
  ASSUME PairInv, NEW c \in partCalls, PartPublishAnswered(c)
  PROVE  PairInv'
<1> DEFINE Learnt(k) == [WithLock(Parts[k], c.answer[k].lock) EXCEPT !.active = c.answer[k].active]
<1> DEFINE parts == IF CallSucceeded(c) THEN [k \in PartKinds |-> Learnt(k)] ELSE Parts
<1>1. /\ PairTypeOK /\ c.at = "answered" /\ c.kind = "publish" /\ partCalls' = partCalls \ {c}
      /\ pairServer' = pairServer /\ pairHost' = pairHost
      /\ CallStands(c, pairEditor, pairServer) /\ c \in PartCall
  BY PairFacts DEF PartPublishAnswered, PairInv
<1>2. pairEditor' = [pairEditor EXCEPT !.busy = FALSE, !.parts = parts]
  BY DEF PartPublishAnswered, Parts
<1>3. ASSUME NEW k \in PartKinds
      PROVE  parts[k] \in PartEditor /\ PartStands(parts[k], pairServer[k])
  <2>1. Parts[k] \in PartEditor /\ PartStands(Parts[k], pairServer[k])
    BY <1>1, PairFacts DEF PairInv
  <2>2. CASE ~CallSucceeded(c)
    BY <2>1, <2>2
  <2>3. CASE CallSucceeded(c)
    BY <1>1, <2>3, <2>1, LockIsTaken DEF CallStands, PublishesPart, Parts, PartCall, PartStands,
       PartEditor
  <2> QED
    BY <2>2, <2>3
<1>4. parts \in [PartKinds -> PartEditor]
  BY <1>1, <1>3, PairFacts
<1> HIDE DEF parts
<1>5. pairEditor' \in PairEditor /\ pairEditor'.parts = parts
  BY <1>1, <1>2, <1>4, PairFacts DEF PairEditor
<1>6. PairTypeOK'
  BY <1>1, <1>5 DEF PairTypeOK
<1>7. ASSUME NEW k \in PartKinds PROVE PartStands(Parts[k], pairServer[k])'
  BY <1>1, <1>3, <1>5 DEF Parts
<1>8. /\ \A d \in partCalls' : CallStands(d, pairEditor', pairServer')
      /\ \A d, e \in partCalls' : Alone(d, e)
  BY <1>1, OthersStay
<1> QED
  BY <1>6, <1>7, <1>8 DEF PairInv

\* The answer of a restoring.
LEMMA RestoredKeepsPair ==
  ASSUME PairInv, NEW c \in partCalls, PartRestoreAnswered(c)
  PROVE  PairInv'
<1> DEFINE old == Parts[c.part]
<1> DEFINE lock == c.answer[c.part].lock
<1> DEFINE part == IF CallSucceeded(c) /\ c.active = c.answer[c.part].active /\ Restored(c)
                   THEN [old EXCEPT !.lock = lock, !.token = lock, !.doc = c.doc, !.dirty = FALSE]
                   ELSE old
<1>1. /\ PairTypeOK /\ c.at = "answered" /\ c.kind = "restore" /\ partCalls' = partCalls \ {c}
      /\ pairEditor' = [WithPart(c.part, part) EXCEPT !.busy = FALSE]
      /\ pairServer' = pairServer /\ pairHost' = pairHost /\ c.part \in PartKinds
      /\ CallStands(c, pairEditor, pairServer)
  BY LocksAreNumbers DEF PartRestoreAnswered, PairInv
<1>2. /\ old \in PartEditor /\ PartStands(old, pairServer[c.part]) /\ c.doc \in PartDocs
      /\ WritesOnePart(c, old, pairServer[c.part]) /\ lock \in PairLocks
  BY <1>1, PairFacts DEF PairInv, CallStands, Parts, PartCall
<1>3. part \in PartEditor /\ PartStands(part, pairServer[c.part])
  <2> HIDE DEF old, lock
  <2>1. CASE part = old
    BY <1>2, <2>1
  <2>2. CASE CallSucceeded(c) /\ part = [old EXCEPT !.lock = lock, !.token = lock, !.doc = c.doc,
                                                    !.dirty = FALSE]
    BY <1>1, <1>2, <2>2 DEF WritesOnePart, lock, PartEditor, PartStands
  <2> QED
    BY <2>1, <2>2
<1> HIDE DEF part
<1>4. /\ WithPart(c.part, part) \in PairEditor /\ WithPart(c.part, part).parts[c.part] = part
      /\ \A j \in PartKinds \ {c.part} : WithPart(c.part, part).parts[j] = Parts[j]
  BY <1>1, <1>3, PartIsReplaced
<1>5. pairEditor' \in PairEditor /\ pairEditor'.parts = WithPart(c.part, part).parts
  BY <1>1, <1>4 DEF PairEditor
<1>6. PairTypeOK'
  BY <1>1, <1>5 DEF PairTypeOK
<1>7. ASSUME NEW k \in PartKinds PROVE PartStands(Parts[k], pairServer[k])'
  BY <1>1, <1>3, <1>4, <1>5 DEF PairInv, Parts
<1>8. /\ \A d \in partCalls' : CallStands(d, pairEditor', pairServer')
      /\ \A d, e \in partCalls' : Alone(d, e)
  BY <1>1, OthersStay
<1> QED
  BY <1>6, <1>7, <1>8 DEF PairInv

\* Every step of the pair keeps its parts and its calls together.
LEMMA PairStep == PairInv /\ [PairNext]_pairVars => PairInv'
<1> SUFFICES ASSUME PairInv, [PairNext]_pairVars
             PROVE  PairInv'
  OBVIOUS
<1>1. CASE UNCHANGED pairVars
  BY <1>1 DEF pairVars, PairInv, PairTypeOK, Parts
<1> QED
  BY <1>1, LoadKeepsPair, ViewsKeepPair, ChangeKeepsPair, SaveKeepsPair, PublishKeepsPair,
     RestoreKeepsPair, OtherKeepsPair, HandleKeepsPair, SavedKeepsPair, PublishedKeepsPair,
     RestoredKeepsPair DEF PairNext, PairAnswers

\* Clean parts are stored, and the next save of a part sends the newest version.
LEMMA PairIsStored == PairInv => CleanPartsAreStored /\ TokensAreNewest
BY DEF PairInv, PartStands, CleanPartsAreStored, TokensAreNewest

\* The pair that is published is the pair that is shown.
LEMMA BothScreensAreLive ==
  ASSUME PairInv, NEW c \in partCalls, c.mine, c.kind = "publish", HandlePartCall(c),
         pairServer' # pairServer, NEW k \in PartKinds
  PROVE  pairServer'[k].live = Parts[k].doc
BY LocksAreNumbers, RowsAreHandled DEF PairInv, CallStands, Parts, PublishesPart, PartStands

\* A draft is written only from the version that the page was told of.
LEMMA DraftsAreCompared ==
  ASSUME PairInv, NEW c \in partCalls, HandlePartCall(c), NEW k \in PartKinds,
         pairServer'[k] # pairServer[k]
  PROVE  c.locks[k] = pairServer[k].lock
BY RowsAreHandled
-----------------------------------------------------------------------------
(***************************************************************************)
(* The gesture on the canvas. React writes only what changed since its     *)
(* last render, so a declaration on the screen is the rendered one or the  *)
(* one that a restoring took from the document.                            *)
(***************************************************************************)

\* React writes what changed since its last render: a declaration on the screen is
\* the rendered one or the one that a restoring took from the document.
ShowsRenderedOrNow(n) ==
    /\ surface.painted[n].width \in {surface.rendered[n].width, sheet.style[n].width}
    /\ surface.painted[n].hidden \in {surface.rendered[n].hidden, sheet.style[n].hidden}

\* A gesture restores the selected nodes that it was begun on; as long as the
\* document is the one it was begun on, that is rendered and the last command is shown.
GestureStands ==
    /\ gesture.ids = gesture.before
    /\ ~surface.effect => gesture.before = surface.selected
    /\ surface.dragging => gesture.before = surface.targets
    /\ gesture.revision <= sheet.revision
    /\ gesture.revision = sheet.revision => surface.rendered = sheet.style
    /\ gesture.revision = sheet.revision /\ gesture.command # NoWidth =>
          \A n \in gesture.before :
             surface.painted[n] = [width |-> gesture.command, hidden |-> sheet.style[n].hidden]

GestureInv ==
    /\ GestureTypeOK
    /\ ~gesture.active => gesture.before = {}
    /\ sheet.queued # <<>> => surface.rendered = sheet.style /\ sheet.revision < MaxRevision
    /\ surface.handles => surface.targets = surface.selected
    /\ surface.dragging => surface.handles
    /\ \A n \in Boxes \ gesture.before : ShowsRenderedOrNow(n)
    /\ gesture.active => GestureStands
-----------------------------------------------------------------------------
\* The variables have their types, and so have their parts.
LEMMA GestureTypes ==
  ASSUME GestureInv
  PROVE  /\ sheet \in Sheet /\ surface \in Surface /\ gesture \in Gesture
         /\ sheet.style \in Styles /\ sheet.revision \in 0 .. MaxRevision
         /\ sheet.selected \subseteq Boxes
         /\ surface.painted \in Styles /\ surface.rendered \in Styles
         /\ surface.selected \subseteq Boxes /\ surface.targets \subseteq Boxes
         /\ gesture.before \subseteq Boxes /\ gesture.ids \subseteq Boxes
         /\ gesture.revision \in 0 .. MaxRevision
         /\ \A n \in Boxes : /\ sheet.style[n] \in Look /\ surface.painted[n] \in Look
                             /\ surface.rendered[n] \in Look
BY DEF GestureInv, GestureTypeOK, Sheet, Surface, Gesture, Styles

\* Moveable is there only for the nodes that the surface was rendered with.
LEMMA HandlesAreChecked ==
  ASSUME NEW s \in Surface
  PROVE  LET n == WithHandles(s)
         IN  /\ n \in Surface
             /\ n.painted = s.painted /\ n.rendered = s.rendered /\ n.selected = s.selected
             /\ n.targets = s.targets /\ n.effect = s.effect /\ n.stale = s.stale
             /\ n.handles => s.targets = s.selected
             /\ n.dragging => n.handles /\ s.dragging
BY DEF WithHandles, Surface

\* What a gesture painted is taken back.
LEMMA ElementsAreRestored ==
  ASSUME GestureInv
  PROVE  LET n == CancelledElements(surface)
         IN  /\ n \in Surface /\ n.dragging = FALSE
             /\ n.rendered = surface.rendered /\ n.selected = surface.selected
             /\ n.targets = surface.targets /\ n.handles = surface.handles
             /\ n.effect = surface.effect
             /\ \A b \in Boxes : n.painted[b] = IF b \in gesture.before THEN sheet.style[b]
                                                ELSE surface.painted[b]
BY GestureTypes DEF Styles, CancelledElements, RestoredElements, Surface

\* A gesture that ends leaves every element as it was rendered or as the document
\* is now.
LEMMA NothingIsLeftPainted ==
  ASSUME GestureInv
  PROVE  LET n == CancelledElements(surface)
         IN  \A b \in Boxes :
               /\ n.painted[b].width \in {surface.rendered[b].width, sheet.style[b].width}
               /\ n.painted[b].hidden \in {surface.rendered[b].hidden, sheet.style[b].hidden}
BY ElementsAreRestored DEF GestureInv, ShowsRenderedOrNow

\* A canvas that is rendered, with no gesture.
LEMMA GestureStarts == GestureInit => GestureInv
<1> SUFFICES ASSUME GestureInit PROVE GestureInv
  OBVIOUS
<1>1. PICK s \in Styles :
        /\ sheet = [style |-> s, queued |-> <<>>, revision |-> 0, readonly |-> FALSE,
                    selected |-> {}]
        /\ surface = [painted |-> s, rendered |-> s, selected |-> {}, readonly |-> FALSE,
                      targets |-> {}, handles |-> FALSE, stale |-> FALSE,
                      effect |-> FALSE, dragging |-> FALSE]
        /\ gesture = NoGesture
  BY DEF GestureInit
<1>2. 0 \in 0 .. MaxRevision
  BY CanvasGestureAssumption
<1>3. sheet \in Sheet
  BY <1>1, <1>2 DEF Sheet
<1>4. surface \in Surface /\ gesture \in Gesture
  BY <1>1, <1>2 DEF Surface, Gesture, NoGesture
<1> QED
  BY <1>1, <1>3, <1>4 DEF GestureInv, GestureTypeOK, NoGesture, ShowsRenderedOrNow

\* A step that ends the gesture and leaves the document as it is.
LEMMA CancelKeeps ==
  ASSUME GestureInv, Cancel, UNCHANGED sheet
  PROVE  GestureInv'
<1>1. gesture' = NoGesture /\ surface' = CancelledElements(surface) /\ sheet' = sheet
  BY DEF Cancel
<1>2. gesture' \in Gesture /\ gesture'.before = {} /\ ~gesture'.active
  BY <1>1, CanvasGestureAssumption DEF Gesture, NoGesture
<1>3. /\ surface' \in Surface /\ ~surface'.dragging
      /\ surface'.rendered = surface.rendered /\ surface'.selected = surface.selected
      /\ surface'.targets = surface.targets /\ surface'.handles = surface.handles
  BY <1>1, ElementsAreRestored
<1>4. \A n \in Boxes : ShowsRenderedOrNow(n)'
  BY <1>1, <1>3, NothingIsLeftPainted DEF ShowsRenderedOrNow
<1> QED
  BY <1>1, <1>2, <1>3, <1>4, GestureTypes DEF GestureInv, GestureTypeOK

\* A gesture begins on the selected nodes.
LEMMA BeginKeeps == ASSUME GestureInv, BeginGesture PROVE GestureInv'
<1>1. CASE Cancel
  BY <1>1, CancelKeeps DEF BeginGesture
<1>2. CASE /\ gesture' = [active |-> TRUE, ids |-> surface.selected,
                          revision |-> sheet.revision, command |-> NoWidth,
                          before |-> surface.targets]
           /\ surface' = [surface EXCEPT !.dragging = TRUE]
  <2>1. /\ surface.handles /\ ~surface.effect /\ surface.rendered = sheet.style
        /\ sheet' = sheet /\ surface.targets = surface.selected
    BY DEF BeginGesture, CanvasUpToDate, GestureInv
  <2>2. gesture' \in Gesture /\ gesture'.before = surface.selected
        /\ gesture'.ids = surface.selected /\ gesture'.command = NoWidth
        /\ gesture'.revision = sheet.revision
    BY <1>2, <2>1, GestureTypes DEF Gesture
  <2>3. /\ surface' \in Surface /\ surface'.painted = surface.painted
        /\ surface'.rendered = surface.rendered /\ surface'.selected = surface.selected
        /\ surface'.targets = surface.targets /\ surface'.handles = surface.handles
        /\ surface'.effect = surface.effect
    BY <1>2, GestureTypes DEF Surface
  <2>4. gesture.before \subseteq surface.selected
    BY <2>1 DEF GestureInv, GestureStands
  <2>5. \A n \in Boxes \ gesture'.before : ShowsRenderedOrNow(n)'
    BY <2>1, <2>2, <2>3, <2>4 DEF GestureInv, ShowsRenderedOrNow
  <2>6. GestureStands'
    BY <2>1, <2>2, <2>3, GestureTypes DEF GestureStands
  <2> QED
    BY <2>1, <2>2, <2>3, <2>5, <2>6, GestureTypes, <1>2 DEF GestureInv, GestureTypeOK
<1> QED
  BY <1>1, <1>2 DEF BeginGesture

\* What the document and the selection may do beside a gesture.
LEMMA SheetIsChanged ==
  ASSUME GestureInv, sheet' \in Sheet, gesture' = gesture,
         sheet'.style = sheet.style, sheet'.revision = sheet.revision,
         sheet'.queued # <<>> => surface.rendered = sheet.style /\ sheet.revision < MaxRevision,
         surface' = [surface EXCEPT !.stale = TRUE]
  PROVE  GestureInv'
BY GestureTypes DEF Surface, GestureInv, ShowsRenderedOrNow, GestureStands, GestureTypeOK

\* What they may do at its end.
LEMMA GestureIsEnded ==
  ASSUME GestureInv, sheet' \in Sheet, gesture' = NoGesture,
         sheet'.style = sheet.style, sheet'.revision = sheet.revision,
         sheet'.queued # <<>> => surface.rendered = sheet.style /\ sheet.revision < MaxRevision,
         \/ surface' = CancelledElements(surface)
         \/ surface' = [CancelledElements(surface) EXCEPT !.stale = TRUE]
  PROVE  GestureInv'
<1>1. gesture' \in Gesture /\ gesture'.before = {} /\ ~gesture'.active
  BY CanvasGestureAssumption DEF Gesture, NoGesture
<1> DEFINE n == CancelledElements(surface)
<1>2. /\ n \in Surface /\ n.dragging = FALSE
      /\ n.rendered = surface.rendered /\ n.selected = surface.selected
      /\ n.targets = surface.targets /\ n.handles = surface.handles
  BY ElementsAreRestored
<1>3. surface' = n \/ surface' = [n EXCEPT !.stale = TRUE]
  OBVIOUS
<1> HIDE DEF n
<1>4. /\ surface' \in Surface /\ surface'.painted = n.painted
      /\ surface'.rendered = surface.rendered /\ surface'.selected = surface.selected
      /\ surface'.targets = surface.targets /\ surface'.handles = surface.handles
      /\ ~surface'.dragging
  BY <1>2, <1>3 DEF Surface
<1>5. \A b \in Boxes : ShowsRenderedOrNow(b)'
  BY <1>4, NothingIsLeftPainted DEF ShowsRenderedOrNow, n
<1> QED
  BY <1>1, <1>4, <1>5 DEF GestureInv, GestureTypeOK

\* A command waits for Puck, and the document is the same until it is back.
LEMMA CommandWaits ==
  ASSUME GestureInv, CanCommit, NEW style \in Styles, NEW ids \in SUBSET Boxes,
         Committed(style, ids)
  PROVE  /\ sheet' \in Sheet /\ sheet'.style = sheet.style
         /\ sheet'.revision = sheet.revision
         /\ surface.rendered = sheet.style /\ sheet.revision < MaxRevision
         /\ sheet'.queued # <<>> => sheet'.queued = <<style>>
BY GestureTypes DEF Committed, Sheet, CanCommit, CanvasUpToDate

\* The documents that a gesture or a command asks for.
LEMMA StylesAreTyped ==
  ASSUME GestureInv
  PROVE  /\ \A ids \in SUBSET Boxes, w \in Widths : Resized(ids, w) \in Styles
         /\ \A n \in Boxes, look \in Look : [sheet.style EXCEPT ![n] = look] \in Styles
<1>1. ASSUME NEW ids \in SUBSET Boxes, NEW w \in Widths, NEW n \in Boxes
      PROVE  (IF n \in ids THEN [sheet.style[n] EXCEPT !.width = w] ELSE sheet.style[n]) \in Look
  BY GestureTypes DEF Look
<1>2. \A ids \in SUBSET Boxes, w \in Widths : Resized(ids, w) \in Styles
  BY <1>1 DEF Resized, Styles
<1> QED
  BY <1>2, GestureTypes DEF Styles

\* A move of the pointer: the command is painted, or nothing is.
LEMMA PreviewKeeps ==
  ASSUME GestureInv, NEW w \in Widths, NEW c \in BOOLEAN, PreviewGesture(w, c)
  PROVE  GestureInv'
<1>1. CASE Cancel
  BY <1>1, CancelKeeps DEF PreviewGesture
<1>2. CASE /\ PreviewsItsTargets
           /\ gesture' = [gesture EXCEPT !.command = w]
           /\ surface' = [surface EXCEPT
                !.painted = [n \in Boxes |-> IF n \in surface.targets
                                             THEN Resized(surface.selected, w)[n] ELSE @[n]]]
  <2> DEFINE painted == [n \in Boxes |-> IF n \in surface.targets
                                         THEN Resized(surface.selected, w)[n]
                                         ELSE surface.painted[n]]
  <2>1. /\ surface.dragging /\ gesture.active /\ sheet' = sheet /\ GestureStands
        /\ sheet.revision = gesture.revision
        /\ surface.selected = gesture.ids /\ gesture.ids = gesture.before
        /\ gesture.before = surface.targets /\ surface.rendered = sheet.style
    BY <1>2 DEF PreviewGesture, GestureInv, PreviewsItsTargets, IsCurrent, GestureStands
  <2>2. \A n \in Boxes : painted[n] = IF n \in gesture.before
                                      THEN [width |-> w, hidden |-> sheet.style[n].hidden]
                                      ELSE surface.painted[n]
    BY <2>1, GestureTypes DEF Resized, Look
  <2>3. painted \in Styles
    <3> SUFFICES ASSUME NEW n \in Boxes PROVE painted[n] \in Look
      BY DEF Styles
    <3> HIDE DEF painted
    <3>1. CASE n \in gesture.before
      <4>1. painted[n] = [width |-> w, hidden |-> sheet.style[n].hidden]
        BY <2>2, <3>1
      <4>2. sheet.style[n].hidden \in BOOLEAN
        BY GestureTypes DEF Look
      <4> QED
        BY <4>1, <4>2 DEF Look
    <3>2. CASE n \notin gesture.before
      BY <2>2, <3>2, GestureTypes
    <3> QED
      BY <3>1, <3>2
  <2>4. surface' = [surface EXCEPT !.painted = painted]
    BY <1>2
  <2> HIDE DEF painted
  <2>5. /\ surface' \in Surface /\ surface'.painted = painted
        /\ surface'.rendered = surface.rendered /\ surface'.selected = surface.selected
        /\ surface'.targets = surface.targets /\ surface'.handles = surface.handles
        /\ surface'.effect = surface.effect /\ surface'.dragging = surface.dragging
    BY <2>3, <2>4, GestureTypes DEF Surface
  <2>6. /\ gesture' \in Gesture /\ gesture'.before = gesture.before
        /\ gesture'.ids = gesture.ids /\ gesture'.command = w
        /\ gesture'.revision = gesture.revision /\ gesture'.active = gesture.active
    BY <1>2, GestureTypes DEF Gesture
  <2>7. \A n \in Boxes \ gesture'.before : ShowsRenderedOrNow(n)'
    BY <2>1, <2>2, <2>5, <2>6 DEF GestureInv, ShowsRenderedOrNow
  <2>8. GestureStands'
    BY <2>1, <2>2, <2>5, <2>6, GestureTypes DEF GestureStands
  <2> QED
    BY <2>1, <2>5, <2>6, <2>7, <2>8, GestureTypes DEF GestureInv, GestureTypeOK
<1> QED
  BY <1>1, <1>2 DEF PreviewGesture

\* The end of a gesture that commits.
LEMMA FinishKeeps == ASSUME GestureInv, FinishGesture PROVE GestureInv'
<1>1. gesture' = NoGesture /\ CanCommit
  BY DEF FinishGesture
<1>2. CASE gesture.active /\ FinishesCurrent
  BY <1>2, <1>1, GestureTypes, StylesAreTyped, CommandWaits, GestureIsEnded DEF FinishGesture,
     FinishesCurrent, Gesture
<1>3. CASE ~(gesture.active /\ FinishesCurrent)
  BY <1>1, <1>3, CancelKeeps DEF FinishGesture, Cancel
<1> QED
  BY <1>2, <1>3

\* A command arrives while a gesture is on.
LEMMA OverGestureKeeps ==
  ASSUME GestureInv, NEW b \in Boxes, NEW look \in Look, CommandOverGesture(b, look)
  PROVE  GestureInv'
BY GestureTypes, StylesAreTyped, CommandWaits, GestureIsEnded DEF CommandOverGesture

\* A change of the document beside the canvas.
LEMMA BesideGestureKeeps ==
  ASSUME GestureInv, NEW b \in Boxes, NEW look \in Look, ChangeBesideGesture(b, look)
  PROVE  GestureInv'
BY StylesAreTyped, CommandWaits, SheetIsChanged DEF ChangeBesideGesture

\* Other nodes are selected.
LEMMA SelectKeeps ==
  ASSUME GestureInv, NEW ids \in Selections, SelectBoxes(ids)
  PROVE  GestureInv'
BY CanvasGestureAssumption, GestureTypes, SheetIsChanged DEF SelectBoxes, Sheet, GestureInv

\* The view is scrolled or its breakpoint changes: the gesture is abandoned.
LEMMA ViewKeeps == ASSUME GestureInv, ChangeView PROVE GestureInv'
BY GestureTypes, SheetIsChanged DEF ChangeView, Sheet, GestureInv

\* What was rendered is what every element shows that no gesture holds, so the
\* document may change.
LEMMA AcceptKeeps == ASSUME GestureInv, AcceptChange PROVE GestureInv'
<1>1. /\ surface.rendered = sheet.style /\ sheet.revision < MaxRevision
      /\ gesture' = gesture
  BY DEF AcceptChange, GestureInv
<1>2. PICK s \in Styles : sheet.queued = <<s>>
  BY GestureTypes DEF AcceptChange, Sheet
<1>3. sheet' = [sheet EXCEPT !.style = s, !.queued = <<>>, !.revision = sheet.revision + 1]
  BY <1>2, GestureTypes DEF AcceptChange, Sheet
<1>4. sheet.revision + 1 \in 0 .. MaxRevision
  BY <1>1, GestureTypes, CanvasGestureAssumption
<1>5. /\ sheet' \in Sheet /\ sheet'.style = s /\ sheet'.queued = <<>>
      /\ sheet'.revision = sheet.revision + 1
  BY <1>3, <1>4, GestureTypes DEF Sheet
<1>6. /\ surface' \in Surface /\ surface'.painted = surface.painted
      /\ surface'.rendered = surface.rendered /\ surface'.selected = surface.selected
      /\ surface'.targets = surface.targets /\ surface'.handles = surface.handles
      /\ surface'.effect = surface.effect /\ surface'.dragging = surface.dragging
  BY GestureTypes DEF AcceptChange, Surface
<1>7. \A n \in Boxes \ gesture'.before : ShowsRenderedOrNow(n)'
  BY <1>1, <1>5, <1>6 DEF GestureInv, ShowsRenderedOrNow
<1>8. gesture'.active => GestureStands' /\ gesture'.revision # sheet'.revision
  BY <1>1, <1>5, <1>6, GestureTypes, CanvasGestureAssumption DEF GestureInv, GestureStands
<1> QED
  BY <1>1, <1>5, <1>6, <1>7, <1>8 DEF GestureInv, GestureTypeOK

\* React renders: it writes the declarations that changed.
LEMMA RenderKeeps == ASSUME GestureInv, RenderSurface PROVE GestureInv'
<1> DEFINE painted == [n \in Boxes |-> Repainted(surface.painted[n], surface.rendered[n],
                                                sheet.style[n])]
           s == [surface EXCEPT !.painted = painted, !.rendered = sheet.style,
                   !.selected = sheet.selected, !.readonly = sheet.readonly,
                   !.stale = FALSE, !.effect = TRUE]
<1>1. /\ surface' = WithHandles(s) /\ sheet' = sheet /\ gesture' = gesture
      /\ ~surface.effect
  BY DEF RenderSurface
<1>2. ASSUME NEW n \in Boxes
      PROVE  /\ painted[n] \in Look
             /\ painted[n].width = IF surface.rendered[n].width = sheet.style[n].width
                                   THEN surface.painted[n].width ELSE sheet.style[n].width
             /\ painted[n].hidden = IF surface.rendered[n].hidden = sheet.style[n].hidden
                                    THEN surface.painted[n].hidden ELSE sheet.style[n].hidden
  BY GestureTypes DEF Repainted, Look
<1>3. painted \in Styles
  BY <1>2 DEF Styles
<1> HIDE DEF painted
<1>4. /\ s \in Surface /\ s.painted = painted /\ s.rendered = sheet.style
      /\ s.selected = sheet.selected /\ s.targets = surface.targets /\ s.effect = TRUE
      /\ s.dragging = surface.dragging
  BY <1>3, GestureTypes DEF Surface, Sheet
<1> HIDE DEF s
<1>5. /\ surface' \in Surface /\ surface'.painted = painted
      /\ surface'.rendered = sheet.style /\ surface'.selected = sheet.selected
      /\ surface'.targets = surface.targets /\ surface'.effect = TRUE
      /\ surface'.handles => surface'.targets = surface'.selected
      /\ surface'.dragging => surface'.handles /\ surface.dragging
  BY <1>1, <1>4, HandlesAreChecked
<1>6. \A n \in Boxes \ gesture'.before : ShowsRenderedOrNow(n)'
  BY <1>1, <1>2, <1>5 DEF GestureInv, ShowsRenderedOrNow
<1>7. ASSUME gesture'.active PROVE GestureStands'
  <2>1. GestureStands
    BY <1>1, <1>7 DEF GestureInv
  <2>2. ASSUME gesture.revision = sheet.revision, gesture.command # NoWidth,
               NEW n \in gesture.before
        PROVE  painted[n] = [width |-> gesture.command, hidden |-> sheet.style[n].hidden]
    BY <2>1, <2>2, <1>2, GestureTypes DEF GestureStands, Look
  <2> QED
    BY <1>1, <1>5, <2>1, <2>2 DEF GestureStands
<1> QED
  BY <1>1, <1>5, <1>6, <1>7 DEF GestureInv, GestureTypeOK

\* The effect that follows a render: it restores and reads the targets again.
LEMMA EffectKeeps == ASSUME GestureInv, SurfaceEffect PROVE GestureInv'
<1> DEFINE n == CancelledElements(surface)
           s == [n EXCEPT !.targets = surface.selected, !.effect = FALSE]
<1>1. surface' = WithHandles(s) /\ gesture' = NoGesture /\ sheet' = sheet
  BY DEF SurfaceEffect
<1>2. /\ n \in Surface /\ n.rendered = surface.rendered
  BY ElementsAreRestored
<1>3. \A b \in Boxes :
        /\ n.painted[b].width \in {surface.rendered[b].width, sheet.style[b].width}
        /\ n.painted[b].hidden \in {surface.rendered[b].hidden, sheet.style[b].hidden}
  BY NothingIsLeftPainted
<1> HIDE DEF n
<1>4. /\ s \in Surface /\ s.painted = n.painted /\ s.rendered = surface.rendered
  BY <1>2, GestureTypes DEF Surface
<1> HIDE DEF s
<1>5. /\ surface' \in Surface /\ surface'.painted = n.painted
      /\ surface'.rendered = surface.rendered
      /\ surface'.handles => surface'.targets = surface'.selected
      /\ surface'.dragging => surface'.handles
  BY <1>1, <1>4, HandlesAreChecked
<1>6. \A b \in Boxes : ShowsRenderedOrNow(b)'
  BY <1>1, <1>3, <1>5 DEF ShowsRenderedOrNow
<1>7. gesture' \in Gesture /\ gesture'.before = {} /\ ~gesture'.active
  BY <1>1, CanvasGestureAssumption DEF Gesture, NoGesture
<1> QED
  BY <1>1, <1>5, <1>6, <1>7 DEF GestureInv, GestureTypeOK

\* The handles take the targets of now.
LEMMA RefreshKeeps == ASSUME GestureInv, RefreshTargets PROVE GestureInv'
<1> DEFINE s == [surface EXCEPT !.targets = sheet.selected]
<1>1. surface' = WithHandles(s) /\ gesture' = gesture /\ sheet' = sheet
      /\ surface.targets # sheet.selected
  BY DEF RefreshTargets
<1>2. /\ s \in Surface /\ s.painted = surface.painted /\ s.rendered = surface.rendered
      /\ s.selected = surface.selected /\ s.targets = sheet.selected
      /\ s.effect = surface.effect /\ s.dragging = surface.dragging
  BY GestureTypes DEF Surface
<1> HIDE DEF s
<1>3. /\ surface' \in Surface /\ surface'.painted = surface.painted
      /\ surface'.rendered = surface.rendered /\ surface'.selected = surface.selected
      /\ surface'.targets = sheet.selected /\ surface'.effect = surface.effect
      /\ surface'.handles => surface'.targets = surface'.selected
      /\ surface'.dragging => surface'.handles /\ surface.dragging
  BY <1>1, <1>2, HandlesAreChecked
<1>4. ~surface'.dragging
  BY <1>1, <1>3 DEF GestureInv
<1>5. \A n \in Boxes \ gesture'.before : ShowsRenderedOrNow(n)'
  BY <1>1, <1>3 DEF GestureInv, ShowsRenderedOrNow
<1>6. gesture'.active => GestureStands'
  BY <1>1, <1>3, <1>4 DEF GestureInv, GestureStands
<1> QED
  BY <1>1, <1>3, <1>5, <1>6 DEF GestureInv, GestureTypeOK

\* Every step of the canvas keeps what its gesture rests on.
LEMMA GestureStep == ASSUME GestureInv, [GestureNext]_gestureVars PROVE GestureInv'
<1>1. CASE UNCHANGED gestureVars
  BY <1>1 DEF GestureInv, GestureTypeOK, GestureStands, ShowsRenderedOrNow, gestureVars
<1>2. CASE BeginGesture
  BY <1>2, BeginKeeps
<1>3. CASE FinishGesture
  BY <1>3, FinishKeeps
<1>4. CASE Abandon
  BY <1>4, CancelKeeps DEF Abandon
<1>5. ASSUME NEW w \in Widths, NEW c \in BOOLEAN, PreviewGesture(w, c) PROVE GestureInv'
  BY <1>5, PreviewKeeps
<1>6. ASSUME NEW b \in Boxes, NEW look \in Look,
             CommandOverGesture(b, look) \/ ChangeBesideGesture(b, look)
      PROVE  GestureInv'
  BY <1>6, OverGestureKeeps, BesideGestureKeeps
<1>7. ASSUME NEW ids \in Selections, SelectBoxes(ids) PROVE GestureInv'
  BY <1>7, SelectKeeps
<1>8. CASE AcceptChange
  BY <1>8, AcceptKeeps
<1>9. CASE ChangeView
  BY <1>9, ViewKeeps
<1>10. CASE RenderSurface
  BY <1>10, RenderKeeps
<1>11. CASE SurfaceEffect
  BY <1>11, EffectKeeps
<1>12. CASE RefreshTargets
  BY <1>12, RefreshKeeps
<1> QED
  BY <1>1, <1>2, <1>3, <1>4, <1>5, <1>6, <1>7, <1>8, <1>9, <1>10, <1>11, <1>12 DEF GestureNext

\* The invariant is what the runs check and more.
LEMMA NothingStaysPainted == GestureInv => NothingProvisionalStays
<1> SUFFICES ASSUME GestureInv, ~gesture.active, surface.rendered = sheet.style
             PROVE  surface.painted = sheet.style
  BY DEF NothingProvisionalStays
<1>1. ASSUME NEW n \in Boxes PROVE surface.painted[n] = sheet.style[n]
  BY GestureTypes DEF GestureInv, ShowsRenderedOrNow, Look
<1> QED
  BY <1>1, GestureTypes DEF Styles

\* The command of a gesture has on every node what the screen showed when it ended.
LEMMA CommitsTheScreen ==
  ASSUME GestureInv, gesture.active, FinishGesture, sheet'.queued # <<>>
  PROVE  /\ ~sheet.readonly
         /\ \A n \in Boxes : sheet'.queued[1][n] =
               IF n \in gesture.before THEN surface.painted[n] ELSE sheet.style[n]
<1>1. CanCommit /\ FinishesCurrent
  BY DEF FinishGesture, CanCommit, CanvasUpToDate
<1> DEFINE style == Resized(gesture.ids, gesture.command)
<1>2. Committed(style, gesture.ids)
  BY <1>1 DEF FinishGesture
<1>3. style \in Styles /\ gesture.ids \in SUBSET Boxes
  BY <1>1, GestureTypes, StylesAreTyped DEF FinishesCurrent, Gesture
<1>4. /\ ~sheet.readonly /\ GestureStands /\ gesture.ids = gesture.before
      /\ gesture.revision = sheet.revision /\ gesture.command # NoWidth
  BY <1>1 DEF FinishesCurrent, IsCurrent, GestureInv, GestureStands
<1>5. ASSUME NEW n \in Boxes
      PROVE  style[n] = IF n \in gesture.before THEN surface.painted[n] ELSE sheet.style[n]
  <2>1. CASE n \in gesture.before
    BY <1>4, <2>1, GestureTypes DEF Resized, Look, GestureStands
  <2>2. CASE n \notin gesture.before
    BY <1>4, <2>2 DEF Resized
  <2> QED
    BY <2>1, <2>2
<1> HIDE DEF style
<1>6. sheet'.queued = <<style>>
  BY <1>1, <1>2, <1>3, CommandWaits
<1>7. sheet'.queued[1] = style
  BY <1>6
<1> QED
  BY <1>4, <1>5, <1>7
-----------------------------------------------------------------------------
(***************************************************************************)
(* The screens together. A step of the editor is a step of one screen, and *)
(* the others wait. Of the page editor only the types are needed here; its *)
(* own properties are in DraftEditorProofs.                                *)
(***************************************************************************)

\* Every screen keeps the invariant of its component, whichever of them is open.
EditorInv == /\ TypeOK /\ StructureInv /\ BridgeInv /\ MediaInv
             /\ PartEditorsInv /\ PairInv /\ GestureInv

\* Whatever a step does to the editor, each screen makes one of its own steps or none.
LEMMA ScreensStepApart ==
  ASSUME [ScreensNext]_<<screen, screens>>
  PROVE  /\ [Next]_vars /\ [StructureNext]_structureVars
         /\ [BridgeNext]_bridgeVars /\ [MediaNext]_mediaVars
         /\ [SitePartEditorsNext]_partEditorVars /\ [PairNext]_pairVars
         /\ [GestureNext]_gestureVars
<1>1. CASE UNCHANGED <<screen, screens>>
  BY <1>1 DEF screens
<1>2. CASE ScreensNext
  BY <1>2 DEF Rest, ScreensNext
<1> QED
  BY <1>1, <1>2

\* The editor starts with every screen sound.
LEMMA EditorStarts == ScreensInit => EditorInv
BY EditorTypesInit, StructureStarts, BridgeStarts, MediaStarts, PartEditorsStart, PairStarts,
   GestureStarts DEF ScreensInit, EditorInv

\* Every step of the editor keeps every screen sound.
LEMMA EditorStays == EditorInv /\ [ScreensNext]_<<screen, screens>> => EditorInv'
BY ScreensStepApart, EditorTypesStep, StructureStep, BridgeStep, MediaStep, PartEditorsStep,
   PairStep, GestureStep DEF EditorInv

\* The inductive invariant of the editor: each screen is sound in every state.
THEOREM EditorScreensStaySound == ScreensSpec => []EditorInv
BY EditorStarts, EditorStays, PTL DEF ScreensSpec

\* What the invariant says of the screens, the four properties of a state at once.
LEMMA EditorPromises ==
  EditorInv => ScreensTypeOK /\ SavedWorkIsStored /\ OffersAreTrue /\ CanvasIsTheDocument
<1> SUFFICES ASSUME EditorInv
             PROVE  ScreensTypeOK /\ SavedWorkIsStored /\ OffersAreTrue /\ CanvasIsTheDocument
  OBVIOUS
<1>1. /\ TypeOK /\ StructureInv /\ BridgeInv /\ MediaInv
      /\ PartEditorsInv /\ PairInv /\ GestureInv
  BY DEF EditorInv
<1>2. CleanMeansStored /\ OffersTheScreen
  BY <1>1, ScreenIsStored
<1>3. CanvasShowsDocument /\ HistoryNamesDocument
  BY <1>1, BridgeIsCanvas
<1>4. CleanPartIsStored /\ OffersOnlyReady
  BY <1>1, PartsAreTrue
<1>5. CleanPartsAreStored /\ TokensAreNewest
  BY <1>1, PairIsStored
<1>6. NothingProvisionalStays
  BY <1>1, NothingStaysPainted
<1>7. /\ StructureTypeOK /\ BridgeTypeOK /\ MediaTypeOK /\ SitePartEditorsTypeOK
      /\ PairTypeOK /\ GestureTypeOK /\ UploadFlagIsFreed
  BY <1>1 DEF StructureInv, BridgeInv, MediaInv, PartEditorsInv, PairInv, GestureInv
<1> QED
  BY <1>1, <1>2, <1>3, <1>4, <1>5, <1>6, <1>7 DEF ScreensTypeOK, SavedWorkIsStored, OffersAreTrue,
     CanvasIsTheDocument

\* Every variable of every screen keeps its type.
THEOREM EditorScreenTypesAreCorrect == ScreensSpec => []ScreensTypeOK
BY EditorScreensStaySound, EditorPromises, PTL

\* Whatever is lost, answered late or written by others meanwhile, work that a screen shows as
\* saved is the draft of the version that it knows.
THEOREM SavedWorkIsAlwaysStored == ScreensSpec => []SavedWorkIsStored
BY EditorScreensStaySound, EditorPromises, PTL

\* The publication dialog and the preview are always of the screen, what can be activated is
\* ready, a save sends the newest version, and an upload that blocks the inspector is its own.
THEOREM OffersAreAlwaysTrue == ScreensSpec => []OffersAreTrue
BY EditorScreensStaySound, EditorPromises, PTL

\* Whatever Puck does of its own, the canvas shows the document and the history leads there;
\* whatever moves the document under a gesture, nothing that it painted stays.
THEOREM CanvasIsAlwaysTheDocument == ScreensSpec => []CanvasIsTheDocument
BY EditorScreensStaySound, EditorPromises, PTL

\* Every publication of these screens makes public what was on the screen when it was confirmed
\* or pressed, and a token of the structure editor is sent at most once.
THEOREM ConfirmedIsPublished == ScreensSpec => PublishesWhatWasConfirmed
<1>1. EditorInv /\ [ScreensNext]_<<screen, screens>> =>
        [pageServer'.live # pageServer.live /\ controls'.step # controls.step
           => pageServer'.live = controls.confirmed]_structureVars
  BY ScreensStepApart, PublishesTheDialog DEF EditorInv
<1>2. EditorInv /\ [ScreensNext]_<<screen, screens>> =>
        [controls.step = "idle" /\ controls'.step = "sent" /\ controls'.kind = "commit"
           => controls'.ticket \notin controls.used]_structureVars
  BY ScreensStepApart, TokenIsFresh DEF EditorInv
<1>3. EditorInv /\ [ScreensNext]_<<screen, screens>> =>
        [\A s \in ShellSets : shellServer'.live[s] # shellServer.live[s]
          => \E r \in shellRequests : r.kind = "publish" /\ r.target = s
                 /\ shellServer'.live[s] = r.asked]_partEditorVars
  BY ScreensStepApart, PublishesTheCanvas DEF EditorInv
<1>4. EditorInv /\ [ScreensNext]_<<screen, screens>> =>
        [\A c \in partCalls :
          c.mine /\ c.kind = "publish" /\ HandlePartCall(c) /\ pairServer' # pairServer
              => \A k \in PartKinds : pairServer'[k].live = Parts[k].doc]_pairVars
  BY ScreensStepApart, BothScreensAreLive DEF EditorInv
<1>5. ScreensSpec => []EditorInv /\ [][ScreensNext]_<<screen, screens>>
  BY EditorScreensStaySound, PTL DEF ScreensSpec
<1>6. ScreensSpec => PublishesTheConfirmed
  BY <1>1, <1>5, PTL DEF PublishesTheConfirmed
<1>7. ScreensSpec => TokenSentOnce
  BY <1>2, <1>5, PTL DEF TokenSentOnce
<1>8. ScreensSpec => PublishesThePressed
  BY <1>3, <1>5, PTL DEF PublishesThePressed
<1>9. ScreensSpec => PublishesBothScreens
  BY <1>4, <1>5, PTL DEF PublishesBothScreens
<1> QED
  BY <1>6, <1>7, <1>8, <1>9, PTL DEF PublishesWhatWasConfirmed

\* A write of the structure editor replaces only what the page loaded or wrote, and a write of
\* the pair only a row at the version that the page was told of.
THEOREM NobodysWorkIsReplaced == ScreensSpec => OthersWorkIsKept
<1>1. EditorInv /\ [ScreensNext]_<<screen, screens>> =>
        [pageServer'.version # pageServer.version /\ pageServer'.own
           => pageServer.own]_structureVars
  BY ScreensStepApart, OthersDraftIsKept DEF EditorInv
<1>2. EditorInv /\ [ScreensNext]_<<screen, screens>> =>
        [\A c \in partCalls, k \in PartKinds :
          HandlePartCall(c) /\ pairServer'[k] # pairServer[k]
              => c.locks[k] = pairServer[k].lock]_pairVars
  BY ScreensStepApart, DraftsAreCompared DEF EditorInv
<1>3. ScreensSpec => []EditorInv /\ [][ScreensNext]_<<screen, screens>>
  BY EditorScreensStaySound, PTL DEF ScreensSpec
<1>4. ScreensSpec => NeverOverwritesAnother
  BY <1>1, <1>3, PTL DEF NeverOverwritesAnother
<1>5. ScreensSpec => PartsAreCompared
  BY <1>2, <1>3, PTL DEF PartsAreCompared
<1> QED
  BY <1>4, <1>5, PTL DEF OthersWorkIsKept

\* What Puck changes without leave never becomes the document, an upload is applied only to the
\* image it was for, and a gesture commits what it showed.
THEOREM ChangesStayAimed == ScreensSpec => ChangesAreAimed
<1>1. EditorInv /\ [ScreensNext]_<<screen, screens>> =>
        [bridge'.document # bridge.document => ~puck.foreign]_bridgeVars
  BY ScreensStepApart, ForeignStaysOut DEF EditorInv
<1>2. EditorInv /\ [ScreensNext]_<<screen, screens>> =>
        [\A c \in calls : UploadApplied(c) => /\ ~c.overtaken
                                              /\ c.node = canvas.selected]_mediaVars
  BY LatestWishApplies DEF EditorInv
<1>3. EditorInv /\ [ScreensNext]_<<screen, screens>> =>
        [gesture.active /\ ~gesture'.active /\ FinishGesture /\ sheet'.queued # <<>>
           => /\ ~sheet.readonly
              /\ \A n \in Boxes : sheet'.queued[1][n] =
                    IF n \in gesture.before THEN surface.painted[n] ELSE sheet.style[n]
        ]_gestureVars
  BY CommitsTheScreen DEF EditorInv
<1>4. ScreensSpec => []EditorInv /\ [][ScreensNext]_<<screen, screens>>
  BY EditorScreensStaySound, PTL DEF ScreensSpec
<1>5. ScreensSpec => ForeignChangesStayOut
  BY <1>1, <1>4, PTL DEF ForeignChangesStayOut
<1>6. ScreensSpec => OnlyTheLatestWishApplies
  BY <1>2, <1>4, PTL DEF OnlyTheLatestWishApplies
<1>7. ScreensSpec => CommitsWhatWasShown
  BY <1>3, <1>4, PTL DEF CommitsWhatWasShown
<1> QED
  BY <1>5, <1>6, <1>7, PTL DEF ChangesAreAimed
=============================================================================
