-------------------------- MODULE ManagerDocuments --------------------------
(***************************************************************************)
(* The administrator's list of documents: its filter and reloads, the      *)
(* dialogs over it, and the changes they send, whose answers arrive after  *)
(* the dialog was closed, the filter changed or the list reloaded.         *)
(*                                                                         *)
(* A document is its lock version and whether it is archived; titles,      *)
(* addresses and the search over what is shown are left out. A dialog      *)
(* covers the list, so one is open at a time. The dialog of the metadata,  *)
(* with unpublishing, and that of the revisions, with restoring, treat     *)
(* their requests alike and are one dialog here, "settings", with "save"   *)
(* and a confirmed "restore".                                              *)
(***************************************************************************)
EXTENDS Naturals, FiniteSets

CONSTANTS Docs,        \* the identities of documents
          Worked,      \* a bound: those that are there and are worked on
          MaxLock,     \* bound on the lock version of a document
          MaxChanges   \* bound on the changes under way

ASSUME ManagerAssumption ==
    Worked \subseteq Docs /\ MaxLock \in Nat \ {0} /\ MaxChanges \in Nat \ {0}

VARIABLES library,   \* the documents of the server
          manager,   \* the state of the hooks
          list,      \* the list request whose answer is still wanted
          changes,   \* the changes under way, and the previews
          told       \* what the page has been told, observed and not in the code

managerVars == <<library, manager, list, changes, told>>
-----------------------------------------------------------------------------
Filters == {"active", "archived"}
Nothing == [lock |-> 0, status |-> "absent"]
Resources == [lock : 0 .. MaxLock, status : {"absent", "active", "archived", "gone"}]
Listing == [Docs -> Resources]
NoListing == [d \in Docs |-> Nothing]

\* Changes of the list hold a key until they and their reload are answered;
\* changes of the settings are busy while they are current.
ListKinds == {"create", "duplicate", "home", "archive", "unarchive", "purge"}
DialogKinds == {"save", "restore", "preview"}
KeyOf(kind) == IF kind \in {"archive", "unarchive", "purge"} THEN "lifecycle" ELSE kind
Keys == {KeyOf(kind) : kind \in ListKinds}

Dialogs == (ListKinds \ {"home", "unarchive"}) \cup {"settings", "restore"}
NoDialog == [kind |-> "none", doc |-> {}, lock |-> 0]
\* The requests nobody waits for once a dialog of this kind opens or closes.
OwnedBy(kind) == IF kind = "settings" THEN DialogKinds ELSE {kind}
\* The dialog whose button sends this request.
DialogOf(kind) == IF kind \in {"save", "preview"} THEN "settings" ELSE kind

Slots == 1 .. MaxChanges
NoChange == [kind |-> "none", doc |-> {}, lock |-> 0, state |-> "none",
             result |-> Nothing, current |-> FALSE]
Free == {i \in Slots : changes[i].kind = "none"}

NoList == [state |-> "none", filter |-> "active", read |-> NoListing,
           missed |-> {}, frees |-> "none"]
ListFor(filter, key) ==
    [NoList EXCEPT !.state = "sent", !.filter = filter, !.frees = key]

BelongsTo(r, filter) == /\ r.status \in Filters
                        /\ r.status = filter

ManagerTypeOK ==
    /\ library \in Listing
    /\ manager.filter \in Filters /\ manager.items \in Listing
    /\ manager.confirmed \in Listing
    /\ manager.loading \in BOOLEAN /\ manager.failed \in BOOLEAN
    /\ manager.pending \subseteq Keys /\ manager.superseded \subseteq Keys
    /\ manager.busy \subseteq DialogKinds /\ manager.away \in BOOLEAN
    /\ manager.dialog.kind \in Dialogs \cup {"none"}
    /\ list.state \in {"none", "sent", "read"} /\ list.read \in Listing
    /\ manager.windows \subseteq Slots
    /\ \A i \in Slots : changes[i].kind \in ListKinds \cup DialogKinds \cup {"none"}
-----------------------------------------------------------------------------
ManagerInit ==
    /\ library = [d \in Docs |-> IF d \in Worked THEN [lock |-> 1, status |-> "active"]
                                 ELSE Nothing]
    /\ manager = [filter |-> "active", items |-> NoListing, confirmed |-> NoListing,
                  loading |-> TRUE, failed |-> FALSE, pending |-> {}, superseded |-> {},
                  busy |-> {}, dialog |-> NoDialog, windows |-> {}, away |-> FALSE]
    /\ list = ListFor("active", "none")
    /\ changes = [i \in Slots |-> NoChange]
    /\ told = [seen |-> [d \in Docs |-> 0], untold |-> {}]

\* Mutated: the last answer wins.
RetainLatest(m, d, r) == r

\* retainConfirmed: an older version than one already answered is not shown.
RetainConfirmed(m, d, r) ==
    IF m.confirmed[d].lock > r.lock THEN m.confirmed[d] ELSE r

Higher(n, k) == IF n > k THEN n ELSE k
SeenWith(d, r) == [told EXCEPT !.seen[d] = Higher(@, r.lock)]

\* A reload makes the one under way stale: its answer only frees its key.
Superseding(m) == IF list.state = "none" THEN m
                  ELSE [m EXCEPT !.superseded = @ \cup ({list.frees} \ {"none"})]

\* reloadCurrent
Reload(m, key) == /\ manager' = [Superseding(m) EXCEPT !.loading = TRUE]
                  /\ list' = ListFor(m.filter, key)

SwitchFilter(filter) ==
    /\ manager.dialog = NoDialog /\ filter # manager.filter
    /\ Reload([manager EXCEPT !.filter = filter], "none")
    /\ UNCHANGED <<library, changes, told>>

\* The server reads the list.
ReadList ==
    /\ list.state = "sent"
    /\ list' = [list EXCEPT !.state = "read",
                   !.read = [d \in Docs |-> IF BelongsTo(library[d], list.filter)
                                            THEN library[d] ELSE Nothing]]
    /\ UNCHANGED <<library, manager, changes, told>>

\* operation.finish()
Finished(m, key) == [m EXCEPT !.pending = @ \ {key}]

\* Mutated: the list is shown as it was read.
ItemsAsRead(m, read) == read

ItemsOf(m, read) ==
    [d \in Docs |-> LET r == RetainConfirmed(m, d, read[d])
                    IN IF read[d] # Nothing /\ BelongsTo(r, m.filter) THEN r ELSE Nothing]

TakeList ==
    /\ list.state = "read" /\ ~manager.away
    /\ LET m == [Finished(manager, list.frees) EXCEPT !.loading = FALSE]
           read == list.read
       IN /\ manager' = [m EXCEPT !.failed = FALSE, !.items = ItemsOf(m, read),
                    !.confirmed = [d \in Docs |-> RetainConfirmed(m, d, read[d])]]
          /\ told' = [untold |-> list.missed,
                      seen |-> [d \in Docs |-> Higher(told.seen[d], read[d].lock)]]
    /\ list' = NoList
    /\ UNCHANGED <<library, changes>>

\* The request failed; what was shown stays.
ListFails ==
    /\ list.state = "sent" /\ ~manager.away
    /\ manager' = [Finished(manager, list.frees) EXCEPT !.loading = FALSE, !.failed = TRUE]
    /\ list' = NoList
    /\ UNCHANGED <<library, changes, told>>

TakeSuperseded(key) ==
    /\ key \in manager.superseded /\ ~manager.away
    /\ manager' = [Finished(manager, key) EXCEPT !.superseded = @ \ {key}]
    /\ UNCHANGED <<library, list, changes, told>>
-----------------------------------------------------------------------------
\* The windows of previews that are waiting for their address.
Blank(kinds) == {i \in Slots : changes[i].kind \in kinds /\ changes[i].kind = "preview"}

\* A dialog that opens or closes is no longer waited in for its requests.
Unwaited(kinds) ==
    [i \in Slots |-> IF changes[i].kind \in kinds
                     THEN [changes[i] EXCEPT !.current = FALSE] ELSE changes[i]]

\* Mutated: previews that are waiting stay open.
LeavingOpen(m, kinds) == [m EXCEPT !.busy = @ \ kinds]

\* closeMetadata, closeRevisions and the sessions of the list's dialogs
Leaving(m, kinds) == [m EXCEPT !.busy = @ \ kinds, !.windows = @ \ Blank(kinds)]

\* The document a dialog works on: the one in the list, else as it was opened.
Shown(d, lock) == IF manager.items[d] # Nothing THEN manager.items[d].lock ELSE lock

\* The dialogs of a row, and the confirmation over the settings.
MayOpen(kind, d) ==
    LET r == manager.items[d]
    IN CASE kind = "create" -> manager.dialog = NoDialog
         [] kind = "purge" -> manager.dialog = NoDialog /\ ~manager.loading /\ r.status = "archived"
         [] kind = "restore" -> manager.dialog.kind = "settings" /\ manager.dialog.doc = d
         [] OTHER -> manager.dialog = NoDialog /\ ~manager.loading /\ r.status = "active"

OpenDialog(kind, d) ==
    /\ ~manager.away /\ MayOpen(kind, d) /\ (d \in Worked <=> kind # "create")
    /\ manager' = [Leaving(manager, OwnedBy(kind)) EXCEPT
                      !.dialog = [kind |-> kind, doc |-> d,
                                  lock |-> IF kind = "create" THEN 0
                                           ELSE Shown(d, manager.dialog.lock)]]
    /\ changes' = Unwaited(OwnedBy(kind))
    /\ UNCHANGED <<library, list, told>>

\* A confirmation returns to the dialog it was opened from.
Beneath(dialog) == IF dialog.kind = "restore" THEN [dialog EXCEPT !.kind = "settings"]
                   ELSE NoDialog

CloseDialog ==
    /\ manager.dialog # NoDialog /\ ~manager.away
    /\ manager.dialog.kind = "duplicate" => "duplicate" \notin manager.pending
    /\ manager' = [Leaving(manager, OwnedBy(manager.dialog.kind)) EXCEPT
                      !.dialog = Beneath(manager.dialog)]
    /\ changes' = Unwaited(OwnedBy(manager.dialog.kind))
    /\ UNCHANGED <<library, list, told>>

Creating == {"create", "duplicate"}

\* A bound: a page is created or copied with no other change under way.
Start(kind, d, lock) ==
    /\ (kind \in Creating \/ \E i \in Slots : changes[i].kind \in Creating) => Free = Slots
    /\ \E i \in Free : /\ \A j \in Free : i <= j
                       /\ changes' = [changes EXCEPT ![i] =
                              [kind |-> kind, doc |-> d, lock |-> lock, state |-> "sent",
                               result |-> Nothing, current |-> TRUE]]
                       /\ manager' = IF kind \in ListKinds
                             THEN [manager EXCEPT !.pending = @ \cup {KeyOf(kind)}]
                             ELSE [manager EXCEPT !.busy = @ \cup {kind},
                                      !.windows = IF kind = "preview" THEN @ \cup {i} ELSE @]

Idle(kind) == KeyOf(kind) \notin manager.pending /\ kind \notin manager.busy

\* The button of the open dialog.
PressKey(kind) ==
    /\ ~manager.away /\ Idle(kind)
    /\ manager.dialog.kind = DialogOf(kind)
    /\ LET d == manager.dialog.doc
       IN Start(kind, d, IF kind \in {"save", "restore"} THEN Shown(d, manager.dialog.lock)
                         ELSE manager.dialog.lock)
    /\ UNCHANGED <<library, list, told>>

\* toggleHome and restoreArchived, which have no dialog.
PressRow(kind, d) ==
    /\ ~manager.away /\ Idle(kind) /\ manager.dialog = NoDialog /\ ~manager.loading /\ d \in Worked
    /\ manager.items[d].status = (IF kind = "home" THEN "active" ELSE "archived")
    /\ Start(kind, d, manager.items[d].lock)
    /\ UNCHANGED <<library, list, told>>
-----------------------------------------------------------------------------
\* What the server makes of a document, under its lock version.
Lockable(c, status) == library[c.doc].status = status /\ library[c.doc].lock = c.lock
Next1(d, status) == [lock |-> library[d].lock + 1, status |-> status]

Written(c) ==
    CASE c.kind = "create" -> [Nothing EXCEPT !.lock = 1, !.status = "active"]
      [] c.kind = "archive" -> Next1(c.doc, "archived")
      [] c.kind = "purge" -> Next1(c.doc, "gone")
      [] OTHER -> Next1(c.doc, "active")

Acceptable(c) ==
    CASE c.kind = "create" -> library[c.doc] = Nothing
      [] c.kind \in {"unarchive", "purge"} -> Lockable(c, "archived")
      [] OTHER -> Lockable(c, "active")

Missing(d) == IF list.state = "read" THEN [list EXCEPT !.missed = @ \cup {d}] ELSE list

\* The server accepts; its answer is lost or on its way. A copy is written to
\* another document, a preview writes none.
Accept(i) ==
    LET c == changes[i]
    IN /\ c.state = "sent"
       /\ \/ /\ Acceptable(c) /\ c.kind \notin {"duplicate", "preview"}
             /\ Written(c).lock <= MaxLock
             /\ library' = [library EXCEPT ![c.doc] = Written(c)]
             /\ \/ /\ changes' = [changes EXCEPT ![i].state = "done", ![i].result = Written(c)]
                   /\ UNCHANGED <<list, told>>
                \/ /\ changes' = [changes EXCEPT ![i].state = "lost"]
                   /\ list' = Missing(c.doc)
                   /\ told' = [told EXCEPT !.untold = @ \cup {c.doc}]
          \/ \E d \in Docs : /\ Acceptable(c) /\ c.kind = "duplicate" /\ library[d] = Nothing
                             /\ library' = [library EXCEPT ![d] =
                                               [lock |-> 1, status |-> "active"]]
                             /\ changes' = [changes EXCEPT ![i].state = "done", ![i].doc = d]
                             /\ UNCHANGED <<list, told>>
          \/ /\ c.kind = "preview" /\ Acceptable(c)
             /\ changes' = [changes EXCEPT ![i].state = "done"]
             /\ UNCHANGED <<library, list, told>>
       /\ UNCHANGED manager

\* replaceResource
Replaced(m, d, r) ==
    LET latest == RetainConfirmed(m, d, r)
        item(e) == IF e = d /\ m.items[e] # Nothing THEN latest ELSE m.items[e]
    IN [m EXCEPT !.confirmed[d] = latest,
                 !.items = [e \in Docs |-> IF BelongsTo(item(e), m.filter)
                                           THEN item(e) ELSE Nothing]]

\* The dialog closes with its request, where it is still waited for.
Answered(m, c) ==
    IF ~c.current THEN m
    ELSE [m EXCEPT !.busy = @ \ {c.kind},
                   !.dialog = IF c.kind \in {"save", "archive", "purge"} THEN NoDialog
                              ELSE IF c.kind = "restore"
                              THEN [Beneath(@) EXCEPT !.lock = c.result.lock] ELSE @]

Ended(i) == [changes EXCEPT ![i] = NoChange]

\* Mutated: the answer of a dialog that was closed is dropped.
TakeSavedCurrent(i) ==
    LET c == changes[i]
    IN /\ manager' = IF c.current
                     THEN Answered(Replaced(manager, c.doc, c.result), c) ELSE manager
       /\ told' = SeenWith(c.doc, c.result)
       /\ list' = list

\* Metadata and restoring belong to the list also when the dialog was closed.
TakeSaved(i) ==
    LET c == changes[i]
    IN /\ manager' = Answered(Replaced(manager, c.doc, c.result), c)
       /\ told' = SeenWith(c.doc, c.result)
       /\ list' = list

\* A copy or a new page opens in the editor if its dialog is still open.
TakeCreated(i) ==
    /\ IF changes[i].current
       THEN manager' = [manager EXCEPT !.away = TRUE] /\ list' = list
       ELSE Reload(manager, changes[i].kind)
    /\ told' = told

TakeListed(i) ==
    LET c == changes[i]
    IN /\ Reload(Answered(IF c.kind = "purge" THEN manager
                          ELSE Replaced(manager, c.doc, c.result), c), KeyOf(c.kind))
       /\ told' = IF c.kind = "purge" THEN told ELSE SeenWith(c.doc, c.result)

\* The window goes to the preview; a window whose dialog is gone was closed.
TakePreview(i) ==
    /\ manager' = [manager EXCEPT !.windows = @ \ {i},
                      !.busy = IF changes[i].current THEN @ \ {"preview"} ELSE @]
    /\ UNCHANGED <<told, list>>

\* Mutated: the key is freed only for the dialog that still waits.
RefusedCurrent(m, c) ==
    IF c.current THEN [Finished(m, KeyOf(c.kind)) EXCEPT !.busy = @ \ {c.kind}] ELSE m

Refused(m, c) == [Finished(m, KeyOf(c.kind)) EXCEPT
                     !.busy = IF c.current THEN @ \ {c.kind} ELSE @]

Take(i) ==
    LET c == changes[i]
    IN /\ ~manager.away
       /\ \/ /\ c.state \in {"sent", "lost"}
             /\ manager' = [Refused(manager, c) EXCEPT !.windows = @ \ {i}]
             /\ UNCHANGED <<list, told>>
          \/ c.state = "done" /\ c.kind = "preview" /\ TakePreview(i)
          \/ c.state = "done" /\ c.kind \in Creating /\ TakeCreated(i)
          \/ c.state = "done" /\ c.kind \in {"home", "archive", "unarchive", "purge"} /\ TakeListed(i)
          \/ c.state = "done" /\ c.kind \in DialogKinds \ {"preview"} /\ TakeSaved(i)
       /\ changes' = Ended(i)
       /\ UNCHANGED library

\* Another administrator, or the editor in another tab, changes a document.
OtherChanges(d) ==
    /\ d \in Worked /\ library[d].status \in Filters /\ library[d].lock < MaxLock
    /\ \E status \in Filters \cup {"gone"} : library' = [library EXCEPT ![d] = Next1(d, status)]
    /\ list' = Missing(d)
    /\ told' = [told EXCEPT !.untold = @ \cup {d}]
    /\ UNCHANGED <<manager, changes>>

ManagerNext ==
    \/ \E filter \in Filters : SwitchFilter(filter)
    \/ ReadList \/ TakeList \/ ListFails
    \/ \E key \in Keys : TakeSuperseded(key)
    \/ \E kind \in Dialogs, d \in Docs : OpenDialog(kind, d)
    \/ CloseDialog
    \/ \E kind \in (ListKinds \ {"home", "unarchive"}) \cup DialogKinds : PressKey(kind)
    \/ \E kind \in {"home", "unarchive"}, d \in Docs : PressRow(kind, d)
    \/ \E i \in Slots : Accept(i) \/ Take(i)
    \/ \E d \in Docs : OtherChanges(d)

\* Requests are answered or fail, and the browser runs the handlers.
ManagerFairness ==
    /\ WF_managerVars(TakeList \/ ListFails)
    /\ \A key \in Keys : WF_managerVars(TakeSuperseded(key))
    /\ \A i \in Slots : WF_managerVars(Take(i))

ManagerSpec == ManagerInit /\ [][ManagerNext]_managerVars /\ ManagerFairness
-----------------------------------------------------------------------------
\* No document is shown in a version older than one the page was answered.
ShowsNoOlderVersion ==
    \A d \in Docs : manager.items[d] # Nothing => manager.items[d].lock >= told.seen[d]

\* With no request under way, after a list that could be loaded, the page shows
\* the server's documents of its filter, but for changes it was not told of.
QuietListIsTrue ==
    (~manager.away /\ ~manager.failed /\ list = NoList /\ Free = Slots) =>
        \A d \in Docs \ told.untold :
            manager.items[d] = IF BelongsTo(library[d], manager.filter)
                               THEN library[d] ELSE Nothing

\* A window waits for its preview only while its dialog does.
NoWindowIsLeftBlank ==
    \A i \in manager.windows : changes[i].kind = "preview" /\ changes[i].current

\* The buttons come back: a key is freed unless the page is left.
KeysAreFreed ==
    \A key \in Keys : []<>(key \notin manager.pending \/ manager.away)
=============================================================================
