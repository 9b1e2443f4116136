# Verification of G7 Page Builder

TLA+ modules of the page builder in `src/`, the TLC runs that check them on
small instances, and TLAPS proofs of what matters most for every instance.
`PROJECT.json` lists the components, runs, mutants, hazards and theorems, and maps
definitions to the lines of source they stand for (a helper that only abbreviates
a part of a mapped definition has no row of its own). Paths below are relative to
the repository root; `editor/`, `public/`, `manager/`, `editor-application/` and
`documents/` are below `resources/js/`.

## The system

G7 Page Builder is a module of the Gnuboard 7 CMS: PHP on Laravel with a MySQL or
SQLite database (`src/`), TypeScript for the editors, the manager and the public
pages (`resources/js/`) and tools for its own development (`tools/g7pb/`,
`scripts/`). Administrators edit pages as trees of blocks, or of elements, and
publish them; visitors get the HTML that was compiled when a page was published,
never a draft, and scripts that fill in lists, forms and the account.

| Component | State | Operations | What is hard | Module |
| --- | --- | --- | --- | --- |
| Pages and publication (`PageBuilderService.php`, `EloquentPageBuilderRepository.php`) | documents, revisions, publications | create, duplicate, save, metadata, restore, prepare, commit, unpublish, archive, purge, home | lock versions against stale screens, compilation outside the transaction, a test on rows that are not locked, one page seen through three tables | `PagePublication`, abstractly `PublishedSite` |
| Public delivery (`ViewerController`, `PublicPageController`, `PageBuilderHomeOverride`) | none | page by slug, page of the root | two statements with transactions in between | `PublicDelivery` |
| Header and Footer sets (`SitePartService`, `EloquentSitePartRepository`, `EloquentSitePartArtifactStore`) | sets, parts, revisions, compiled artifacts | create, save, publish, activate, upgrade | two parts that must agree, compilers that change under artifacts | `SitePartSets` |
| Page editor session (`editor/main.tsx`, `draftPersistence.ts`, `draftJournal.ts`) | document, lock version, save in flight, timers, journal | load, edit, save, publish, reload, leave | late and lost answers, two tabs with one journal | `DraftEditor` |
| Structure editor (`editor-application/v3`, `editor/v3`) | epoch, save, preview, prepared publication, recovery | edit, save, preview, prepare, commit, restore, reload | answers to a session that went on | `StructureEditor` |
| Puck bridge (`editor/v3/PuckBridge.tsx`) | two histories | Puck's callbacks, repair, undo | order of the callbacks | `PuckBridge` |
| Puck's document boundary (`editor/PuckDocumentBoundary.tsx`) | Puck's data and history, recovery | accept, refuse, take back | a refused change is in the history already | `PuckBoundary` |
| Media panels (`editor-application/v3/media.ts`) | lists, uploads | open, choose, upload, cancel | late answers | `MediaRequests` |
| Editors of Header and Footer (`SitePartWorkspace`, `SitePartSetEditor`, `SitePartEditor`) | parts, autosave, publication | edit, save, publish, switch | a set replaced under requests | `SitePartEditors` |
| Pair of element parts (`SitePartPairEditor`) | two sessions | save, restore, publish both | two lock versions, overlapping requests | `StructurePartPair` |
| Gestures on the canvas (`GeometryAdapter.tsx`, `gesture.ts`) | a provisional command | drag, resize, cancel | React renders later | `CanvasGesture` |
| Layout of a page of blocks (`puckEditorSelection.ts`, `layoutPolicy.ts`) | a tree of blocks | insert, move, resize, delete, confirm | checks written twice | `CanvasPlacement` |
| Element trees (`documents/v3`) | a tree of elements | move, group, copy, paste, lock | overlapping selections, references of copies | `ElementTree` |
| Public data, forms, shell, menus, widgets (`public/`) | runtimes beside a page the host renders anew | load, type, send, refresh, open, mount | mutation records, late answers, other tabs | `PublicData`, `InquiryForms`, `SiteShell`, `ShellPanels`, `PageWidgets` |
| Manager of pages (`manager/useManagerDocuments.ts`) | lists, dialogs, requests | filter, change, confirm | answers that overtake each other | `ManagerDocuments` |
| Manager of packs and store, site kits (`manager/`, `SiteKitService.php`) | lists, checks, a stored request | check, install, remove, retry | late lists, lost answers | `PackManager`, `SiteKits` |
| Context of the canvas (`useCanvasEditingUi.ts`, `CanvasPickerSession.tsx`) | selection inside a block, tools | select, pick, style | items move under selections | `CanvasContext` |
| Codecs (`puckBlockCodec.ts`, `sitePartDocumentAdapter.ts`) | what was loaded last | open, edit, store | fields a document never had | `BlockCodec`, `PartCodec` |
| Inline menu and its layers (`richTextInlineMenu.tsx`, `richTextFloatingLayer.tsx`) | armed choices, timers, frames | press, release, click, place | one press is several events | `RichTextMenu`, `FloatingLayer` |
| Picker of routes, library of blocks, bars | effects, a window, a translation | ask, choose, insert, place | effects that feed each other, targets that go | `RoutePicker`, `BlockGallery`, `ActionBar` |

Not modelled, with the reason for each in `PROJECT.json`: preview tokens, site shell
settings, page routes and the route cache, the server's side of block packs, store and
media, patterns and compositions, form submissions, the compilers and the layout
decorator (pure), contracts and normalisation of stored documents (tables and pure
functions), the API client, migrations, the development harness, containers and data.

The components meet in few places. Every writer of a page or a part goes through its
row lock and its lock version; the public reader goes through the active publication;
a page with a builder shell joins the compiled parts of the active set; and a browser
session carries the lock version from one answer to the next request. So an editor's
module has of the server what a save can see of it, a lock version and a draft, and
the server's modules have of a browser what it loaded last.

## Modules

Code that runs without giving up the thread is one action: a transaction under a row
lock, or JavaScript between two awaits. A request that fails a test changes nothing and
is not a step, unless its caller reacts to the refusal.

### PagePublication, PublishedSite, PublicDelivery

`document`, `revisions` and `publication` are the three tables. `tab` is what an
administrator's browser loaded last; `request` is the request in flight. Two
operations are split:

* `preparePublication` reads and compiles with no lock held
  (`PageBuilderService.php:305-320`), then `storePublicationCandidate` compares and
  inserts.
* `commitPublication` locks its candidate and its document, but tests the public slug
  against rows of other documents, which it does not lock. Its tests
  (`commitPublication`) and its writes (`CommitWrites`) are two actions, with the other
  administrators' transactions, those on its document excepted, in between.

A request that dies between two steps is `Abandon`: the transaction rolls back, which is
also how the database resolves a deadlock. Identities are random, so a purged document
or a deleted publication never comes back. `RevisionRow.base` is not a column: it
records the revision the writer saw. Titles, locale, shell mode, SEO and authors are
left out: they are written and published together with the slug.

`PublishedSite` is the abstract specification: what a visitor can tell, with no drafts,
locks or tokens; `PublicPage` and `Homes` are the refinement mapping. `PublicDelivery`
adds a visitor, with one action for each SELECT; `visit.shown` collects what the target
showed meanwhile.

### SitePartSets

The sets of one locale, with the compiled artifacts and the compiler that is deployed.
A publication is read in one or two steps and written in one; `missingPublications` and
`prepareHistorical` are the two halves of the upgrade. `createSet` is split at the plain
SELECT that decides whether the set is active. A revision number stands for its content.

### DraftEditor

The editor of a page in several tabs, with the journal of each browser. A document is
the set of the edits made to it, so a lost edit is a missing element; undo is left out.
`tab[t]` has the refs of `main.tsx` and the save in flight: `sent` is its snapshot,
`edited` the opposite of `isCurrent()`, `owner` the caller that started it, `waiting`
those that await it. A request that was given up stays in `network` and may still
arrive, also when its tab is gone. `LateReloads` says whether the answer to
`reloadServerDraft` may come while a save is in flight. The code allows it, and the run
late_reload shows what follows; two_tabs and some theorems assume it away, openly.

A restored journal is shown as unsaved but starts no timer (`applyResource`), and a save
that ends in one tab clears the journal of the other tab of its browser.

### The editor's screens (MCEditorScreens)

`DraftEditor`, `StructureEditor`, `PuckBridge`, `MediaRequests`, `SitePartEditors`,
`StructurePartPair` and `CanvasGesture` share no state: in a behaviour of
`MCEditorScreens` one of them runs, chosen at first, and the others wait. Each sends
its requests to its server and gets answers that are late, lost or refused, while other
administrators write the same page. Puck and React are external: what they call and
when they render is nondeterministic within what their contract allows.

### Documents (MCDocuments)

`ElementTree` and `CanvasPlacement` are about commands on documents. A behaviour of
`MCDocuments` works with the pages of `PagePublication`, with a tree of elements or with
a layout of blocks. `CanvasPlacement` has both the checks before a command and the
policy the document is validated against, written as independently as in the code.

### Public pages, the manager, Puck's boundary (MCPublicScreens)

`PublicData`, `InquiryForms`, `SiteShell`, `ShellPanels` and `PageWidgets` are the
runtimes of a public page. The host renders any part of it again at any time; the DOM
records of that wait until the mutation observer runs, and an answer that comes first
takes them itself. A form is known to the runtime by its whole markup as it is found when
it is mounted. Mounting writes the time into a hidden input and sending writes a message,
so a form that the host has moved, which is mounted a second time, is no longer like any
rendering (`Altered`): if the host then replaces it by the same compiled form, what was
typed is gone. The comment at `inquiryContinuity.ts:14` says the identity is captured
before the runtime changes anything, which is so of the first mount only.
`TypedTextIsKept` therefore promises the text to a visitor wherever the host moves his
form, and in every rendering that replaces a form which is not being sent and has not been
moved. `ManagerDocuments` is the list of pages with its dialogs.
`PuckBoundary` takes back what Puck made and the document refuses; Puck's history is
modelled with the correction the build gives it (`vite.puck-history.ts`).

### The workbench (MCWorkbench)

What the editors and the manager work with beside their sessions, each tool in any order
of its steps, with what each abstracts:

* `CanvasContext`: a render after a change is atomic with it; items are told apart by
  their place, as in the code; styles given to an item that is gone are excluded.
* `BlockCodec`: of a field one tells the fallback from what was chosen; the position of
  the media only for split heroes.
* `PartCodec`: names, menus and texts are left out; overrides are compared in the order
  of their JSON, of which `Settings(given, turned)` keeps what is given and which
  devices, or both of them, come in another order than in a document.
* `PackManager`, `SiteKits`: the server does one request at a time; a kit's files and
  the export of kits are left out; addresses are not given back.
* `RichTextMenu`: the selected range has one look; weights and colours are left out.
  `FloatingLayer`: anchors and free parts are few, and only changes that an observer,
  a scroll or a resize tells.
* `RoutePicker`: effects run before the next input; paths and searches are left out.
* `BlockGallery`: a section has one slot; presets are left out, the filters are one.
* `ActionBar`: a few scenes on a grid on which device pixels do not round; what a bar
  covers is counted in pixels (`Covered`).

## Runs

Deadlock is checked only where the system never stops: bounds stop the models, and
people may stop working.

| Run | Shows |
| --- | --- |
| documents | Two administrators save, rename, restore, publish and purge: no write is lost, histories are complete and stay, the inductive invariant of the proofs holds, public slugs are distinct, what is published was saved. And commands on trees and layouts change what they were given for and nothing else, and leave a document that can be saved. |
| delivery | A visitor gets only what is public and is turned away only after a change; pointers agree with statuses, the home can be served, every change moves its lock version, the tables implement `PublishedSite`. |
| served_shell | Artifacts exist and never change, what is published and saved was seen, a served shell stays through releases and activations, element sets are published whole. |
| two_tabs | No save takes an edit off the draft, a tab without unsaved changes has none, what is published is on the screen. |
| editor_screens | Each screen of the editor on its server: what is shown as saved is saved, what is published was confirmed, nobody's work is overwritten, late answers change nothing else, and no screen stays busy. |
| public_screens | Nothing stale is shown, nothing that a visitor typed is taken, an answer works on what it was asked for, everything is freed. |
| workbench | What is shown as selected or offered is there, storing and opening again changes nothing, a step works on what it was meant for. |

The properties of the composites are conjunctions of their modules' properties, named in
the MC modules.

Bounds. Two administrators are enough for every race the server has between two
requests, and two documents for every test that compares a document with the others.
documents has, by `LongOrWide`, one document with lock versions to 4 and contents of
both generations, or two with versions to 2; a version of 2 lets a candidate become
stale, of 3 lets a home or an archived page be changed again, of 4 lets an administrator
act on two stale screens. Trees have 6 elements and 2 commands, layouts 6 items and 2
edits, from two documents each that have what the commands tell apart (`SomeTrees`,
`SomeLayouts`). delivery has 2 documents, 2 publications and versions to 3.
served_shell has, by its own `LongOrWide`, an element set with versions to 4, a set of
blocks that outlives a release, or two sets with versions to 2. two_tabs has 2 tabs of
one browser, 2 edits (one that a save carries and one that comes while it is in flight)
and 3 lock versions, so that a tab or a journal can be one and two versions behind.

In the browser the bounds count what people and the host do, never what the code does in
answer: changes of a session (`MaxEpoch`, `MaxEdits`, `MaxShellEdits`, `MaxPartEdits`,
`MaxRevision`), versions other administrators write (`MaxVersion`, `MaxShellVersion`,
`MaxPartLock`, `MaxLock`), tickets and sequence numbers (`MaxTickets`, `MaxRequests`),
Puck's entries (`MaxHistory`, `MaxInputs`); what the host does to a page (`MaxDomEdits`,
`MaxForms`, `MaxPageEvents`, `MaxWidgetEdits`) and what that starts (`MaxJobs`,
`MaxLoads`); presses and sessions (`MaxPresses`, `MaxSignIns`, `MaxRefreshes`,
`MaxPanelLoads`, `MaxLogouts`, `MaxChanges`); touches, strokes and moves at the workbench
(`MaxTouches`, `MaxStrokes`, `MaxPartStrokes`, `MaxKept`, `MaxPackWork`, `MaxPackLists`,
`MaxOthers`, `MaxPosts`, `MaxHands`, `MaxSelections`, `MaxMoves`, `MaxRouteWork`,
`MaxInsertions`, `MaxGalleryWork`, `MaxShifts`). Each is at least two where the hazard
is one thing overtaking another of its kind, and one where it is the single event that
comes between others (another tab's session, `MaxSessions` and `MaxSignIns`; a press of
the logout link, `MaxLogouts`; a change of another administrator, `MaxChanges`). In the
shell a visitor asks for two lists, or for one and all marked as read, or presses the
logout link (`ListOrLogout`, a bound on what the visitor does, never on an answer). The
invariants of the proofs were checked with larger bounds too (public data with 3 changes
of the page, 5 requests and 2 sessions).

Five runs end in a counterexample on purpose:

* **delivery_during_commit**: a page that is public all the time answers 404 to a
  visitor whose two statements a commit of the same page separates
  (`EloquentPageBuilderRepository.php:510`).
* **two_first_sets**: two administrators who create the first set of a locale at the
  same time both get an active set (`EloquentSitePartRepository.php:49`); the public
  shell then refuses to choose.
* **lost_journal**: a change made while a save is in flight is journaled under the lock
  version that the save replaces (`main.tsx:155`). If the tab ends before the answer and
  the server accepts the save, the journal never comes back.
* **late_reload**: a hidden tab starts a save while it reloads the server's version
  (`main.tsx:357`), and takes the lock version of the answer for the reloaded document
  (`main.tsx:273`); the next change then overwrites the draft without a conflict.
* **set_published_late**: a set is edited while its publication is in flight; the answer
  marks the canvas as unchanged, and the next save sends the document without the edit
  (`SitePartSetEditor.tsx:183`).

## Fairness

The server's modules assume none: every operation is a request a person makes. In the
browser everything that the platform does is weakly fair, and nothing that people do:
timers fire (`AutoSave`, `AutosaveShell`), mutation and intersection observers deliver
(`ObserversRun`, `FormObserversRun`, `ObserversBoot`), React renders and runs its effects
(`OnChange`, `RenderSurface`, `SurfaceEffect`, `BoundaryRenders`), microtasks run
(`Repair`, `RestoreAccepted`), a script loads or fails, and a request is answered or
fails (`Answers`, `DataAnswers`, `ShellAnswers`, `TakeList`, ...). The last is the network
stack's and the proxies' doing, as the client sets no time limit of its own. Each
condition is on one kind of step of one screen, so that no screen is helped by another.

## Proofs

The proofs take a bound as a parameter: they hold for every value of it, and for any
sets of documents, administrators, visitors, tabs, members and so on that satisfy the
named assumption of the module (`ConstantsAssumption`, `SetsAssumption`,
`DraftEditorAssumption`, `PublicDataAssumption`, `InquiryFormsAssumption`,
`SiteShellAssumption`, `ShellPanelsAssumption`, `PageWidgetsAssumption`,
`ManagerAssumption`, `PuckBoundaryAssumption`, `StructureEditorAssumption`,
`PuckBridgeAssumption`, `MediaAssumption`, `SitePartEditorsAssumption`,
`StructurePartPairAssumption`, `CanvasGestureAssumption`, `CanvasContextAssumption`,
`RichTextAssumption`, `FloatingAssumption`, `BlockGalleryAssumption`,
`RoutePickerAssumption`, `BlockCodecAssumption`, `PartCodecAssumption`,
`PackAssumption`, `SiteKitAssumption`): NULL values are none of the
values, bounds are numbers, a first value is one of its set. Fairness is not used.

**Pages** (`PagePublicationProofs`).
`TypesAreCorrect`; `SiteInvariant` is inductive, and gives
`PublicSlugsAreDistinct`, `PointersMatchStatuses`, `HomesAreServable`;
`PublicationImplementsSite` is the refinement, step by step. `ActiveSlugsDistinct` alone
is not inductive, since a commit decides in one step and writes in another.
`CommitsStayValid` says that its tests still hold when it writes: its document cannot
move, because of the row lock, and no other document can publish the slug meanwhile,
because a candidate whose lock version is still that of its document carries the draft
slug of its document (`CandidatesAreConsistent`) and draft slugs of stored documents are
distinct. So it is the unique index on draft slugs, with the lock version, that keeps
public slugs apart.

**Histories** (`PagePublicationProofs`). `Recorded` is the conjunction of the history
properties with what carries them over a step: a screen is never ahead of the row it
loaded and, level with it, has seen the current revision (`TabsAreSound`); and what a
request compiled is a stored revision (`RequestsAreSound`). The first is what
`NoWriteLost` needs: what a write compares is the lock version, what it builds on is the
revision. From it `NoWriteIsLost`, `HistoriesStaySound` and
`PublicationsAreSavedRevisions`; `WhatIsWrittenStays` and `ChangesMoveTheLock` are the
action properties, action by action.

**Delivery** (`PublicDeliveryProofs`). The pages' invariants hold beside visitors, with the
refinement (`VisitorsChangeNothing`). `VisitIsSound` says that the publication a request
has read was shown by its target: with `PointerMatchesStatus` it is what makes the second
statement, which compares with no lock, serve only public pages
(`VisitorsGetPublicPages`) and miss a page only after a change (`NobodyIsTurnedAway`).

**Sets** (`SitePartSetsProofs`). `SetsInvariant` adds to the types and to `ArtifactsAreSound`
that the numbers of a row agree (`RowsAreSound`) and that a lock version which a screen
or a request holds is not ahead of its row, and names the current revision as long as the
row is at it (`Holds`). So the comparison in the transaction is enough for
`WhatIsWrittenWasSeen`, although reading and compiling take no lock.

**The page editor** (`DraftEditorProofs`). `EditorsAreSound` says of everybody who holds a
lock version that it is not ahead of the server's and that, at the server's version, he
has every edit of the server's draft (`Names`): the screen, a load on its way, the
snapshot of a save, a journal, and a request nobody waits for. Its steps need that no
save crosses a reload (`~LateReloads`): the code lets one, the run late_reload shows the
consequence, and the theorems say what holds but for that. Types need no such hypothesis.

**Public pages, manager and boundary** (`PublicScreensProofs`). Seven invariants, each kept
by the steps of its own module, and together by a step of the browser
(`ScreensStepApart`):

* `DataInv`: a request is of the state that started it, nothing is shown before its
  answer, and a state is of the block as it is unless records of a change wait. It is
  said of every pass of the helpers, not only of states, as a handler runs several.
* `InquiryInv`: where a typed text is meanwhile: in the mounted form, in one that was
  replaced but is mounted still, in the draft that the next boot takes, or in a form that
  was moved; and that a form which is not mounted yet is as it was compiled, so that a
  draft of an unmoved form fits it (`Restorable`). `TypedTextIsKept` alone says nothing
  of where the text is while records wait.
* `ShellInv`: a refresh has one request on its way, of the token that was announced, and
  the panel's current request is of the transitions that are current.
* `PanelsAreSound`: what is locked is locked by an open modal menu, a menu and a panel are
  not open at once, and an open menu is remembered as it is. Every helper of a chain
  keeps it.
* `WidgetsInv`: a number on its way is counted by frames, of a mount that moves things;
  what is mounted has the settings of the markup unless the article is due.
* `ManagerInv`: what the lists, the answers and a list that was read hold are versions of
  the server's documents, so that of two with one lock version both are the same; what is
  shown is the newest that was told of; and if the server has a newer one, then an answer
  or a list on its way brings it. `ShowsNoOlderVersion` and `QuietListIsTrue` are what is
  left of that when nothing is on its way.
* `BoundaryInv`: Puck's history is the wanted one, or a recovery waits that has the wanted
  one and will put it back.

From them `ScreenTypesAreCorrect`, `NothingStaleIsShown`, `NothingIsEverTaken` and
`AnswersStayAimed`, which are all safety properties of the run public_screens.

**The editor's screens** (`EditorScreensProofs`). Six invariants beside the types of
`DraftEditor`, put together in the same way as `EditorInv`:

* `StructureInv`: versions tie the page to the server: who holds the newest version knows
  its draft (`KnownVersion`) and the draft was loaded or written here, whatever came
  between; a request, a link or a ticket is tied to the epoch it began in
  (`ButtonsStand`, `DialogStands`). So a dialog that is open at its epoch can only publish
  what is on the screen, and a save at the newest version replaces nobody's work.
* `BridgeInv`: the bridge follows Puck, and they differ by at most one accepted change,
  or it recovers, and holds the history that leads back to the document.
* `MediaInv`: a call is dated by the counter of its panel and the epoch of the document;
  a wish that was overtaken is older than one of them, so `StillMeant` refuses it.
* `PartEditorsInv`: the editor, and each of its requests, names a version of its set and
  the content that it had (`NamesDraft`), and has changed since exactly if it was edited;
  a request of an editor that was left knows of the server alone.
* `PairInv`: each part knows a version of its row, the next save sends it, and two
  requests are on their way together only when they save different parts.
* `GestureInv`: React writes only what changed since its last render, so a declaration on
  the screen is the rendered one or the one that a restoring took from the document
  (`ShowsRenderedOrNow`); a gesture restores the very nodes that it painted.

They give `EditorScreenTypesAreCorrect`, `SavedWorkIsAlwaysStored`, `OffersAreAlwaysTrue`
and `CanvasIsAlwaysTheDocument`, and, for the steps from such states,
`ConfirmedIsPublished`, `NobodysWorkIsReplaced` and `ChangesStayAimed`: all safety
properties of the run editor_screens, each invariant checked by TLC beforehand.

**The workbench** (`CanvasToolsProofs`, `WorkbenchProofs`). A behaviour works with one
tool, so `WorkbenchInv` is the invariant of that one, and a step of the workbench is a
step of it (`ToolsStepApart`). The first module has the tools of the canvas:

* `CanvasInv`: no dialog has written where it was not opened (`NoneWrote`), the style of
  an item is where the item is in each document of the history (`PageFits`), and a
  selection names nothing that is gone unless the frame has yet to tell (`Stands`).
  `SelectsWhatIsThere` alone says nothing of what a message on its way will select.
* `TextInv`: what is armed was pressed, in a menu that is still open, and a menu that
  closes has nothing armed (`MenusStand`); a pointer that has made its choice is armed
  nowhere (`HandsStand`), so its click makes none. That flags and size bits are read back
  as they were written is a lemma on binary digits (`MarkSurvives`).
* `LayerInv`: the frames that are counted are the last placements, all equal to the one
  that is pending (`FramesCount`), and a layer shows what it measured last
  (`LayerStands`), so one that shows has been still.
* `GalleryInv`: what is chosen was chosen in this dialog, and in every page of Puck's
  history the selection is one of its places, so an insertion does not slip.
* `BarInv`: unless a placing is due, the bar stands where its scene puts it: within the
  safe area, off the anchor, or docked where it covers least. `ActionBarAssumption` says
  that a scene lies on whole pixels, a bound of the model, and that its parts are finite.

The second has the codecs, lists and requests:

* `CodecInv` and `PartInv`: what the editor holds, what was stored and what is remembered
  of how it was stored fit each other field by field, so that what was not touched is
  stored as it was, for each type of block and each step of the history.
* `PickerInv`: what loads or waits has a call on its way, a target that is missing has an
  effect due, and a value that was entered was given for the route that is selected.
* `KitInv`: a post is of a request that is known, that is stored, or that can create
  nothing any more (`PostsStand`), and at most one is heard, of the stored request
  (`HeardStand`). So a site that was installed is known of or can be asked for again.
* `PackInv`: each work, list and catalog on its way is one of its number and is dated; a
  list that is the newest asked for is not older than the one shown (`ListsStand`), and
  the one shown not older than what a work has listed (`WorksStand`).

They give `WorkbenchTypesAreCorrect`, `WhatIsShownIsAlwaysThere`, `NothingIsEverLost` and,
for the steps, `WorkStaysAimed`: all properties of the run workbench.

**Only model-checked**: the commands of documents (`CommandsAreAimed`); every liveness
property (`ScreensSettle` twice), since fairness and ENABLED are beyond the prover; and
what a recursive definition computes for every input, such as the trees of `ElementTree`.
The counterexamples are TLC's.

## Defects seen without a run of their own

* `useSiteKitInstallation.ts:67-69` says "A definitive rejection created no new draft".
  If the installation was committed, its answer lost, and a release raises the kit's
  version before the retry, `SiteKitService` compares the version before it looks for the
  request's row and answers 409; the request is forgotten although its drafts exist, while
  `docs/site-kit-contract.md` says that the same request returns the first receipt.
  `NoSiteIsForgotten` excepts a release in between.
* `puckBlockCodec.ts:545-547` deletes the page count of a block that was stored without
  one, so setting it in the inspector is never stored (`docs/mvp-functional-spec.md:60`
  wants it). `NothingIsLost` excepts it.
* Smaller ones: an installation from GitHub sends no version; a late upload closes the
  dialog that is open now; the flag `busy` is shared by the section patterns' requests; a
  click of an assistive tool after an aborted press is swallowed by the inline menu; a
  value typed while the targets of a route load stays though the list then shows none
  chosen, and a catalog of routes that failed is not asked for again; late answers of
  `usePageBuilderResources` overwrite a newer favourite; the library of blocks can be
  opened by an event while the editor is disabled.
* Kept out of the properties: a refresh of the shell whose user call fails leaves the
  member of before on the page (`siteShellRuntime.ts:278`); a list that fails after the
  filter was switched leaves the other filter's pages under the failure
  (`useManagerDocuments.ts:56`); a save that is answered while a restoring makes the
  session readonly counts as stale (`session.ts:76`) and the next ends in a conflict.

## Plan

1. Theorems about the layouts of `CanvasPlacement`: a layout stays a forest in which each
   item has one place, and nothing but a deletion takes an item off the page.
2. The server's side of packs, store and media; page routes and the route cache; site
   shell settings; preview tokens; the lock orders of pages and sets.
