------------------------------ MODULE PackManager ------------------------------
(***************************************************************************)
(* The manager's library of block packs (useManagerBlockPacks) and its     *)
(* store (useManagerStore), beside each other on one page: lists, checks   *)
(* and installations are requests whose answers come late, get lost or     *)
(* overtake each other, while the dialogs are closed and opened, the       *)
(* repository that is asked for is typed anew, and another administrator   *)
(* installs and removes. A pack is asked for by its repository; the        *)
(* server does one request at a time.                                      *)
(***************************************************************************)
EXTENDS Integers, FiniteSets

CONSTANTS
    Packs,          \* what a repository or the store offers
    Products,       \* the packs the store sells, at version 1
    NoPack,         \* fields that are not filled in
    MaxReleases,    \* versions that are released
    MaxPackWork,    \* operations begun, and changes of what is checked
    MaxOthers,      \* changes after which the others rest
    MaxPackLists    \* lists and catalogs that are asked for

ASSUME PackAssumption ==
    /\ NoPack \notin Packs
    /\ Products \subseteq Packs
    /\ {MaxReleases, MaxPackWork, MaxOthers, MaxPackLists} \subseteq Nat \ {0}

VARIABLES
    packsHere,      \* the server's installations: the state of each version of each pack
    packsFromGit,   \* the versions that came from GitHub
    packsInUse,     \* the versions that documents use
    packsReleased,  \* the newest version in each repository
    packsRevision,  \* counts the changes of the installations
    packDialog,     \* the library: what it shows, and the numbers of its last requests
    packWork,       \* operations of the library that wait for the server
    packLists,      \* lists that were asked for, [no, by, seen]
    storeDialog,    \* the store: what it shows, and the numbers of its last requests
    storeWork,      \* the operation of the store that waits for the server
    storeCatalogs   \* catalogs that were asked for, [no, by]

serverOfPacks == <<packsHere, packsFromGit, packsInUse, packsReleased, packsRevision>>
packManagerVars == <<serverOfPacks, packDialog, packWork, packLists, storeDialog, storeWork, storeCatalogs>>

Versions == 1..MaxReleases
Nobody == "nobody"
NoCheck == [pack |-> NoPack, version |-> 0, update |-> FALSE]
NoWork == [stage |-> "none"]
Snapshot == [rev |-> packsRevision, here |-> packsHere, used |-> packsInUse]
-----------------------------------------------------------------------------
(* The server *)

\* enable: the version that was enabled before is disabled.
Enabled(p, v) ==
    [packsHere EXCEPT ![p] = [w \in Versions |-> IF w = v THEN "enabled"
                                                 ELSE IF @[w] = "enabled" THEN "disabled" ELSE @[w]]]

\* A pack is stored and enabled; the source of the version is the last one it came from.
Installs(p, v, git) ==
    /\ packsHere' = Enabled(p, v)
    /\ packsFromGit' = IF git THEN packsFromGit \cup {<<p, v>>} ELSE packsFromGit \ {<<p, v>>}
    /\ packsRevision' = packsRevision + 1
    /\ UNCHANGED <<packsInUse, packsReleased>>

Removable(p, v) == packsHere[p][v] = "disabled" /\ <<p, v>> \notin packsInUse

SetsState(p, v, state) ==
    /\ packsHere' = IF state = "enabled" THEN Enabled(p, v) ELSE [packsHere EXCEPT ![p] = [@ EXCEPT ![v] = state]]
    /\ packsFromGit' = IF state = "absent" THEN packsFromGit \ {<<p, v>>} ELSE packsFromGit
    /\ packsRevision' = packsRevision + 1
    /\ UNCHANGED <<packsInUse, packsReleased>>

\* What a check of the repository answers: only what came from it counts as installed.
Checked(p) ==
    [pack |-> p, version |-> packsReleased[p],
     update |-> \A v \in Versions : <<p, v>> \in packsFromGit => v < packsReleased[p]]

\* What one operation does to the installations. The answer of one that is done may be
\* lost, and one may be refused.
Does(w) ==
    CASE w.key = "github" -> Installs(w.pack, packsReleased[w.pack], TRUE)
      [] w.key = "zip"    -> Installs(w.pack, 1, FALSE)
      [] w.key = "state"  -> /\ packsHere[w.pack][w.version] # "absent"
                             /\ w.to = "disabled" => packsHere[w.pack][w.version] = "enabled"
                             /\ SetsState(w.pack, w.version, w.to)
      [] w.key = "remove" -> /\ Removable(w.pack, w.version)
                             /\ SetsState(w.pack, w.version, "absent")
      [] OTHER            -> UNCHANGED serverOfPacks

\* Others release a version, use an enabled one in a page, install and remove.
OthersAct ==
    /\ packsRevision <= MaxOthers
    /\ \/ \E p \in Packs :
            /\ packsReleased[p] < MaxReleases
            /\ packsReleased' = [packsReleased EXCEPT ![p] = @ + 1]
            /\ packsRevision' = packsRevision + 1
            /\ UNCHANGED <<packsHere, packsFromGit, packsInUse>>
       \/ \E p \in Packs, v \in Versions :
            /\ packsHere[p][v] = "enabled" /\ <<p, v>> \notin packsInUse
            /\ packsInUse' = packsInUse \cup {<<p, v>>}
            /\ packsRevision' = packsRevision + 1
            /\ UNCHANGED <<packsHere, packsFromGit, packsReleased>>
       \/ \E p \in Packs, v \in Versions : Removable(p, v) /\ SetsState(p, v, "absent")
    /\ UNCHANGED <<packDialog, packWork, packLists, storeDialog, storeWork, storeCatalogs>>
-----------------------------------------------------------------------------
(* Lists *)

\* loadBlockPacks: the newest request is the one whose answer counts. "by" waits for it.
AskForList(ui, by) ==
    /\ ui.listNo < MaxPackLists
    /\ packDialog' = [ui EXCEPT !.listNo = @ + 1, !.loading = TRUE]
    /\ packLists' = packLists \cup {[no |-> ui.listNo + 1, by |-> by, seen |-> [rev |-> 0]]}

\* Mutated: any answer is shown.
EveryList(l) == TRUE

ListIsCurrent(l) == l.no = packDialog.listNo

ServeList(l) ==
    /\ l.seen.rev = 0
    /\ packLists' = (packLists \ {l}) \cup {[l EXCEPT !.seen = Snapshot]}
    /\ UNCHANGED <<serverOfPacks, packDialog, packWork, storeDialog, storeWork, storeCatalogs>>

\* The dialog after the answer of a list, or after its failure.
Listed(l, ok) ==
    IF ~ListIsCurrent(l) THEN packDialog
    ELSE IF ok THEN [packDialog EXCEPT !.list = l.seen, !.loading = FALSE]
    ELSE [packDialog EXCEPT !.loading = FALSE, !.said = "failed"]

\* Only an answer that was shown lets the one who waits say that all is done.
ListCounts(l, ok) == ok /\ ListIsCurrent(l)

ListIdle(l, ok) ==
    /\ l.by = Nobody
    /\ packDialog' = Listed(l, ok)
    /\ packLists' = packLists \ {l}
    /\ UNCHANGED <<serverOfPacks, packWork, storeDialog, storeWork, storeCatalogs>>
-----------------------------------------------------------------------------
(* The library *)

OpenLibrary ==
    /\ ~packDialog.open
    /\ AskForList([packDialog EXCEPT !.open = TRUE, !.said = "nothing"], Nobody)
    /\ UNCHANGED <<serverOfPacks, packWork, storeDialog, storeWork, storeCatalogs>>

CloseLibrary ==
    /\ packDialog.open
    /\ packDialog' = [packDialog EXCEPT !.open = FALSE, !.loading = FALSE, !.listNo = @ + 1]
    /\ UNCHANGED <<serverOfPacks, packWork, packLists, storeDialog, storeWork, storeCatalogs>>

\* Mutated: the check in flight is superseded, and nobody clears its mark.
ChangedInputOfCheck(p) ==
    [packDialog EXCEPT !.input = p, !.checked = NoPack, !.check = NoCheck, !.checkNo = @ + 1,
        !.opNo = IF packDialog.busy = "check" THEN @ + 1 ELSE @]

\* changeInput: what was checked is forgotten, and a check in flight is superseded.
ChangedInput(p) ==
    [packDialog EXCEPT !.input = p, !.checked = NoPack, !.check = NoCheck, !.checkNo = @ + 1,
        !.opNo = IF packDialog.busy = "check" THEN @ + 1 ELSE @,
        !.busy = IF @ = "check" THEN "no" ELSE @]

ChangeInput ==
    /\ packDialog.open /\ packDialog.checkNo <= MaxPackWork
    /\ \E p \in Packs \cup {NoPack} : p # packDialog.input /\ packDialog' = ChangedInput(p)
    /\ UNCHANGED <<serverOfPacks, packWork, packLists, storeDialog, storeWork, storeCatalogs>>

\* beginOperation: one operation at a time.
Begin(key, p, v, to) ==
    /\ packDialog.open /\ packDialog.busy = "no" /\ packDialog.opNo + storeDialog.ops < MaxPackWork
    /\ packDialog' = [packDialog EXCEPT !.busy = key, !.opNo = @ + 1, !.said = "nothing",
                          !.check = IF key = "check" THEN NoCheck ELSE @,
                          !.checked = IF key = "check" THEN NoPack ELSE @,
                          !.checkNo = IF key = "check" THEN @ + 1 ELSE @]
    /\ packWork' = packWork \cup
           {[op |-> packDialog.opNo + 1, key |-> key, stage |-> "asked", pack |-> p, version |-> v, to |-> to,
             checkNo |-> packDialog.checkNo + 1, rev |-> 0, listed |-> FALSE]}
    /\ UNCHANGED <<serverOfPacks, packLists, storeDialog, storeWork, storeCatalogs>>

CheckRepository == packDialog.input # NoPack /\ Begin("check", packDialog.input, 0, "none")

\* Only what was checked, and only an update.
InstallFromGitHub ==
    /\ packDialog.checked # NoPack /\ packDialog.checked = packDialog.input
    /\ packDialog.check.update
    /\ Begin("github", packDialog.checked, packDialog.check.version, "none")

InstallFile == \E p \in Packs : Begin("zip", p, 1, "none")

\* A row of the list: it may be older than the server's installations.
Row(p, v) == packDialog.list.rev > 0 /\ ~packDialog.loading /\ packDialog.list.here[p][v] # "absent"

ChangeState ==
    \E p \in Packs, v \in Versions :
        /\ Row(p, v)
        /\ Begin("state", p, v, IF packDialog.list.here[p][v] = "enabled" THEN "disabled" ELSE "enabled")

RemovePack ==
    \E p \in Packs, v \in Versions :
        /\ Row(p, v)
        /\ packDialog.list.here[p][v] # "enabled" /\ <<p, v>> \notin packDialog.list.used
        /\ Begin("remove", p, v, "none")

IsCurrent(w) == w.op = packDialog.opNo

\* finish: the mark of a superseded operation is not its own.
Finished(ui, w) == IF IsCurrent(w) THEN [ui EXCEPT !.busy = "no"] ELSE ui

\* Mutated: every answer of a check is shown.
CheckAlways(w) == TRUE

\* A check is shown if nothing was asked or typed since.
CheckCounts(w) == IsCurrent(w) /\ w.checkNo = packDialog.checkNo /\ w.pack = packDialog.input

CheckShown(ui, w) ==
    IF CheckCounts(w) THEN [ui EXCEPT !.check = Checked(w.pack), !.checked = w.pack] ELSE ui

CheckAnswered(w) ==
    /\ w.key = "check" /\ w.stage = "asked"
    /\ packDialog' = Finished(CheckShown(packDialog, w), w)
    /\ packWork' = packWork \ {w}
    /\ UNCHANGED <<serverOfPacks, packLists, storeDialog, storeWork, storeCatalogs>>

\* The server did what was asked: the list is read again. Only checks are superseded.
WorkAnswered(w) ==
    /\ w.key # "check" /\ w.stage = "asked"
    /\ Does(w)
    /\ AskForList(packDialog, "library")
    /\ packWork' = (packWork \ {w}) \cup {[w EXCEPT !.stage = "listing", !.rev = packsRevision']}
    /\ UNCHANGED <<storeDialog, storeWork, storeCatalogs>>

\* The operation is refused, or done and its answer lost.
WorkFails(w) ==
    /\ w.stage \in {"asked", "checking"}
    /\ \/ w.stage = "asked" /\ Does(w)
       \/ UNCHANGED serverOfPacks
    /\ packDialog' = Finished(IF IsCurrent(w) THEN [packDialog EXCEPT !.said = "failed"] ELSE packDialog, w)
    /\ packWork' = packWork \ {w}
    /\ UNCHANGED <<packLists, storeDialog, storeWork, storeCatalogs>>

\* Mutated: it is told in any case.
InstalledAnyway(ui, w, listed) ==
    IF w.key \in {"github", "zip"} THEN [ui EXCEPT !.said = "installed"] ELSE ui

\* The end of an installation is told when its list was shown.
Installed(ui, w, listed) ==
    IF listed /\ w.key \in {"github", "zip"} THEN [ui EXCEPT !.said = "installed"] ELSE ui

\* An installation from GitHub checks its repository again, if it is still the one that
\* is typed in; the others are at their end.
ListForLibrary(l, ok) ==
    /\ l.by = "library"
    /\ packLists' = packLists \ {l}
    /\ \E w \in packWork :
        /\ w.stage = "listing"
        /\ IF w.key = "github" /\ w.pack = packDialog.input
           THEN /\ packDialog' = [Listed(l, ok) EXCEPT !.checkNo = @ + 1]
                /\ packWork' = (packWork \ {w}) \cup
                       {[w EXCEPT !.stage = "checking", !.checkNo = packDialog.checkNo + 1,
                                  !.listed = ListCounts(l, ok)]}
           ELSE /\ packDialog' = Finished(Installed(Listed(l, ok), w, ListCounts(l, ok)), w)
                /\ packWork' = packWork \ {w}
    /\ UNCHANGED <<serverOfPacks, storeDialog, storeWork, storeCatalogs>>

CheckedAgain(w) ==
    /\ w.stage = "checking"
    /\ packDialog' = Finished(Installed(CheckShown(packDialog, w), w, w.listed), w)
    /\ packWork' = packWork \ {w}
    /\ UNCHANGED <<serverOfPacks, packLists, storeDialog, storeWork, storeCatalogs>>
-----------------------------------------------------------------------------
(* The store *)

AskForCatalog(ui, by) ==
    /\ ui.no < MaxPackLists
    /\ storeDialog' = [ui EXCEPT !.no = @ + 1, !.loading = TRUE]
    /\ storeCatalogs' = storeCatalogs \cup {[no |-> ui.no + 1, by |-> by]}

OpenStore ==
    /\ ~storeDialog.open
    /\ AskForCatalog([storeDialog EXCEPT !.open = TRUE], Nobody)
    /\ packDialog' = [packDialog EXCEPT !.said = "nothing"]
    /\ UNCHANGED <<serverOfPacks, packWork, packLists, storeWork>>

ClosedStore == [storeDialog EXCEPT !.open = FALSE, !.loading = FALSE, !.no = @ + 1]

CloseStore ==
    /\ storeDialog.open /\ storeDialog.no <= MaxPackLists
    /\ storeDialog' = ClosedStore
    /\ UNCHANGED <<serverOfPacks, packDialog, packWork, packLists, storeWork, storeCatalogs>>

Offered == storeDialog.open /\ ~storeDialog.loading /\ storeDialog.rev > 0 /\ storeWork = NoWork

InstallProduct ==
    /\ Offered /\ packDialog.opNo + storeDialog.ops < MaxPackWork
    /\ \E p \in Products \ storeDialog.installed :
         storeWork' = [stage |-> "asked", pack |-> p, rev |-> 0, listed |-> FALSE]
    /\ storeDialog' = [storeDialog EXCEPT !.ops = @ + 1]
    /\ packDialog' = [packDialog EXCEPT !.said = "nothing"]
    /\ UNCHANGED <<serverOfPacks, packWork, packLists, storeCatalogs>>

ProductInstalled ==
    /\ storeWork.stage = "asked"
    /\ Installs(storeWork.pack, 1, FALSE)
    /\ AskForCatalog(storeDialog, "store")
    /\ storeWork' = [storeWork EXCEPT !.stage = "catalog", !.rev = packsRevision']
    /\ packDialog' = [packDialog EXCEPT !.said = "nothing"]
    /\ UNCHANGED <<packWork, packLists>>

ProductFails ==
    /\ storeWork.stage \in {"asked", "applying"}
    /\ \/ storeWork.stage = "asked" /\ Installs(storeWork.pack, 1, FALSE)
       \/ UNCHANGED serverOfPacks
    /\ storeWork' = NoWork
    /\ packDialog' = [packDialog EXCEPT !.said = "failed"]
    /\ UNCHANGED <<packWork, packLists, storeDialog, storeCatalogs>>

\* The catalog names what is installed as it is read. The installation goes on to the
\* list of the library, whether its catalog counts or not.
CatalogAnswered(c, ok) ==
    /\ storeCatalogs' = storeCatalogs \ {c}
    /\ storeDialog' =
           IF c.no # storeDialog.no THEN storeDialog
           ELSE IF ok THEN [storeDialog EXCEPT !.loading = FALSE, !.rev = packsRevision,
                                !.installed = {p \in Products : packsHere[p][1] # "absent"}]
           ELSE [storeDialog EXCEPT !.loading = FALSE]
    /\ IF c.by = "store"
       THEN /\ AskForList(packDialog, "store")
            /\ storeWork' = [storeWork EXCEPT !.stage = "packs", !.listed = ok /\ c.no = storeDialog.no]
       ELSE /\ packDialog' = IF ok \/ c.no # storeDialog.no THEN packDialog
                             ELSE [packDialog EXCEPT !.said = "failed"]
            /\ UNCHANGED <<packLists, storeWork>>
    /\ UNCHANGED <<serverOfPacks, packWork>>

ListForStore(l, ok) ==
    /\ l.by = "store"
    /\ packLists' = packLists \ {l}
    /\ packDialog' = IF storeWork.listed /\ ListCounts(l, ok)
                     THEN [Listed(l, ok) EXCEPT !.said = "installed"] ELSE Listed(l, ok)
    /\ storeWork' = NoWork
    /\ UNCHANGED <<serverOfPacks, packWork, storeDialog, storeCatalogs>>

\* A page kit is chosen, put back, or applied: then the page is left for its editor.
ChoosePageKit ==
    /\ Offered /\ storeDialog.no <= MaxPackLists
    /\ storeDialog' = [ClosedStore EXCEPT !.kit = TRUE]
    /\ UNCHANGED <<serverOfPacks, packDialog, packWork, packLists, storeWork, storeCatalogs>>

BackToCatalog ==
    /\ storeDialog.kit /\ storeWork = NoWork
    /\ storeDialog' = [storeDialog EXCEPT !.kit = FALSE, !.open = TRUE]
    /\ UNCHANGED <<serverOfPacks, packDialog, packWork, packLists, storeWork, storeCatalogs>>

ApplyPageKit ==
    /\ storeDialog.kit /\ storeWork = NoWork /\ packDialog.opNo + storeDialog.ops < MaxPackWork
    /\ storeWork' = [stage |-> "applying"]
    /\ storeDialog' = [storeDialog EXCEPT !.ops = @ + 1]
    /\ packDialog' = [packDialog EXCEPT !.said = "nothing"]
    /\ UNCHANGED <<serverOfPacks, packWork, packLists, storeCatalogs>>
-----------------------------------------------------------------------------
PackManagerInit ==
    /\ packsHere = [p \in Packs |-> [v \in Versions |-> "absent"]]
    /\ packsFromGit = {} /\ packsInUse = {}
    /\ packsReleased = [p \in Packs |-> 1]
    /\ packsRevision = 1
    /\ packDialog = [open |-> FALSE, loading |-> FALSE, busy |-> "no", said |-> "nothing", input |-> NoPack,
                     checked |-> NoPack, check |-> NoCheck, list |-> [rev |-> 0],
                     listNo |-> 0, checkNo |-> 0, opNo |-> 0]
    /\ packWork = {} /\ packLists = {}
    /\ storeDialog = [open |-> FALSE, loading |-> FALSE, rev |-> 0, installed |-> {}, kit |-> FALSE,
                      no |-> 0, ops |-> 0]
    /\ storeWork = NoWork /\ storeCatalogs = {}

PackManagerNext ==
    \/ OthersAct
    \/ OpenLibrary \/ CloseLibrary \/ ChangeInput
    \/ CheckRepository \/ InstallFromGitHub \/ InstallFile \/ ChangeState \/ RemovePack
    \/ \E w \in packWork : CheckAnswered(w) \/ WorkAnswered(w) \/ WorkFails(w) \/ CheckedAgain(w)
    \/ \E l \in packLists : \/ ServeList(l)
                            \/ ListIdle(l, FALSE) \/ ListForLibrary(l, FALSE) \/ ListForStore(l, FALSE)
                            \/ /\ l.seen.rev > 0
                               /\ ListIdle(l, TRUE) \/ ListForLibrary(l, TRUE) \/ ListForStore(l, TRUE)
    \/ OpenStore \/ CloseStore \/ InstallProduct \/ ProductInstalled \/ ProductFails
    \/ \E c \in storeCatalogs, ok \in BOOLEAN : CatalogAnswered(c, ok)
    \/ ChoosePageKit \/ BackToCatalog \/ ApplyPageKit
-----------------------------------------------------------------------------
(* Properties *)

\* Type invariant: the variables of useManagerBlockPacks, useManagerStore and the server.
PackManagerTypeOK ==
    /\ packsHere \in [Packs -> [Versions -> {"absent", "disabled", "enabled"}]]
    /\ packsFromGit \cup packsInUse \subseteq Packs \X Versions
    /\ packsReleased \in [Packs -> Versions]
    /\ packDialog.busy \in {"no", "check", "github", "zip", "state", "remove"}
    /\ packDialog.input \in Packs \cup {NoPack}
    /\ packDialog.said \in {"nothing", "installed", "failed"}
    /\ \A w \in packWork : w.stage \in {"asked", "listing", "checking"}
    /\ storeWork.stage \in {"none", "asked", "catalog", "packs", "applying"}

\* The release that is offered for installation is of the repository that is typed in
\* now, however late its check was answered.
OffersWhatIsTyped == packDialog.check # NoCheck => packDialog.check.pack = packDialog.input

\* A dialog that is busy or loading has something to wait for: no operation ends, is
\* superseded or loses its dialog without giving its mark back.
MarksHaveReasons ==
    /\ packDialog.busy # "no" => \E w \in packWork : IsCurrent(w) /\ w.key = packDialog.busy
    /\ packDialog.loading => \E l \in packLists : ListIsCurrent(l)
    /\ storeDialog.loading => \E c \in storeCatalogs : c.no = storeDialog.no
    /\ storeWork.stage = "catalog" => \E c \in storeCatalogs : c.by = "store"
    /\ storeWork.stage = "packs" => \E l \in packLists : l.by = "store"

\* A list that overtakes another one is not replaced by it: what is shown of the
\* installations never goes back.
ListNeverGoesBack == [][packDialog'.list.rev >= packDialog.list.rev]_packManagerVars

\* "Installed" is said when the list shows the installations as they were after it.
SaysInstalledWhenListed ==
    [][packDialog'.said = "installed" /\ packDialog.said # "installed" =>
           \E w \in packWork \cup {storeWork} :
               /\ w.stage \in {"listing", "checking", "packs"}
               /\ packDialog'.list.rev >= w.rev]_packManagerVars
=============================================================================
