-------------------------------- MODULE SiteKits --------------------------------
(***************************************************************************)
(* The installation of a site kit: useSiteKitInstallation in the manager's *)
(* tab, the storage of its session, and SiteKitService with its row per    *)
(* request. Every request carries an identity that is stored before it is  *)
(* sent; answers are lost, the tab is reloaded, the storage is full, the   *)
(* server fails and rolls back, others take addresses, and a release       *)
(* replaces the kit. An attempt is one transaction of the server; taken    *)
(* addresses are not given back here.                                      *)
(***************************************************************************)
EXTENDS Integers

CONSTANTS
    Addresses,      \* the addresses a kit's pages may get
    NoKit,          \* nothing pending, no receipt, nothing stored
    MaxKitReleases, \* versions of the kit
    MaxRequests,    \* identities of requests
    MaxPosts        \* attempts

ASSUME SiteKitAssumption ==
    /\ {MaxKitReleases, MaxRequests, MaxPosts} \subseteq Nat \ {0}
    /\ Addresses # {}
    /\ NoKit \notin [request : 1..MaxRequests, address : Addresses, version : 1..MaxKitReleases]

VARIABLES
    kitVersion,     \* the version of the kit on the server
    kitTaken,       \* addresses of other pages
    kitSites,       \* the installed drafts, with the row of their request
    kitPosts,       \* attempts that are under way, [request, address, version, no, answer, heard]
    kitStored,      \* the storage of the tab's session
    kitDialog,      \* the dialog
    kitNumbers,     \* the last identity and the last attempt
    kitKnown        \* the requests whose receipt the tab has stored

siteKitVars == <<kitVersion, kitTaken, kitSites, kitPosts, kitStored, kitDialog, kitNumbers, kitKnown>>

KitInputs == [request : 1..MaxRequests, address : Addresses, version : 1..MaxKitReleases]
InputOf(m) == [request |-> m.request, address |-> m.address, version |-> m.version]
NoPreview == [version |-> 0, can |-> FALSE]

\* What the storage gives back when the dialog is opened.
OpenedDialog ==
    [open |-> TRUE, catalog |-> "loading", selected |-> FALSE, preview |-> NoPreview, busy |-> "no",
     pending |-> IF kitStored \in KitInputs THEN kitStored ELSE NoKit,
     receipt |-> IF kitStored # NoKit /\ kitStored \notin KitInputs THEN kitStored.receipt ELSE NoKit,
     address |-> IF kitStored \in KitInputs THEN kitStored.address ELSE CHOOSE a \in Addresses : TRUE]

ClosedDialog == [OpenedDialog EXCEPT !.open = FALSE, !.pending = NoKit, !.receipt = NoKit,
                                     !.address = CHOOSE a \in Addresses : TRUE]
-----------------------------------------------------------------------------
(* The server *)

\* conflicts: an address is free of other pages and of installed drafts.
Free(a) == a \notin kitTaken /\ \A s \in kitSites : s.address # a

\* Mutated: the row is not looked up.
NoRowOf(m) == {}

\* once: the row of a request that is done answers with its receipt.
RowOf(m) == {s \in kitSites : s.request = m.request}

\* install: the version is compared first, then the row, then the addresses; a failure
\* rolls all back.
ServePost(m) ==
    /\ m.answer = "none"
    /\ \E answer \in {"receipt", "rejected", "failed"} :
        /\ CASE answer = "receipt"  -> m.version = kitVersion /\ (RowOf(m) # {} \/ Free(m.address))
             [] answer = "rejected" -> m.version # kitVersion \/ (RowOf(m) = {} /\ ~Free(m.address))
             [] OTHER               -> TRUE
        /\ kitSites' = IF answer = "receipt" THEN kitSites \cup {InputOf(m)} ELSE kitSites
        /\ kitPosts' = (kitPosts \ {m}) \cup IF m.heard THEN {[m EXCEPT !.answer = answer]} ELSE {}
    /\ UNCHANGED <<kitVersion, kitTaken, kitStored, kitDialog, kitNumbers, kitKnown>>

OtherTakesAddress ==
    /\ \E a \in Addresses : Free(a) /\ kitTaken' = kitTaken \cup {a}
    /\ UNCHANGED <<kitVersion, kitSites, kitPosts, kitStored, kitDialog, kitNumbers, kitKnown>>

ReleaseKit ==
    /\ kitVersion < MaxKitReleases
    /\ kitVersion' = kitVersion + 1
    /\ UNCHANGED <<kitTaken, kitSites, kitPosts, kitStored, kitDialog, kitNumbers, kitKnown>>
-----------------------------------------------------------------------------
(* The dialog *)

Shows == kitDialog.open /\ kitDialog.busy = "no"
Choosing == Shows /\ kitDialog.pending = NoKit /\ kitDialog.receipt = NoKit

Dialog(d) ==
    /\ kitDialog' = d
    /\ UNCHANGED <<kitVersion, kitTaken, kitSites, kitPosts, kitStored, kitNumbers, kitKnown>>

OpenKits == ~kitDialog.open /\ Dialog(OpenedDialog)
CloseKits == Shows /\ Dialog(ClosedDialog)

\* The tab is loaded again: what it waited for is not heard any more.
ReloadTab ==
    /\ kitDialog.open
    /\ kitDialog' = ClosedDialog
    /\ kitPosts' = {[m EXCEPT !.heard = FALSE] : m \in {n \in kitPosts : n.answer = "none"}}
    /\ UNCHANGED <<kitVersion, kitTaken, kitSites, kitStored, kitNumbers, kitKnown>>

CatalogCame ==
    /\ kitDialog.open /\ kitDialog.catalog = "loading"
    /\ \E c \in {"here", "failed"} : Dialog([kitDialog EXCEPT !.catalog = c])

AskCatalogAgain ==
    /\ Choosing /\ ~kitDialog.selected /\ kitDialog.catalog = "failed"
    /\ Dialog([kitDialog EXCEPT !.catalog = "loading"])

ChooseKit ==
    /\ Choosing /\ ~kitDialog.selected /\ kitDialog.catalog = "here"
    /\ Dialog([kitDialog EXCEPT !.selected = TRUE, !.preview = NoPreview,
                                !.address = CHOOSE a \in Addresses : TRUE])

EditAddress ==
    /\ Choosing /\ kitDialog.selected
    /\ \E a \in Addresses \ {kitDialog.address} :
         Dialog([kitDialog EXCEPT !.address = a, !.preview = NoPreview])

CheckKit == Choosing /\ kitDialog.selected /\ Dialog([kitDialog EXCEPT !.busy = "checking"])

\* The fields are locked until the answer, so it is about what they show.
KitChecked ==
    /\ kitDialog.busy = "checking"
    /\ \/ Dialog([kitDialog EXCEPT !.busy = "no",
                      !.preview = [version |-> kitVersion, can |-> Free(kitDialog.address)]])
       \/ Dialog([kitDialog EXCEPT !.busy = "no"])

\* Mutated: each attempt is a request of its own.
FreshInput ==
    IF kitDialog.pending # NoKit THEN [kitDialog.pending EXCEPT !.request = kitNumbers.request + 1]
    ELSE [request |-> kitNumbers.request + 1, address |-> kitDialog.address, version |-> kitDialog.preview.version]

\* A pending request is asked for again, with all it was sent with.
Input ==
    IF kitDialog.pending # NoKit THEN kitDialog.pending
    ELSE [request |-> kitNumbers.request + 1, address |-> kitDialog.address, version |-> kitDialog.preview.version]

\* install: stored first, then sent. Nothing is sent if it cannot be stored.
InstallKit ==
    /\ Shows /\ kitDialog.receipt = NoKit
    /\ kitDialog.pending # NoKit \/ (kitDialog.selected /\ kitDialog.preview.can)
    /\ Input.request <= MaxRequests /\ kitNumbers.post < MaxPosts
    /\ kitNumbers' = [request |-> IF Input.request > kitNumbers.request THEN Input.request ELSE kitNumbers.request,
                      post |-> kitNumbers.post + 1]
    /\ \/ /\ kitStored' = Input
          /\ kitDialog' = [kitDialog EXCEPT !.pending = Input, !.busy = "installing"]
          /\ kitPosts' = kitPosts \cup
                 {[request |-> Input.request, address |-> Input.address, version |-> Input.version,
                   no |-> kitNumbers.post + 1, answer |-> "none", heard |-> TRUE]}
       \/ UNCHANGED <<kitStored, kitDialog, kitPosts>>
    /\ UNCHANGED <<kitVersion, kitTaken, kitSites, kitKnown>>

\* The receipt replaces the request in the storage, unless the storage is full.
ReceiptCame(m) ==
    /\ m.heard /\ m.answer = "receipt"
    /\ \/ /\ kitStored' = [receipt |-> m.request]
          /\ kitDialog' = [kitDialog EXCEPT !.receipt = m.request, !.pending = NoKit, !.busy = "no"]
          /\ kitKnown' = kitKnown \cup {m.request}
       \/ kitDialog' = [kitDialog EXCEPT !.busy = "no"] /\ UNCHANGED <<kitStored, kitKnown>>
    /\ kitPosts' = kitPosts \ {m}
    /\ UNCHANGED <<kitVersion, kitTaken, kitSites, kitNumbers>>

\* Mutated: a failure of the server forgets it as well, and so does the network's.
AnyError(answer) == answer \in {"rejected", "failed", "none"}

\* Which answers forget the request.
Definitive(answer) == answer = "rejected"

\* A rejection forgets the request; a failure of the server or of the network keeps it,
\* while the attempt may still be under way.
PostRefused(m) ==
    /\ m.heard /\ m.answer # "receipt"
    /\ kitStored' = IF Definitive(m.answer) THEN NoKit ELSE kitStored
    /\ kitDialog' = IF Definitive(m.answer)
                    THEN [kitDialog EXCEPT !.busy = "no", !.pending = NoKit, !.preview = NoPreview]
                    ELSE [kitDialog EXCEPT !.busy = "no"]
    /\ kitPosts' = (kitPosts \ {m}) \cup IF m.answer = "none" THEN {[m EXCEPT !.heard = FALSE]} ELSE {}
    /\ UNCHANGED <<kitVersion, kitTaken, kitSites, kitNumbers, kitKnown>>

\* The answer is lost.
PostLost(m) ==
    /\ m.heard /\ m.answer # "none"
    /\ kitDialog' = [kitDialog EXCEPT !.busy = "no"]
    /\ kitPosts' = kitPosts \ {m}
    /\ UNCHANGED <<kitVersion, kitTaken, kitSites, kitStored, kitNumbers, kitKnown>>

\* Back to the kits, from the form or from a receipt.
ResetKit ==
    /\ Shows /\ kitDialog.pending = NoKit /\ (kitDialog.receipt # NoKit \/ kitDialog.selected)
    /\ kitStored' = NoKit
    /\ kitDialog' = [kitDialog EXCEPT !.receipt = NoKit, !.selected = FALSE, !.preview = NoPreview]
    /\ UNCHANGED <<kitVersion, kitTaken, kitSites, kitPosts, kitNumbers, kitKnown>>
-----------------------------------------------------------------------------
SiteKitsInit ==
    /\ kitVersion = 1
    /\ kitTaken = {} /\ kitSites = {} /\ kitPosts = {} /\ kitKnown = {}
    /\ kitStored = NoKit
    /\ kitDialog = ClosedDialog
    /\ kitNumbers = [request |-> 0, post |-> 0]

SiteKitsNext ==
    \/ OtherTakesAddress \/ ReleaseKit
    \/ OpenKits \/ CloseKits \/ ReloadTab \/ CatalogCame \/ AskCatalogAgain
    \/ ChooseKit \/ EditAddress \/ CheckKit \/ KitChecked \/ InstallKit \/ ResetKit
    \/ \E m \in kitPosts : ServePost(m) \/ ReceiptCame(m) \/ PostRefused(m) \/ PostLost(m)
-----------------------------------------------------------------------------
(* Properties *)

\* Type invariant: the variables of the dialog, its storage and the server.
SiteKitsTypeOK ==
    /\ kitVersion \in 1..MaxKitReleases
    /\ kitTaken \subseteq Addresses /\ kitSites \subseteq KitInputs
    /\ \A m \in kitPosts : InputOf(m) \in KitInputs /\ m.answer \in {"none", "receipt", "rejected", "failed"}
    /\ kitStored \in KitInputs \cup {NoKit} \cup [receipt : 1..MaxRequests]
    /\ kitDialog.busy \in {"no", "checking", "installing"}
    /\ kitDialog.pending \in KitInputs \cup {NoKit} /\ kitDialog.receipt \in 0..MaxRequests \cup {NoKit}

\* The tab never loses a site it had installed: of each one it has had the receipt, or it
\* still asks for it. So a rejection leaves nothing behind, and a retry is not an
\* installation of its own. The sites of a kit that a release has replaced since are
\* excepted: their request is rejected although they are there.
NoSiteIsForgotten ==
    \A s \in kitSites :
        \/ s.request \in kitKnown
        \/ kitStored \in KitInputs /\ kitStored.request = s.request
        \/ s.version < kitVersion

\* A dialog that is busy waits for an answer, so it can be closed some time.
KitsWaitForAnAnswer == kitDialog.busy = "installing" => \E m \in kitPosts : m.heard
=============================================================================
