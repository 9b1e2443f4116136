---------------------------- MODULE DraftEditor ----------------------------
(***************************************************************************)
(* The editor of one page in the tabs of one or more browsers, and the     *)
(* server's draft: main.tsx, draftPersistence.ts and draftJournal.ts. A    *)
(* document is the set of the edits made to it. The server's side is the   *)
(* lock version test that PagePublication has in full.                     *)
(*                                                                         *)
(* One tab has at most one save in flight. Its answer may come late, after *)
(* more edits, or never; its request may reach the server after the tab    *)
(* gave up on it or is gone.                                               *)
(***************************************************************************)
EXTENDS Naturals, FiniteSets

CONSTANTS Edits,          \* the edits somebody makes
          Tabs,
          Browsers,       \* each has its local storage
          BrowserOf,      \* the browser of each tab
          MaxLock,        \* bound: the last lock version of the page
          LateReloads,    \* a reload may end while a save is in flight
          None

ASSUME DraftEditorAssumption ==
    /\ IsFiniteSet(Edits)
    /\ BrowserOf \in [Tabs -> Browsers]
    /\ MaxLock \in Nat \ {0}
    /\ LateReloads \in BOOLEAN

VARIABLES server,     \* the lock version and the draft of the page
          network,    \* save requests on their way that no tab waits for
          journal,    \* the journal of each browser, in its local storage
          tab,        \* the editor in each tab
          made        \* the edits made so far

vars == <<server, network, journal, tab, made>>
-----------------------------------------------------------------------------
Locks == 0 .. MaxLock

\* A document with the lock version it was read, sent or kept with.
Resource == [lock : Locks, doc : SUBSET Edits]

NoResource == [lock |-> 0, doc |-> {}]

\* Who waits for a save: a timer or a hidden page, the save button (it flushes,
\* as leaving the page does), or the publish button (it flushes, then publishes).
Callers == {"background", "save", "publish"}

Flushing == {"save", "publish"}

Tab == [page : {"closed", "loading", "open", "reloading"}, fetched : Resource,
        doc : SUBSET Edits, dirty : BOOLEAN, lock : Locks,
        state : {"saved", "dirty", "saving", "conflict", "error"},
        autosave : BOOLEAN, journalTimer : BOOLEAN,
        save : {"none", "put", "preview", "clean"}, sent : Resource,
        edited : BOOLEAN, owner : Callers \cup {None}, waiting : SUBSET Callers,
        answer : {"none", "ok", "conflict"}, received : Locks,
        publish : {"idle", "preparing", "publishing", "published"},
        candidate : Resource]

Closed == [page |-> "closed", fetched |-> NoResource, doc |-> {}, dirty |-> FALSE,
           lock |-> 0, state |-> "saved", autosave |-> FALSE,
           journalTimer |-> FALSE, save |-> "none", sent |-> NoResource,
           edited |-> FALSE, owner |-> None, waiting |-> {}, answer |-> "none",
           received |-> 0, publish |-> "idle", candidate |-> NoResource]

Mounted(t) == tab[t].page \in {"open", "reloading"}

\* editorInteractionLocked
Locked(t) == tab[t].page # "open" \/ tab[t].publish \in {"preparing", "publishing"}
-----------------------------------------------------------------------------
(* createDraftPersistence, on the record of a tab *)

\* A save begins: the document as it is, a PUT if there is something to save.
Started(r, caller, waiting) ==
    [r EXCEPT !.save = IF r.dirty THEN "put" ELSE "clean",
              !.sent = [lock |-> r.lock, doc |-> r.doc],
              !.edited = FALSE, !.owner = caller, !.waiting = waiting,
              !.answer = "none", !.autosave = FALSE, !.state = "saving"]

\* Mutated: whoever comes while a save is in flight takes its outcome for theirs.
SavedJoining(r, caller) ==
    IF r.save = "none" THEN Started(r, caller, {})
    ELSE [r EXCEPT !.autosave = FALSE]

\* save(): the timer is cancelled; a save in flight is waited for.
Saved(r, caller) ==
    IF r.save = "none" THEN Started(r, caller, {})
    ELSE [r EXCEPT !.waiting = @ \cup {caller}, !.autosave = FALSE]

Done(r) == [r EXCEPT !.save = "none", !.sent = NoResource, !.edited = FALSE,
                     !.owner = None, !.waiting = {}, !.answer = "none",
                     !.received = 0]

\* Who saves again when a save succeeds and the document is dirty: the one
\* whose save it was, if that flushes, and everyone who waited.
Again(r) == ({r.owner} \cap Flushing) \cup r.waiting

Continued(r, callers) ==
    IF "publish" \in callers THEN [r EXCEPT !.publish = "preparing"] ELSE r

\* Mutated: publishing takes a successful save for a save of the last edit.
SucceededUnflushed(r) ==
    IF r.dirty /\ Again(r) \ {"publish"} # {}
    THEN {Started(Done(r), c, Again(r) \ {c}) : c \in Again(r) \ {"publish"}}
    ELSE {Continued(Done(r), {r.owner} \cup r.waiting)}

\* The tab after a successful save: the next save, or what the callers wait for.
Succeeded(r) ==
    IF r.dirty /\ Again(r) # {}
    THEN LET next == IF r.owner \in Flushing THEN {r.owner} ELSE Again(r)
         IN  {Started(Done(r), c, Again(r) \ {c}) : c \in next}
    ELSE {Continued(Done(r), {r.owner} \cup r.waiting)}

Failed(r, state) == [Done(r) EXCEPT !.state = state]
-----------------------------------------------------------------------------
(* Loading *)

Init == /\ server = [lock |-> 1, doc |-> {}]
        /\ network = {}
        /\ journal = [b \in Browsers |-> NoResource]
        /\ tab = [t \in Tabs |-> Closed]
        /\ made = {}

Become(t, r) == tab' = [tab EXCEPT ![t] = r]

\* The tab asks for the document, and the server reads it.
Open(t) == /\ tab[t].page = "closed"
           /\ Become(t, [Closed EXCEPT !.page = "loading", !.fetched = server])
           /\ UNCHANGED <<server, network, journal, made>>

\* Mutated: any journal of the document is restored.
readDraftJournalOfAnyLock(b, lock) == journal[b].lock # 0

\* The journal of this lock version, if there is one.
readDraftJournal(b, lock) == journal[b].lock = lock

\* applyResource, with the journal. Nothing schedules a save of what it restores.
Loaded(t) ==
    /\ tab[t].page = "loading"
    /\ LET b == BrowserOf[t]
           resource == tab[t].fetched
           restored == readDraftJournal(b, resource.lock)
       IN  Become(t, [Closed EXCEPT !.page = "open", !.lock = resource.lock,
                        !.doc = IF restored THEN journal[b].doc ELSE resource.doc,
                        !.dirty = restored,
                        !.state = IF restored THEN "dirty" ELSE "saved"])
    /\ UNCHANGED <<server, network, journal, made>>

\* In a conflict the administrator may ask for the server's version.
reloadServerDraft(t) ==
    /\ tab[t].page = "open"
    /\ tab[t].state = "conflict"
    /\ Become(t, [tab[t] EXCEPT !.page = "reloading", !.fetched = server])
    /\ UNCHANGED <<server, network, journal, made>>

\* The document is replaced, and a save in flight goes on.
Reloaded(t) ==
    /\ tab[t].page = "reloading"
    /\ LateReloads \/ tab[t].save = "none"
    /\ Become(t, [tab[t] EXCEPT !.page = "open", !.fetched = NoResource,
                    !.lock = tab[t].fetched.lock, !.doc = tab[t].fetched.doc,
                    !.dirty = FALSE, !.state = "saved",
                    !.edited = tab[t].save # "none"])
    /\ journal' = [journal EXCEPT ![BrowserOf[t]] = NoResource]
    /\ UNCHANGED <<server, network, made>>

LoadFails(t) ==
    /\ tab[t].page \in {"loading", "reloading"}
    /\ Become(t, [tab[t] EXCEPT !.fetched = NoResource,
                    !.page = IF @ = "loading" THEN "closed" ELSE "open"])
    /\ UNCHANGED <<server, network, journal, made>>
-----------------------------------------------------------------------------
(* Editing and saving *)

handleDocumentChange(t, e) ==
    /\ ~Locked(t)
    /\ e \notin made
    /\ made' = made \cup {e}
    /\ Become(t, [tab[t] EXCEPT !.doc = @ \cup {e}, !.dirty = TRUE,
                    !.edited = tab[t].save # "none",
                    !.autosave = TRUE, !.journalTimer = TRUE,
                    !.state = "dirty", !.publish = "idle"])
    /\ UNCHANGED <<server, network, journal>>

\* flushDraftJournal, and what it leaves in the storage
Flushed(t) == [tab[t] EXCEPT !.journalTimer = FALSE]
Journal(t) == IF tab[t].dirty
              THEN [journal EXCEPT ![BrowserOf[t]] =
                        [lock |-> tab[t].lock, doc |-> tab[t].doc]]
              ELSE journal

JournalTimer(t) ==
    /\ tab[t].journalTimer
    /\ Become(t, Flushed(t))
    /\ journal' = Journal(t)
    /\ UNCHANGED <<server, network, made>>

AutoSave(t) ==
    /\ tab[t].autosave
    /\ Become(t, Saved(tab[t], "background"))
    /\ UNCHANGED <<server, network, journal, made>>

saveWhenHidden(t) ==
    /\ Mounted(t)
    /\ tab[t].dirty
    /\ Become(t, Saved(Flushed(t), "background"))
    /\ journal' = Journal(t)
    /\ UNCHANGED <<server, network, made>>

\* The button is disabled while a save shows; it also retries after an error.
SaveButton(t) ==
    /\ ~Locked(t)
    /\ tab[t].state # "saving"
    /\ Become(t, Saved(tab[t], "save"))
    /\ UNCHANGED <<server, network, journal, made>>

\* The publish button inside the editor works while a save is in flight.
publish(t) ==
    /\ ~Locked(t)
    /\ Become(t, Saved(tab[t], "publish"))
    /\ UNCHANGED <<server, network, journal, made>>
-----------------------------------------------------------------------------
(* The answers *)

\* The server compares the lock version.
HandlePut(t) ==
    LET fits == tab[t].sent.lock = server.lock
    IN  /\ tab[t].save = "put"
        /\ tab[t].answer = "none"
        /\ fits => server.lock < MaxLock
        /\ server' = IF fits THEN [lock |-> server.lock + 1, doc |-> tab[t].sent.doc]
                     ELSE server
        /\ Become(t, [tab[t] EXCEPT !.answer = IF fits THEN "ok" ELSE "conflict",
                                    !.received = IF fits THEN server.lock + 1 ELSE 0])
        /\ UNCHANGED <<network, journal, made>>

\* A request nobody waits for any more arrives all the same.
HandleAbandoned(m) ==
    /\ m \in network
    /\ m.lock = server.lock => server.lock < MaxLock
    /\ network' = network \ {m}
    /\ server' = IF m.lock = server.lock
                 THEN [lock |-> server.lock + 1, doc |-> m.doc] ELSE server
    /\ UNCHANGED <<journal, tab, made>>

\* The journal keeps the latest document under the lock version received.
newerEdits(t, r) ==
    /\ tab' \in {[tab EXCEPT ![t] = next] :
            next \in Succeeded([r EXCEPT !.journalTimer = FALSE, !.state = "dirty"])}
    /\ journal' = [journal EXCEPT ![BrowserOf[t]] =
            [lock |-> r.received, doc |-> r.doc]]

SaveAnswered(t) ==
    LET r == [tab[t] EXCEPT !.lock = tab[t].received]
    IN  /\ tab[t].save = "put"
        /\ tab[t].answer = "ok"
        /\ IF r.edited THEN newerEdits(t, r)
           ELSE Become(t, [r EXCEPT !.save = "preview"]) /\ UNCHANGED journal
        /\ UNCHANGED <<server, network, made>>

\* Mutated: the tab counts as saved whatever was typed meanwhile.
PreviewAnsweredUnchecked(t) ==
    /\ tab[t].save = "preview"
    /\ tab' \in {[tab EXCEPT ![t] = next] :
            next \in Succeeded([tab[t] EXCEPT !.dirty = FALSE,
                            !.journalTimer = FALSE, !.state = "saved"])}
    /\ journal' = [journal EXCEPT ![BrowserOf[t]] = NoResource]
    /\ UNCHANGED <<server, network, made>>

\* Whether there is a preview ticket or not, the draft is saved.
PreviewAnswered(t) ==
    LET r == tab[t]
    IN  /\ r.save = "preview"
        /\ IF r.edited THEN newerEdits(t, r)
           ELSE /\ tab' \in {[tab EXCEPT ![t] = next] :
                        next \in Succeeded([r EXCEPT !.dirty = FALSE,
                                        !.journalTimer = FALSE, !.state = "saved"])}
                /\ journal' = [journal EXCEPT ![BrowserOf[t]] = NoResource]
        /\ UNCHANGED <<server, network, made>>

\* There was nothing to save when the save began.
CleanAnswered(t) ==
    LET r == tab[t]
        clean == ~r.edited /\ ~r.dirty
    IN  /\ r.save = "clean"
        /\ tab' \in {[tab EXCEPT ![t] = next] :
                next \in Succeeded([r EXCEPT !.state = IF clean THEN "saved" ELSE "dirty"])}
        /\ UNCHANGED <<server, network, journal, made>>

SaveConflicts(t) ==
    /\ tab[t].save = "put"
    /\ tab[t].answer = "conflict"
    /\ Become(t, Failed(tab[t], "conflict"))
    /\ UNCHANGED <<server, network, journal, made>>

\* The request of a save that ends without an answer is left to the network.
Abandoned(t) == IF tab[t].save = "put" /\ tab[t].answer = "none"
                THEN network \cup {tab[t].sent} ELSE network

\* No answer: the request, or the answer to it, is lost or late.
SaveFails(t) ==
    /\ tab[t].save = "put"
    /\ Become(t, Failed(tab[t], "error"))
    /\ network' = Abandoned(t)
    /\ UNCHANGED <<server, journal, made>>
-----------------------------------------------------------------------------
(* Publishing *)

\* Both requests of a publication compare the lock version.
preparePublication(t) ==
    /\ tab[t].publish = "preparing"
    /\ tab[t].lock = server.lock
    /\ Become(t, [tab[t] EXCEPT !.publish = "publishing", !.candidate = server])
    /\ UNCHANGED <<server, network, journal, made>>

\* What it does to the site is in PagePublication.
commitPublication(t) ==
    /\ tab[t].publish = "publishing"
    /\ tab[t].candidate.lock = server.lock
    /\ Become(t, [tab[t] EXCEPT !.publish = "published", !.candidate = NoResource])
    /\ UNCHANGED <<server, network, journal, made>>

\* Refused or not answered: the status says so, the button works again.
PublishFails(t) ==
    /\ tab[t].publish \in {"preparing", "publishing"}
    /\ Become(t, [tab[t] EXCEPT !.publish = "idle", !.candidate = NoResource])
    /\ UNCHANGED <<server, network, journal, made>>
-----------------------------------------------------------------------------
(* The end of a tab *)

\* It is closed, or left for another page: the journal is flushed.
Unload(t) ==
    /\ Mounted(t)
    /\ Become(t, Closed)
    /\ journal' = Journal(t)
    /\ network' = Abandoned(t)
    /\ UNCHANGED <<server, made>>

Crash(t) ==
    /\ Mounted(t)
    /\ Become(t, Closed)
    /\ network' = Abandoned(t)
    /\ UNCHANGED <<server, journal, made>>
-----------------------------------------------------------------------------
Administrator(t) ==
    \/ Open(t)
    \/ reloadServerDraft(t)
    \/ \E e \in Edits : handleDocumentChange(t, e)
    \/ saveWhenHidden(t)
    \/ SaveButton(t)
    \/ publish(t)
    \/ Unload(t)
    \/ Crash(t)

Timers(t) == JournalTimer(t) \/ AutoSave(t)

\* An answer of the server, or the news that there is none.
Answers(t) ==
    \/ Loaded(t)
    \/ Reloaded(t)
    \/ LoadFails(t)
    \/ HandlePut(t)
    \/ SaveAnswered(t)
    \/ PreviewAnswered(t)
    \/ CleanAnswered(t)
    \/ SaveConflicts(t)
    \/ SaveFails(t)
    \/ preparePublication(t)
    \/ commitPublication(t)
    \/ PublishFails(t)

Next == \/ \E t \in Tabs : Administrator(t) \/ Timers(t) \/ Answers(t)
        \/ \E m \in network : HandleAbandoned(m)

\* A browser fires its timers, and a request is answered or fails in the end.
Fairness == \A t \in Tabs : WF_vars(AutoSave(t)) /\ WF_vars(Answers(t))

Spec == Init /\ [][Next]_vars

FairSpec == Spec /\ Fairness
-----------------------------------------------------------------------------
(* Properties *)

TypeOK ==
    /\ server \in Resource
    /\ network \subseteq Resource
    /\ journal \in [Browsers -> Resource]
    /\ tab \in [Tabs -> Tab]
    /\ made \subseteq Edits

\* No save takes an edit off the server's draft, whichever tab it comes from and
\* whatever it was based on: a journal, a reload, an answer that came late, or a
\* request its tab had given up. (Edits only add here.)
ServersDraftIsKept == [][server.doc \subseteq server'.doc]_vars

\* A tab that shows no unsaved change has none: everything on its screen is in
\* the server's draft, although answers belong to older documents.
SavedMeansStored ==
    \A t \in Tabs : Mounted(t) /\ ~tab[t].dirty => tab[t].doc \subseteq server.doc

\* The lock version a tab holds is the one of a document it has on its screen: as
\* long as no other save moves it, everything in the server's draft is there. An
\* answer brings the lock version of the document it answers for.
LockNamesDocument ==
    \A t \in Tabs : Mounted(t) /\ tab[t].lock = server.lock =>
                      server.doc \subseteq tab[t].doc

\* What is about to be published is what is on the screen of the tab that asked
\* for it, with the edits made while earlier saves were in flight.
PublishesTheScreen ==
    \A t \in Tabs : tab[t].publish = "publishing" => tab[t].candidate.doc = tab[t].doc

\* After a change the editor saves by itself, or says that it could not. The
\* change may come while a save is in flight whose start cancelled the timer.
ChangesAreSaved ==
    \A t \in Tabs :
        tab[t].autosave ~> \/ ~tab[t].dirty
                           \/ tab[t].state \in {"conflict", "error"}
                           \/ ~Mounted(t)

\* A journal that is in the storage when its page is opened again comes back:
\* nobody but this tab works on the document.
JournalComesBack ==
    [][\A t \in Tabs :
         tab[t].page = "loading" /\ tab'[t].page = "open" =>
            journal[BrowserOf[t]].doc \subseteq tab'[t].doc]_vars
=============================================================================
