------------------------- MODULE DraftEditorProofs -------------------------
(***************************************************************************)
(* Any number of editors of one page, in any browsers, against the         *)
(* server's draft: no save takes an edit off it, a tab that says saved is  *)
(* saved, and what is published is what is on the screen. All of it rests  *)
(* on one idea: whoever holds the server's lock version holds its document *)
(* as well. A reload that ends while a save is in flight breaks it, so     *)
(* the theorems, all but the one about types, are about LateReloads =      *)
(* FALSE.                                                                  *)
(***************************************************************************)
EXTENDS DraftEditor, TLAPS

\* A document that is held with a lock version: the version is not ahead of the server's,
\* and at the server's version it has every edit of the server's draft.
Names(lock, doc, s) == lock <= s.lock /\ (lock = s.lock => s.doc \subseteq doc)

\* The document on the screen, the one a load has fetched, the one of a save on its way
\* and the one its answer is about.
DocumentsAreNamed(r, s) ==
    /\ Names(r.lock, r.doc, s)
    /\ r.page \in {"loading", "reloading"} =>
          Names(r.fetched.lock, r.fetched.doc, s) /\ r.fetched.doc \subseteq s.doc
    /\ r.save = "put" => Names(r.sent.lock, r.sent.doc, s)
    /\ r.save = "preview" \/ (r.save = "put" /\ r.answer = "ok") =>
          Names(r.received, r.sent.doc, s) /\ r.sent.doc \subseteq s.doc

\* What the fields of a tab say of one another.
FieldsAgree(r) ==
    /\ r.page \in {"closed", "loading"} =>
          /\ r.lock = 0 /\ r.doc = {} /\ ~r.dirty /\ r.save = "none" /\ ~r.autosave
          /\ r.publish = "idle"
    /\ r.save # "none" =>
          /\ r.sent.doc \subseteq r.doc
          /\ ~r.edited => r.doc = r.sent.doc /\ ~r.autosave
          /\ r.edited => r.dirty
          /\ r.state # "conflict"
          /\ r.page = "reloading" => r.owner = "background" /\ r.waiting \subseteq {"background"}
    /\ r.publish \in {"preparing", "publishing"} =>
          /\ r.page = "open" /\ r.save = "none" /\ ~r.dirty /\ ~r.autosave
          /\ r.state # "conflict"
    /\ r.publish = "publishing" => r.candidate.doc = r.doc

TabIsSound(r, s) ==
    /\ DocumentsAreNamed(r, s)
    /\ FieldsAgree(r)
    /\ ~r.dirty => r.doc \subseteq s.doc

\* The inductive invariant, next to TypeOK.
EditorsAreSound ==
    /\ server.lock > 0
    /\ \A m \in network : Names(m.lock, m.doc, server)
    /\ \A b \in Browsers : Names(journal[b].lock, journal[b].doc, server)
    /\ \A t \in Tabs : TabIsSound(tab[t], server)
-----------------------------------------------------------------------------
(* What the operators of the persistence return *)

LEMMA StartedFields ==
  ASSUME NEW r \in Tab, NEW c \in Callers, NEW w \in SUBSET Callers
  PROVE  LET n == Started(r, c, w)
         IN  /\ n \in Tab
             /\ n.page = r.page /\ n.fetched = r.fetched /\ n.doc = r.doc /\ n.lock = r.lock
             /\ n.dirty = r.dirty /\ n.publish = r.publish /\ n.candidate = r.candidate
             /\ n.save \in {"put", "clean"} /\ n.sent.lock = r.lock /\ n.sent.doc = r.doc
             /\ ~n.edited /\ ~n.autosave /\ n.answer = "none" /\ n.state = "saving"
             /\ n.owner = c /\ n.waiting = w /\ n.journalTimer = r.journalTimer
<1> DEFINE save == IF r.dirty THEN "put" ELSE "clean"
           sent == [lock |-> r.lock, doc |-> r.doc]
           n == [r EXCEPT !.save = save, !.sent = sent, !.edited = FALSE, !.owner = c,
                          !.waiting = w, !.answer = "none", !.autosave = FALSE,
                          !.state = "saving"]
<1>1. Started(r, c, w) = n
  BY DEF Started
<1>2. save \in {"put", "clean"} /\ sent.lock = r.lock /\ sent.doc = r.doc
  OBVIOUS
<1>3. sent \in Resource
  BY DEF Tab, Resource
<1> HIDE DEF save, sent
<1>4. n \in Tab
  BY <1>2, <1>3 DEF Tab
<1>5. /\ n.page = r.page /\ n.fetched = r.fetched /\ n.doc = r.doc /\ n.lock = r.lock
      /\ n.dirty = r.dirty /\ n.publish = r.publish /\ n.candidate = r.candidate
      /\ n.save = save /\ n.sent = sent
      /\ ~n.edited /\ ~n.autosave /\ n.answer = "none" /\ n.state = "saving"
      /\ n.owner = c /\ n.waiting = w /\ n.journalTimer = r.journalTimer
  BY DEF Tab
<1> HIDE DEF n
<1>6. QED
  BY <1>1, <1>2, <1>4, <1>5

(* What a save that has ended leaves in each field of its tab. *)
LEMMA DoneFields ==
  ASSUME DraftEditorAssumption, NEW r \in Tab
  PROVE  LET n == Done(r)
         IN  /\ n \in Tab
             /\ n.page = r.page /\ n.fetched = r.fetched /\ n.doc = r.doc /\ n.lock = r.lock
             /\ n.dirty = r.dirty /\ n.publish = r.publish /\ n.candidate = r.candidate
             /\ n.autosave = r.autosave /\ n.state = r.state
             /\ n.journalTimer = r.journalTimer /\ n.save = "none"
<1>1. NoResource \in Resource /\ 0 \in Locks
  BY DEF NoResource, Resource, Locks, DraftEditorAssumption
<1>2. QED
  BY <1>1 DEF Done, Tab

(* A save is started, or joined by one more caller. *)
LEMMA SavedFields ==
  ASSUME NEW r \in Tab, NEW c \in Callers
  PROVE  /\ Saved(r, c) \in Tab
         /\ r.save = "none" => Saved(r, c) = Started(r, c, {})
         /\ r.save # "none" => Saved(r, c) = [r EXCEPT !.waiting = @ \cup {c}, !.autosave = FALSE]
<1>1. r.waiting \cup {c} \in SUBSET Callers
  BY DEF Tab
<1>2. [r EXCEPT !.waiting = @ \cup {c}, !.autosave = FALSE] \in Tab
  BY <1>1 DEF Tab
<1>3. QED
  BY <1>2, StartedFields DEF Saved

\* A successful save is followed by the next one, or by what its callers wait for.
LEMMA SucceededFields ==
  ASSUME DraftEditorAssumption, NEW r \in Tab, NEW n \in Succeeded(r), r.save # "none"
  PROVE  /\ n \in Tab
         /\ \/ \E c \in Again(r) : n = Started(Done(r), c, Again(r) \ {c})
            \/ /\ ~r.dirty \/ Again(r) = {}
               /\ n = Continued(Done(r), {r.owner} \cup r.waiting)
<1>1. Again(r) \subseteq Callers
  BY DEF Again, Tab, Flushing, Callers
<1>2. Done(r) \in Tab
  BY DoneFields
<1>3. CASE r.dirty /\ Again(r) # {}
  <2>1. PICK c \in Again(r) : n = Started(Done(r), c, Again(r) \ {c})
    BY <1>3 DEF Succeeded, Again
  <2>2. c \in Callers /\ Again(r) \ {c} \in SUBSET Callers
    BY <1>1
  <2>3. n \in Tab
    BY <1>2, <2>1, <2>2, StartedFields
  <2>4. QED
    BY <2>1, <2>3
<1>4. CASE ~(r.dirty /\ Again(r) # {})
  <2>1. n = Continued(Done(r), {r.owner} \cup r.waiting)
    BY <1>4 DEF Succeeded
  <2>2. n \in Tab
    BY <1>2, <2>1 DEF Continued, Tab
  <2>3. QED
    BY <1>4, <2>1, <2>2
<1>5. QED
  BY <1>3, <1>4

(* A closed tab and the absent resource are values of their types. *)
LEMMA ClosedIsATab == ASSUME DraftEditorAssumption PROVE Closed \in Tab /\ NoResource \in Resource
BY DEF Closed, Tab, NoResource, Resource, Locks, DraftEditorAssumption, Callers
-----------------------------------------------------------------------------
(* Types *)

LEMMA EditorTypesInit == Init => TypeOK
<1>1. 1 \in Locks
  BY DraftEditorAssumption DEF Locks, DraftEditorAssumption
<1>2. QED
  BY <1>1, ClosedIsATab, DraftEditorAssumption DEF Init, TypeOK, Resource

\* What a tab keeps in the journal is a document with its lock version.
LEMMA JournalType ==
  ASSUME TypeOK, NEW t \in Tabs
  PROVE  Journal(t) \in [Browsers -> Resource] /\ Flushed(t) \in Tab
<1>1. tab[t] \in Tab /\ journal \in [Browsers -> Resource]
  BY DEF TypeOK
<1>2. [lock |-> tab[t].lock, doc |-> tab[t].doc] \in Resource
  BY <1>1 DEF Tab, Resource
<1>3. QED
  BY <1>1, <1>2 DEF Journal, Flushed, Tab

(* What leaving drops into the network are writes of drafts. *)
LEMMA AbandonedType ==
  ASSUME TypeOK, NEW t \in Tabs
  PROVE  Abandoned(t) \subseteq Resource
BY DEF TypeOK, Abandoned, Tab

\* The tab that a handler leaves, if it is a tab.
LEMMA Becomes ==
  ASSUME TypeOK, NEW t \in Tabs, NEW r \in Tab, Become(t, r)
  PROVE  tab' \in [Tabs -> Tab] /\ tab'[t] = r /\ \A u \in Tabs \ {t} : tab'[u] = tab[u]
BY DEF TypeOK, Become

\* What newerEdits leaves, for the record it is given.
LEMMA NewerEditsFields ==
  ASSUME TypeOK, NEW t \in Tabs, NEW r \in Tab, r.save # "none", newerEdits(t, r)
  PROVE  /\ \E n \in Tab :
              /\ n \in Succeeded([r EXCEPT !.journalTimer = FALSE, !.state = "dirty"])
              /\ Become(t, n)
         /\ journal' \in [Browsers -> Resource]
         /\ \A b \in Browsers : \/ journal'[b] = journal[b]
                                \/ journal'[b].lock = r.received /\ journal'[b].doc = r.doc
<1> DEFINE q == [r EXCEPT !.journalTimer = FALSE, !.state = "dirty"]
<1>1. q \in Tab /\ q.save # "none"
  BY DEF Tab
<1>2. PICK n \in Succeeded(q) : Become(t, n)
  BY DEF newerEdits, Become
<1> HIDE DEF q
<1>3. n \in Tab
  BY <1>1, <1>2, SucceededFields, DraftEditorAssumption
<1> DEFINE kept == [lock |-> r.received, doc |-> r.doc]
<1>4. kept \in Resource /\ kept.lock = r.received /\ kept.doc = r.doc
  BY DEF Tab, Resource
<1>5. journal' = [journal EXCEPT ![BrowserOf[t]] = kept] /\ journal \in [Browsers -> Resource]
  BY DEF newerEdits, TypeOK
<1> HIDE DEF kept
<1>6. /\ journal' \in [Browsers -> Resource]
      /\ \A b \in Browsers : journal'[b] = journal[b] \/ journal'[b] = kept
  BY <1>4, <1>5
<1>7. QED
  BY <1>2, <1>3, <1>4, <1>6 DEF q

(* Reading and rereading the draft keep the types. *)
LEMMA EditorTypesLoading ==
  ASSUME TypeOK, NEW t \in Tabs,
         \/ Open(t) \/ Loaded(t) \/ reloadServerDraft(t) \/ Reloaded(t) \/ LoadFails(t)
  PROVE  TypeOK'
<1> USE DraftEditorAssumption
<1>1. /\ tab[t] \in Tab /\ server \in Resource /\ NoResource \in Resource /\ Closed \in Tab
      /\ BrowserOf[t] \in Browsers /\ journal \in [Browsers -> Resource]
      /\ network \subseteq Resource /\ made \subseteq Edits
  BY ClosedIsATab DEF TypeOK, DraftEditorAssumption
<1>2. CASE Open(t)
  <2>1. [Closed EXCEPT !.page = "loading", !.fetched = server] \in Tab
    BY <1>1 DEF Tab
  <2>2. QED
    BY <1>1, <1>2, <2>1, Becomes DEF Open, TypeOK
<1>3. CASE Loaded(t)
  <2> DEFINE b == BrowserOf[t]
             resource == tab[t].fetched
             restored == readDraftJournal(b, resource.lock)
             doc == IF restored THEN journal[b].doc ELSE resource.doc
             state == IF restored THEN "dirty" ELSE "saved"
             n == [Closed EXCEPT !.page = "open", !.lock = resource.lock, !.doc = doc,
                                 !.dirty = restored, !.state = state]
  <2>1. resource.lock \in Locks /\ doc \in SUBSET Edits /\ restored \in BOOLEAN
        /\ state \in {"saved", "dirty"}
    BY <1>1 DEF Tab, Resource, readDraftJournal
  <2>2. Become(t, n) /\ UNCHANGED <<server, network, journal, made>>
    BY <1>3 DEF Loaded
  <2> HIDE DEF resource, restored, doc, state
  <2>3. n \in Tab
    BY <1>1, <2>1 DEF Tab
  <2>4. QED
    BY <1>1, <2>2, <2>3, Becomes DEF TypeOK
<1>4. CASE reloadServerDraft(t)
  <2>1. [tab[t] EXCEPT !.page = "reloading", !.fetched = server] \in Tab
    BY <1>1 DEF Tab
  <2>2. QED
    BY <1>1, <1>4, <2>1, Becomes DEF reloadServerDraft, TypeOK
<1>5. CASE Reloaded(t)
  <2> DEFINE lock == tab[t].fetched.lock
             doc == tab[t].fetched.doc
             edited == tab[t].save # "none"
             n == [tab[t] EXCEPT !.page = "open", !.fetched = NoResource, !.lock = lock,
                    !.doc = doc, !.dirty = FALSE, !.state = "saved", !.edited = edited]
  <2>1. lock \in Locks /\ doc \in SUBSET Edits /\ edited \in BOOLEAN
    BY <1>1 DEF Tab, Resource
  <2>2. Become(t, n) /\ UNCHANGED <<server, network, made>>
        /\ journal' = [journal EXCEPT ![BrowserOf[t]] = NoResource]
    BY <1>5 DEF Reloaded
  <2> HIDE DEF lock, doc, edited
  <2>3. n \in Tab
    BY <1>1, <2>1 DEF Tab
  <2>4. QED
    BY <1>1, <2>2, <2>3, Becomes DEF TypeOK
<1>6. CASE LoadFails(t)
  <2> DEFINE page == IF tab[t].page = "loading" THEN "closed" ELSE "open"
             n == [tab[t] EXCEPT !.fetched = NoResource, !.page = page]
  <2>1. Become(t, n) /\ UNCHANGED <<server, network, journal, made>>
    BY <1>1, <1>6 DEF LoadFails, Tab
  <2>2. page \in {"closed", "open"}
    OBVIOUS
  <2> HIDE DEF page
  <2>3. n \in Tab
    BY <1>1, <2>2 DEF Tab
  <2>4. QED
    BY <1>1, <2>1, <2>3, Becomes DEF TypeOK
<1>7. QED
  BY <1>2, <1>3, <1>4, <1>5, <1>6

(* Editing, and each way a save begins, keep the types. *)
LEMMA EditorTypesSaving ==
  ASSUME TypeOK, NEW t \in Tabs,
         \/ \E e \in Edits : handleDocumentChange(t, e)
         \/ JournalTimer(t) \/ AutoSave(t) \/ saveWhenHidden(t) \/ SaveButton(t) \/ publish(t)
  PROVE  TypeOK'
<1> USE DraftEditorAssumption
<1>1. /\ tab[t] \in Tab /\ BrowserOf[t] \in Browsers /\ journal \in [Browsers -> Resource]
      /\ network \subseteq Resource /\ made \subseteq Edits /\ server \in Resource
  BY DEF TypeOK, DraftEditorAssumption
<1>2. ASSUME NEW e \in Edits, handleDocumentChange(t, e)
      PROVE  TypeOK'
  <2> DEFINE doc == tab[t].doc \cup {e}
             edited == tab[t].save # "none"
             n == [tab[t] EXCEPT !.doc = doc, !.dirty = TRUE, !.edited = edited,
                    !.autosave = TRUE, !.journalTimer = TRUE, !.state = "dirty",
                    !.publish = "idle"]
  <2>1. doc \in SUBSET Edits /\ edited \in BOOLEAN
    BY <1>1 DEF Tab
  <2>2. Become(t, n) /\ UNCHANGED <<server, network, journal>> /\ made' \subseteq Edits
    BY <1>1, <1>2 DEF handleDocumentChange
  <2> HIDE DEF doc, edited
  <2>3. n \in Tab
    BY <1>1, <2>1 DEF Tab
  <2>4. QED
    BY <1>1, <2>2, <2>3, Becomes DEF TypeOK
<1>3. CASE JournalTimer(t)
  BY <1>1, <1>3, JournalType, Becomes DEF JournalTimer, TypeOK
<1>4. CASE saveWhenHidden(t)
  <2>1. Saved(Flushed(t), "background") \in Tab
    BY JournalType, SavedFields DEF Callers
  <2>2. QED
    BY <1>1, <1>4, <2>1, JournalType, Becomes DEF saveWhenHidden, TypeOK
<1>5. CASE AutoSave(t) \/ SaveButton(t) \/ publish(t)
  <2>1. PICK c \in Callers : Become(t, Saved(tab[t], c))
    BY <1>5 DEF AutoSave, SaveButton, publish, Callers
  <2>2. Saved(tab[t], c) \in Tab
    BY <1>1, SavedFields
  <2>3. QED
    BY <1>1, <1>5, <2>1, <2>2, Becomes DEF AutoSave, SaveButton, publish, TypeOK
<1>6. QED
  BY <1>2, <1>3, <1>4, <1>5
\* A record of the same tab with a document saved is still a tab.
LEMMA EditorTypesAnswers ==
  ASSUME TypeOK, NEW t \in Tabs,
         \/ HandlePut(t) \/ SaveAnswered(t) \/ PreviewAnswered(t) \/ CleanAnswered(t)
         \/ SaveConflicts(t) \/ SaveFails(t)
  PROVE  TypeOK'
<1> USE DraftEditorAssumption
<1>1. /\ tab[t] \in Tab /\ BrowserOf[t] \in Browsers /\ journal \in [Browsers -> Resource]
      /\ network \subseteq Resource /\ made \subseteq Edits /\ server \in Resource
      /\ NoResource \in Resource
  BY ClosedIsATab DEF TypeOK, DraftEditorAssumption
<1>2. CASE HandlePut(t)
  <2> DEFINE fits == tab[t].sent.lock = server.lock
             lock == server.lock + 1
             answer == IF fits THEN "ok" ELSE "conflict"
             received == IF fits THEN lock ELSE 0
             n == [tab[t] EXCEPT !.answer = answer, !.received = received]
  <2>1. /\ Become(t, n) /\ UNCHANGED <<network, journal, made>>
        /\ server' = IF fits THEN [lock |-> lock, doc |-> tab[t].sent.doc] ELSE server
        /\ fits => server.lock < MaxLock
    BY <1>2 DEF HandlePut
  <2>2. fits => lock \in Locks
    BY <1>1, <2>1 DEF Resource, Locks, DraftEditorAssumption
  <2>3. answer \in {"ok", "conflict"} /\ received \in Locks
    BY <2>2 DEF Locks, DraftEditorAssumption
  <2>4. server' \in Resource
    BY <1>1, <2>1, <2>2 DEF Resource, Tab
  <2> HIDE DEF answer, received
  <2>5. n \in Tab
    BY <1>1, <2>3 DEF Tab
  <2>6. QED
    BY <1>1, <2>1, <2>4, <2>5, Becomes DEF TypeOK
<1>3. CASE SaveAnswered(t)
  <2> DEFINE lock == tab[t].received
             r == [tab[t] EXCEPT !.lock = lock]
  <2>1. lock \in Locks /\ tab[t].save = "put"
    BY <1>1, <1>3 DEF Tab, SaveAnswered
  <2>2. /\ UNCHANGED <<server, network, made>>
        /\ IF r.edited THEN newerEdits(t, r)
           ELSE Become(t, [r EXCEPT !.save = "preview"]) /\ UNCHANGED journal
    BY <1>3 DEF SaveAnswered
  <2>3. r \in Tab /\ r.save # "none"
    BY <1>1, <2>1 DEF Tab
  <2> HIDE DEF r
  <2>4. CASE r.edited
    BY <1>1, <2>2, <2>3, <2>4, NewerEditsFields, Becomes DEF TypeOK
  <2>5. CASE ~r.edited
    <3>1. [r EXCEPT !.save = "preview"] \in Tab
      BY <2>3 DEF Tab
    <3>2. QED
      BY <1>1, <2>2, <2>5, <3>1, Becomes DEF TypeOK
  <2>6. QED
    BY <2>4, <2>5
<1>4. CASE PreviewAnswered(t)
  <2>1. tab[t].save # "none" /\ UNCHANGED <<server, network, made>>
    BY <1>4 DEF PreviewAnswered
  <2>2. CASE tab[t].edited
    <3>1. newerEdits(t, tab[t])
      BY <1>4, <2>2 DEF PreviewAnswered
    <3>2. QED
      BY <1>1, <2>1, <3>1, NewerEditsFields, Becomes DEF TypeOK
  <2>3. CASE ~tab[t].edited
    <3> DEFINE q == [tab[t] EXCEPT !.dirty = FALSE, !.journalTimer = FALSE, !.state = "saved"]
    <3>1. q \in Tab /\ q.save # "none"
      BY <1>1, <2>1 DEF Tab
    <3>2. PICK n \in Succeeded(q) : Become(t, n)
      BY <1>4, <2>3 DEF PreviewAnswered, Become
    <3> HIDE DEF q
    <3>3. n \in Tab
      BY <3>1, <3>2, SucceededFields
    <3>4. journal' = [journal EXCEPT ![BrowserOf[t]] = NoResource]
      BY <1>4, <2>3 DEF PreviewAnswered
    <3>5. QED
      BY <1>1, <2>1, <3>2, <3>3, <3>4, Becomes DEF TypeOK
  <2>4. QED
    BY <2>2, <2>3
<1>5. CASE CleanAnswered(t)
  <2> DEFINE state == IF ~tab[t].edited /\ ~tab[t].dirty THEN "saved" ELSE "dirty"
             q == [tab[t] EXCEPT !.state = state]
  <2>1. state \in {"saved", "dirty"} /\ tab[t].save # "none"
    BY <1>5 DEF CleanAnswered
  <2>2. UNCHANGED <<server, network, journal, made>> /\ \E n \in Succeeded(q) : Become(t, n)
    BY <1>5 DEF CleanAnswered, Become
  <2> HIDE DEF state
  <2>3. q \in Tab /\ q.save # "none"
    BY <1>1, <2>1 DEF Tab
  <2> HIDE DEF q
  <2>4. QED
    BY <1>1, <2>2, <2>3, SucceededFields, Becomes DEF TypeOK
<1>6. CASE SaveConflicts(t) \/ SaveFails(t)
  <2>1. PICK state \in {"conflict", "error"} : Become(t, Failed(tab[t], state))
    BY <1>6 DEF SaveConflicts, SaveFails
  <2>2. Failed(tab[t], state) \in Tab
    BY <1>1, DoneFields DEF Failed, Tab
  <2>3. QED
    BY <1>1, <1>6, <2>1, <2>2, AbandonedType, Becomes DEF SaveConflicts, SaveFails, TypeOK
<1>7. QED
  BY <1>2, <1>3, <1>4, <1>5, <1>6

(* Each step of publishing keeps the types. *)
LEMMA EditorTypesPublishing ==
  ASSUME TypeOK, NEW t \in Tabs,
         preparePublication(t) \/ commitPublication(t) \/ PublishFails(t)
  PROVE  TypeOK'
<1>1. /\ tab[t] \in Tab /\ journal \in [Browsers -> Resource] /\ server \in Resource
      /\ network \subseteq Resource /\ made \subseteq Edits /\ NoResource \in Resource
  BY ClosedIsATab, DraftEditorAssumption DEF TypeOK
<1>2. CASE preparePublication(t)
  <2>1. [tab[t] EXCEPT !.publish = "publishing", !.candidate = server] \in Tab
    BY <1>1 DEF Tab
  <2>2. QED
    BY <1>1, <1>2, <2>1, Becomes DEF preparePublication, TypeOK
<1>3. CASE commitPublication(t) \/ PublishFails(t)
  <2>1. \A p \in {"published", "idle"} :
           [tab[t] EXCEPT !.publish = p, !.candidate = NoResource] \in Tab
    BY <1>1 DEF Tab
  <2>2. QED
    BY <1>1, <1>3, <2>1, Becomes DEF commitPublication, PublishFails, TypeOK
<1>4. QED
  BY <1>2, <1>3

(* Leaving a tab, its crash and what they left on its way keep the types. *)
LEMMA EditorTypesLeaving ==
  ASSUME TypeOK,
         \/ \E t \in Tabs : Unload(t) \/ Crash(t)
         \/ \E m \in network : HandleAbandoned(m)
  PROVE  TypeOK'
<1>1. /\ journal \in [Browsers -> Resource] /\ server \in Resource /\ Closed \in Tab
      /\ network \subseteq Resource /\ made \subseteq Edits /\ tab \in [Tabs -> Tab]
  BY ClosedIsATab, DraftEditorAssumption DEF TypeOK
<1>2. ASSUME NEW t \in Tabs, Unload(t) \/ Crash(t)
      PROVE  TypeOK'
  BY <1>1, <1>2, JournalType, AbandonedType, Becomes DEF Unload, Crash, TypeOK
<1>3. ASSUME NEW m \in network, HandleAbandoned(m)
      PROVE  TypeOK'
  <2> DEFINE lock == server.lock + 1
  <2>1. /\ server' = IF m.lock = server.lock THEN [lock |-> lock, doc |-> m.doc] ELSE server
        /\ m.lock = server.lock => server.lock < MaxLock
        /\ network' \subseteq network /\ UNCHANGED <<journal, tab, made>>
    BY <1>3 DEF HandleAbandoned
  <2>2. m.lock = server.lock => lock \in Locks
    BY <1>1, <2>1, DraftEditorAssumption DEF Resource, Locks, DraftEditorAssumption
  <2> HIDE DEF lock
  <2>3. server' \in Resource
    BY <1>1, <2>1, <2>2 DEF Resource
  <2>4. QED
    BY <1>1, <2>1, <2>3 DEF TypeOK
<1>4. QED
  BY <1>2, <1>3

(* Every step keeps the types. *)
LEMMA EditorTypesStep == TypeOK /\ [Next]_vars => TypeOK'
<1> SUFFICES ASSUME TypeOK, [Next]_vars
             PROVE  TypeOK'
  OBVIOUS
<1>1. ASSUME NEW t \in Tabs, Administrator(t) \/ Timers(t) \/ Answers(t)
      PROVE  TypeOK'
  BY <1>1, EditorTypesLoading, EditorTypesSaving, EditorTypesAnswers, EditorTypesPublishing,
     EditorTypesLeaving DEF Administrator, Timers, Answers
<1>2. CASE \E m \in network : HandleAbandoned(m)
  BY <1>2, EditorTypesLeaving
<1>3. CASE UNCHANGED vars
  BY <1>3 DEF vars, TypeOK
<1>4. QED
  BY <1>1, <1>2, <1>3 DEF Next

\* The server's draft, the journals, the requests and the tabs keep their types, whatever
\* a reload does.
THEOREM EditorTypesAreCorrect == Spec => []TypeOK
BY EditorTypesInit, EditorTypesStep, PTL DEF Spec
-----------------------------------------------------------------------------
(* Tabs are sound: the operators *)

\* A mounted tab that publishes nothing, apart from the save it may have in flight.
Rests(r, s) ==
    /\ r.page \in {"open", "reloading"}
    /\ r.publish \notin {"preparing", "publishing"}
    /\ Names(r.lock, r.doc, s)
    /\ r.page = "reloading" =>
          Names(r.fetched.lock, r.fetched.doc, s) /\ r.fetched.doc \subseteq s.doc
    /\ ~r.dirty => r.doc \subseteq s.doc

\* A save that starts from such a tab.
LEMMA StartedIsSound ==
  ASSUME NEW r \in Tab, NEW s, NEW c \in Callers, NEW w \in SUBSET Callers, Rests(r, s),
         r.page = "reloading" => c = "background" /\ w \subseteq {"background"}
  PROVE  TabIsSound(Started(r, c, w), s)
<1> DEFINE n == Started(r, c, w)
<1>1. /\ n \in Tab
      /\ n.page = r.page /\ n.fetched = r.fetched /\ n.doc = r.doc /\ n.lock = r.lock
      /\ n.dirty = r.dirty /\ n.publish = r.publish /\ n.candidate = r.candidate
      /\ n.save \in {"put", "clean"} /\ n.sent.lock = r.lock /\ n.sent.doc = r.doc
      /\ ~n.edited /\ ~n.autosave /\ n.answer = "none" /\ n.state = "saving"
      /\ n.owner = c /\ n.waiting = w
  BY StartedFields
<1> HIDE DEF n
<1>2. DocumentsAreNamed(n, s)
  BY <1>1 DEF DocumentsAreNamed, Rests
<1>3. FieldsAgree(n)
  BY <1>1 DEF FieldsAgree, Rests
<1>4. TabIsSound(n, s)
  BY <1>1, <1>2, <1>3 DEF TabIsSound, Rests
<1>5. QED
  BY <1>4 DEF n

\* The end of a save, and what its callers wait for.
LEMMA DoneRests ==
  ASSUME NEW r \in Tab, NEW s, Rests(r, s)
  PROVE  Rests(Done(r), s)
BY DoneFields, DraftEditorAssumption DEF Rests

(* A save that ends leaves its tab sound. *)
LEMMA DoneIsSound ==
  ASSUME NEW r \in Tab, NEW s, Rests(r, s)
  PROVE  TabIsSound(Done(r), s)
<1> DEFINE n == Done(r)
<1>1. /\ n \in Tab
      /\ n.page = r.page /\ n.fetched = r.fetched /\ n.doc = r.doc /\ n.lock = r.lock
      /\ n.dirty = r.dirty /\ n.publish = r.publish /\ n.save = "none"
  BY DoneFields, DraftEditorAssumption
<1> HIDE DEF n
<1>2. TabIsSound(n, s)
  BY <1>1 DEF TabIsSound, DocumentsAreNamed, FieldsAgree, Rests
<1>3. QED
  BY <1>2 DEF n

(* A save that fails, or conflicts, leaves its tab sound. *)
LEMMA FailedIsSound ==
  ASSUME NEW r \in Tab, NEW s, Rests(r, s), NEW state \in {"conflict", "error"}
  PROVE  TabIsSound(Failed(r, state), s)
<1> DEFINE q == Done(r)
           n == [q EXCEPT !.state = state]
<1>1. q \in Tab /\ q.save = "none" /\ q.publish \notin {"preparing", "publishing"}
      /\ q.page \in {"open", "reloading"}
  BY DoneFields, DraftEditorAssumption DEF Rests
<1>2. TabIsSound(q, s)
  BY DoneIsSound
<1>3. Failed(r, state) = n
  BY DEF Failed
<1> HIDE DEF q
<1>4. /\ n.page = q.page /\ n.fetched = q.fetched /\ n.doc = q.doc /\ n.lock = q.lock
      /\ n.dirty = q.dirty /\ n.publish = q.publish /\ n.save = q.save /\ n.sent = q.sent
      /\ n.candidate = q.candidate
  BY <1>1 DEF Tab
<1> HIDE DEF n
<1>5. TabIsSound(n, s)
  BY <1>1, <1>2, <1>4 DEF TabIsSound, DocumentsAreNamed, FieldsAgree
<1>6. QED
  BY <1>3, <1>5

\* After a success: the next save starts from what is on the screen, or a publication starts
\* from a document that is saved.
LEMMA SucceededIsSound ==
  ASSUME NEW r \in Tab, NEW s, Rests(r, s), r.save # "none", NEW n \in Succeeded(r),
         r.page = "reloading" => r.owner = "background" /\ r.waiting \subseteq {"background"},
         ~r.dirty => ~r.autosave, r.state # "conflict"
  PROVE  TabIsSound(n, s)
<1>1. Done(r) \in Tab /\ Rests(Done(r), s) /\ Done(r).page = r.page
  BY DoneRests, DoneFields, DraftEditorAssumption
<1>2. Again(r) \subseteq Callers
  BY DEF Again, Tab, Flushing, Callers
<1>3. ASSUME NEW c \in Again(r), n = Started(Done(r), c, Again(r) \ {c})
      PROVE  TabIsSound(n, s)
  <2>1. r.page = "reloading" => Again(r) \subseteq {"background"}
    BY DEF Again, Flushing
  <2>2. c \in Callers /\ Again(r) \ {c} \in SUBSET Callers
    BY <1>2
  <2>3. Done(r).page = "reloading" => c = "background" /\ Again(r) \ {c} \subseteq {"background"}
    BY <1>1, <1>3, <2>1
  <2>4. QED
    BY <1>1, <1>3, <2>2, <2>3, StartedIsSound
<1>4. CASE /\ ~r.dirty \/ Again(r) = {}
           /\ n = Continued(Done(r), {r.owner} \cup r.waiting)
  <2>1. CASE "publish" \notin {r.owner} \cup r.waiting
    BY <1>4, <2>1, DoneIsSound DEF Continued
  <2>2. CASE "publish" \in {r.owner} \cup r.waiting
    <3> DEFINE q == Done(r)
               m == [q EXCEPT !.publish = "preparing"]
    <3>1. ~r.dirty /\ ~r.autosave /\ r.page = "open"
      BY <1>4, <2>2 DEF Again, Flushing, Rests
    <3>2. /\ q \in Tab /\ q.save = "none" /\ ~q.dirty /\ ~q.autosave /\ q.page = "open"
          /\ q.state # "conflict"
      BY <3>1, DoneFields, DraftEditorAssumption
    <3>3. TabIsSound(q, s)
      BY DoneIsSound
    <3>4. n = m
      BY <1>4, <2>2 DEF Continued
    <3> HIDE DEF q
    <3>5. /\ m.page = q.page /\ m.fetched = q.fetched /\ m.doc = q.doc /\ m.lock = q.lock
          /\ m.dirty = q.dirty /\ m.save = q.save /\ m.sent = q.sent
          /\ m.autosave = q.autosave /\ m.state = q.state /\ m.publish = "preparing"
      BY <3>2 DEF Tab
    <3> HIDE DEF m
    <3>6. TabIsSound(m, s)
      BY <3>2, <3>3, <3>5 DEF TabIsSound, DocumentsAreNamed, FieldsAgree
    <3>7. QED
      BY <3>4, <3>6
  <2>3. QED
    BY <2>1, <2>2
<1>5. QED
  BY <1>3, <1>4, SucceededFields, DraftEditorAssumption

\* Whoever asks for a save starts one, or waits for the one in flight.
LEMMA SavedIsSound ==
  ASSUME NEW r \in Tab, NEW s, TabIsSound(r, s), NEW c \in Callers,
         r.page \in {"open", "reloading"}, r.publish \notin {"preparing", "publishing"},
         r.page = "reloading" => c = "background"
  PROVE  TabIsSound(Saved(r, c), s)
<1>1. Rests(r, s)
  BY DEF Rests, TabIsSound, DocumentsAreNamed
<1>2. CASE r.save = "none"
  <2>1. {} \in SUBSET Callers
    OBVIOUS
  <2>2. TabIsSound(Started(r, c, {}), s)
    BY <1>1, <2>1, StartedIsSound
  <2>3. QED
    BY <1>2, <2>2 DEF Saved
<1>3. CASE r.save # "none"
  <2> DEFINE w == r.waiting \cup {c}
             n == [r EXCEPT !.waiting = w, !.autosave = FALSE]
  <2>1. Saved(r, c) = n
    BY <1>3 DEF Saved
  <2>2. w \subseteq Callers /\ (r.page = "reloading" /\ r.waiting \subseteq {"background"}
                                => w \subseteq {"background"})
    BY DEF Tab
  <2> HIDE DEF w
  <2>3. /\ n.page = r.page /\ n.fetched = r.fetched /\ n.doc = r.doc /\ n.lock = r.lock
        /\ n.dirty = r.dirty /\ n.publish = r.publish /\ n.save = r.save /\ n.sent = r.sent
        /\ n.edited = r.edited /\ n.owner = r.owner /\ n.waiting = w /\ ~n.autosave
        /\ n.answer = r.answer /\ n.received = r.received /\ n.state = r.state
        /\ n.candidate = r.candidate
    BY DEF Tab
  <2> HIDE DEF n
  <2>4. TabIsSound(n, s)
    BY <1>3, <2>2, <2>3 DEF TabIsSound, DocumentsAreNamed, FieldsAgree
  <2>5. QED
    BY <2>1, <2>4
<1>4. QED
  BY <1>2, <1>3
-----------------------------------------------------------------------------
(* Tabs are sound: the steps *)

\* The steps of one tab that leave the server's draft as it is.
LEMMA TabStep ==
  ASSUME TypeOK, EditorsAreSound, NEW t \in Tabs, NEW n \in Tab, Become(t, n),
         TabIsSound(n, server), server' = server,
         \A m \in network' : m \in network \/ Names(m.lock, m.doc, server),
         \A b \in Browsers : \/ journal'[b] = journal[b]
                             \/ Names(journal'[b].lock, journal'[b].doc, server)
  PROVE  EditorsAreSound'
<1>1. \A u \in Tabs : TabIsSound(tab'[u], server)
  BY Becomes DEF EditorsAreSound
<1>2. QED
  BY <1>1 DEF EditorsAreSound

\* A new lock version of the server's, with all it had: nobody holds it yet.
LEMMA ServerMoves ==
  ASSUME NEW r \in Tab, NEW s \in Resource, NEW next \in Resource, next.lock > s.lock,
         s.doc \subseteq next.doc, TabIsSound(r, s)
  PROVE  TabIsSound(r, next)
<1>1. \A lock \in Locks, doc \in SUBSET Edits : Names(lock, doc, s) => Names(lock, doc, next)
  BY DraftEditorAssumption DEF Names, Resource, Locks, DraftEditorAssumption
<1>2. /\ r.lock \in Locks /\ r.doc \in SUBSET Edits /\ r.fetched.lock \in Locks
      /\ r.fetched.doc \in SUBSET Edits /\ r.sent.lock \in Locks /\ r.sent.doc \in SUBSET Edits
      /\ r.received \in Locks
  BY DEF Tab, Resource
<1>3. DocumentsAreNamed(r, next)
  BY <1>1, <1>2 DEF TabIsSound, DocumentsAreNamed
<1>4. QED
  BY <1>3 DEF TabIsSound

(* The lock of a tab that read nothing names no document: a closed tab is sound. *)
LEMMA NothingIsNamed ==
  ASSUME TypeOK, server.lock > 0
  PROVE  /\ Names(0, {}, server)
         /\ Names(NoResource.lock, NoResource.doc, server)
         /\ TabIsSound(Closed, server)
<1>1. server.lock \in Nat
  BY DraftEditorAssumption DEF TypeOK, Resource, Locks, DraftEditorAssumption
<1>2. Names(0, {}, server)
  BY <1>1 DEF Names
<1>3. NoResource.lock = 0 /\ NoResource.doc = {}
  BY DEF NoResource
<1>4. /\ Closed.page = "closed" /\ Closed.lock = 0 /\ Closed.doc = {} /\ ~Closed.dirty
      /\ Closed.save = "none" /\ ~Closed.autosave /\ Closed.publish = "idle"
  BY DEF Closed
<1>5. TabIsSound(Closed, server)
  BY <1>2, <1>4 DEF TabIsSound, DocumentsAreNamed, FieldsAgree
<1>6. QED
  BY <1>2, <1>3, <1>5

(* Before a tab opens the draft every tab is sound. *)
LEMMA EditorsInit == Init => EditorsAreSound
<1> SUFFICES ASSUME Init
             PROVE  EditorsAreSound
  OBVIOUS
<1>1. TypeOK /\ server.lock > 0
  BY EditorTypesInit DEF Init
<1>2. QED
  BY <1>1, NothingIsNamed DEF Init, EditorsAreSound

\* A page is asked for, shown with the journal of its lock version, or asked for again.
LEMMA LoadingKeepsSound ==
  ASSUME TypeOK, EditorsAreSound, ~LateReloads, NEW t \in Tabs,
         \/ Open(t) \/ Loaded(t) \/ reloadServerDraft(t) \/ Reloaded(t) \/ LoadFails(t)
  PROVE  EditorsAreSound'
<1>1. /\ tab[t] \in Tab /\ server \in Resource /\ NoResource \in Resource /\ Closed \in Tab
      /\ BrowserOf[t] \in Browsers /\ journal \in [Browsers -> Resource]
      /\ TabIsSound(tab[t], server) /\ server.lock > 0
  BY ClosedIsATab, DraftEditorAssumption DEF TypeOK, DraftEditorAssumption, EditorsAreSound
<1>2. Names(server.lock, server.doc, server)
  BY <1>1, DraftEditorAssumption DEF Names, Resource, Locks, DraftEditorAssumption
<1>3. CASE Open(t)
  <2> DEFINE n == [Closed EXCEPT !.page = "loading", !.fetched = server]
  <2>1. n \in Tab
    BY <1>1 DEF Tab
  <2>2. /\ n.page = "loading" /\ n.fetched = server /\ n.lock = 0 /\ n.doc = {} /\ ~n.dirty
        /\ n.save = "none" /\ ~n.autosave /\ n.publish = "idle"
    BY DEF Closed
  <2>3. Become(t, n) /\ UNCHANGED <<server, network, journal, made>>
    BY <1>3 DEF Open
  <2> HIDE DEF n
  <2>4. TabIsSound(n, server)
    BY <1>1, <1>2, <2>2, NothingIsNamed DEF TabIsSound, DocumentsAreNamed, FieldsAgree
  <2>5. QED
    BY <2>1, <2>3, <2>4, TabStep
<1>4. CASE Loaded(t)
  <2> DEFINE b == BrowserOf[t]
             resource == tab[t].fetched
             restored == readDraftJournal(b, resource.lock)
             doc == IF restored THEN journal[b].doc ELSE resource.doc
             state == IF restored THEN "dirty" ELSE "saved"
             n == [Closed EXCEPT !.page = "open", !.lock = resource.lock, !.doc = doc,
                                 !.dirty = restored, !.state = state]
  <2>1. Become(t, n) /\ UNCHANGED <<server, network, journal, made>> /\ tab[t].page = "loading"
    BY <1>4 DEF Loaded
  <2>2. Names(resource.lock, resource.doc, server) /\ resource.doc \subseteq server.doc
    BY <1>1, <2>1 DEF TabIsSound, DocumentsAreNamed
  <2>3. Names(resource.lock, doc, server) /\ (~restored => doc \subseteq server.doc)
    BY <1>1, <2>2 DEF readDraftJournal, EditorsAreSound
  <2>4. resource.lock \in Locks /\ doc \in SUBSET Edits /\ restored \in BOOLEAN
        /\ state \in {"saved", "dirty"}
    BY <1>1 DEF Tab, Resource, readDraftJournal
  <2> HIDE DEF resource, restored, doc, state
  <2>5. n \in Tab
    BY <1>1, <2>4 DEF Tab
  <2>6. /\ n.page = "open" /\ n.lock = resource.lock /\ n.doc = doc /\ n.dirty = restored
        /\ n.save = "none" /\ n.publish = "idle"
    BY DEF Closed
  <2> HIDE DEF n
  <2>7. TabIsSound(n, server)
    BY <2>3, <2>6 DEF TabIsSound, DocumentsAreNamed, FieldsAgree
  <2>8. QED
    BY <2>1, <2>5, <2>7, TabStep
<1>5. CASE reloadServerDraft(t)
  <2> DEFINE n == [tab[t] EXCEPT !.page = "reloading", !.fetched = server]
  <2>1. n \in Tab
    BY <1>1 DEF Tab
  <2>2. /\ Become(t, n) /\ UNCHANGED <<server, network, journal, made>>
        /\ tab[t].page = "open" /\ tab[t].state = "conflict"
    BY <1>5 DEF reloadServerDraft
  <2>3. tab[t].save = "none" /\ tab[t].publish \notin {"preparing", "publishing"}
    BY <1>1, <2>2 DEF TabIsSound, FieldsAgree
  <2>4. /\ n.page = "reloading" /\ n.fetched = server /\ n.lock = tab[t].lock
        /\ n.doc = tab[t].doc /\ n.dirty = tab[t].dirty /\ n.save = "none"
        /\ n.publish = tab[t].publish
    BY <1>1, <2>3 DEF Tab
  <2> HIDE DEF n
  <2>5. TabIsSound(n, server)
    BY <1>1, <1>2, <2>3, <2>4 DEF TabIsSound, DocumentsAreNamed, FieldsAgree
  <2>6. QED
    BY <2>1, <2>2, <2>5, TabStep
<1>6. CASE Reloaded(t)
  <2> DEFINE lock == tab[t].fetched.lock
             doc == tab[t].fetched.doc
             n == [tab[t] EXCEPT !.page = "open", !.fetched = NoResource, !.lock = lock,
                    !.doc = doc, !.dirty = FALSE, !.state = "saved", !.edited = FALSE]
  <2>1. tab[t].page = "reloading" /\ tab[t].save = "none"
    BY <1>6 DEF Reloaded
  <2>2. Become(t, n) /\ UNCHANGED <<server, network, made>>
        /\ journal' = [journal EXCEPT ![BrowserOf[t]] = NoResource]
    BY <1>6, <2>1 DEF Reloaded
  <2>3. Names(lock, doc, server) /\ doc \subseteq server.doc
        /\ tab[t].publish \notin {"preparing", "publishing"}
    BY <1>1, <2>1 DEF TabIsSound, DocumentsAreNamed, FieldsAgree
  <2>4. lock \in Locks /\ doc \in SUBSET Edits
    BY <1>1 DEF Tab, Resource
  <2> HIDE DEF lock, doc
  <2>5. n \in Tab
    BY <1>1, <2>4 DEF Tab
  <2>6. /\ n.page = "open" /\ n.lock = lock /\ n.doc = doc /\ ~n.dirty /\ n.save = "none"
        /\ n.publish = tab[t].publish
    BY <1>1, <2>1 DEF Tab
  <2> HIDE DEF n
  <2>7. TabIsSound(n, server)
    BY <2>3, <2>6 DEF TabIsSound, DocumentsAreNamed, FieldsAgree
  <2>8. \A b \in Browsers : \/ journal'[b] = journal[b]
                            \/ Names(journal'[b].lock, journal'[b].doc, server)
    BY <1>1, <2>2, NothingIsNamed
  <2>9. QED
    BY <2>2, <2>5, <2>7, <2>8, TabStep
<1>7. CASE LoadFails(t)
  <2> DEFINE page == IF tab[t].page = "loading" THEN "closed" ELSE "open"
             n == [tab[t] EXCEPT !.fetched = NoResource, !.page = page]
  <2>1. Become(t, n) /\ UNCHANGED <<server, network, journal, made>>
    BY <1>1, <1>7 DEF LoadFails, Tab
  <2>2. \/ tab[t].page = "loading" /\ page = "closed"
        \/ tab[t].page = "reloading" /\ page = "open"
    BY <1>7 DEF LoadFails
  <2> HIDE DEF page
  <2>3. n \in Tab
    BY <1>1, <2>2 DEF Tab
  <2>4. /\ n.page = page /\ n.lock = tab[t].lock /\ n.doc = tab[t].doc
        /\ n.dirty = tab[t].dirty /\ n.save = tab[t].save /\ n.sent = tab[t].sent
        /\ n.edited = tab[t].edited /\ n.autosave = tab[t].autosave
        /\ n.answer = tab[t].answer /\ n.received = tab[t].received
        /\ n.state = tab[t].state /\ n.publish = tab[t].publish
        /\ n.owner = tab[t].owner /\ n.waiting = tab[t].waiting
    BY <1>1 DEF Tab
  <2> HIDE DEF n
  <2>5. TabIsSound(n, server)
    BY <1>1, <2>2, <2>4 DEF TabIsSound, DocumentsAreNamed, FieldsAgree
  <2>6. QED
    BY <2>1, <2>3, <2>5, TabStep
<1>8. QED
  BY <1>3, <1>4, <1>5, <1>6, <1>7
\* The journal gets the document on the screen with the lock version of the tab.
LEMMA JournalIsNamed ==
  ASSUME TypeOK, EditorsAreSound, NEW t \in Tabs, journal' = Journal(t)
  PROVE  \A b \in Browsers : \/ journal'[b] = journal[b]
                             \/ Names(journal'[b].lock, journal'[b].doc, server)
<1> DEFINE kept == [lock |-> tab[t].lock, doc |-> tab[t].doc]
<1>1. kept.lock = tab[t].lock /\ kept.doc = tab[t].doc
  OBVIOUS
<1>2. Names(kept.lock, kept.doc, server)
  BY <1>1 DEF EditorsAreSound, TabIsSound, DocumentsAreNamed
<1>3. journal' = journal \/ journal' = [journal EXCEPT ![BrowserOf[t]] = kept]
  BY DEF Journal
<1> HIDE DEF kept
<1>4. \A b \in Browsers : journal'[b] = journal[b] \/ journal'[b] = kept
  BY <1>3 DEF TypeOK
<1>5. QED
  BY <1>2, <1>4

\* An edit, and whatever saves: the journal, the timer, the hidden page and the buttons.
LEMMA SavingKeepsSound ==
  ASSUME TypeOK, EditorsAreSound, NEW t \in Tabs,
         \/ \E e \in Edits : handleDocumentChange(t, e)
         \/ JournalTimer(t) \/ AutoSave(t) \/ saveWhenHidden(t) \/ SaveButton(t) \/ publish(t)
  PROVE  EditorsAreSound'
<1>1. tab[t] \in Tab /\ TabIsSound(tab[t], server)
  BY DEF TypeOK, EditorsAreSound
<1>2. ASSUME NEW e \in Edits, handleDocumentChange(t, e)
      PROVE  EditorsAreSound'
  <2> DEFINE doc == tab[t].doc \cup {e}
             edited == tab[t].save # "none"
             n == [tab[t] EXCEPT !.doc = doc, !.dirty = TRUE, !.edited = edited,
                    !.autosave = TRUE, !.journalTimer = TRUE, !.state = "dirty",
                    !.publish = "idle"]
  <2>1. doc \in SUBSET Edits /\ edited \in BOOLEAN /\ tab[t].doc \subseteq doc
        /\ (edited <=> tab[t].save # "none")
    BY <1>1 DEF Tab
  <2>2. Become(t, n) /\ UNCHANGED <<server, network, journal>> /\ tab[t].page = "open"
    BY <1>2 DEF handleDocumentChange, Locked
  <2> HIDE DEF doc, edited
  <2>3. n \in Tab
    BY <1>1, <2>1 DEF Tab
  <2>4. /\ n.page = "open" /\ n.lock = tab[t].lock /\ n.doc = doc /\ n.dirty
        /\ n.save = tab[t].save /\ n.sent = tab[t].sent /\ n.edited = edited
        /\ n.answer = tab[t].answer /\ n.received = tab[t].received
        /\ n.state = "dirty" /\ n.publish = "idle"
    BY <1>1, <2>2 DEF Tab
  <2> HIDE DEF n
  <2>5. Names(n.lock, n.doc, server)
    BY <1>1, <2>1, <2>4 DEF TabIsSound, DocumentsAreNamed, Names
  <2>6. TabIsSound(n, server)
    BY <1>1, <2>1, <2>4, <2>5 DEF TabIsSound, DocumentsAreNamed, FieldsAgree
  <2>7. QED
    BY <2>2, <2>3, <2>6, TabStep
<1>3. ASSUME JournalTimer(t) \/ saveWhenHidden(t)
      PROVE  /\ Flushed(t) \in Tab /\ TabIsSound(Flushed(t), server)
             /\ Flushed(t).page = tab[t].page /\ Flushed(t).dirty = tab[t].dirty
             /\ Flushed(t).publish = tab[t].publish
  <2> DEFINE n == [tab[t] EXCEPT !.journalTimer = FALSE]
  <2>1. n \in Tab /\ Flushed(t) = n
    BY <1>1 DEF Tab, Flushed
  <2>2. /\ n.page = tab[t].page /\ n.fetched = tab[t].fetched /\ n.lock = tab[t].lock
        /\ n.doc = tab[t].doc /\ n.dirty = tab[t].dirty /\ n.save = tab[t].save
        /\ n.sent = tab[t].sent /\ n.edited = tab[t].edited /\ n.autosave = tab[t].autosave
        /\ n.answer = tab[t].answer /\ n.received = tab[t].received
        /\ n.state = tab[t].state /\ n.publish = tab[t].publish
        /\ n.owner = tab[t].owner /\ n.waiting = tab[t].waiting
        /\ n.candidate = tab[t].candidate
    BY <1>1 DEF Tab
  <2> HIDE DEF n
  <2>3. TabIsSound(n, server)
    BY <1>1, <2>2 DEF TabIsSound, DocumentsAreNamed, FieldsAgree
  <2>4. QED
    BY <2>1, <2>2, <2>3
<1>4. CASE JournalTimer(t)
  BY <1>3, <1>4, JournalIsNamed, TabStep DEF JournalTimer
<1>5. CASE saveWhenHidden(t)
  <2>1. /\ tab[t].dirty /\ tab[t].page \in {"open", "reloading"}
        /\ Become(t, Saved(Flushed(t), "background")) /\ journal' = Journal(t)
        /\ UNCHANGED <<server, network>>
    BY <1>5 DEF saveWhenHidden, Mounted
  <2>2. tab[t].publish \notin {"preparing", "publishing"}
    BY <1>1, <2>1 DEF TabIsSound, FieldsAgree
  <2>3. "background" \in Callers
    BY DEF Callers
  <2>4. TabIsSound(Saved(Flushed(t), "background"), server)
        /\ Saved(Flushed(t), "background") \in Tab
    BY <1>3, <1>5, <2>1, <2>2, <2>3, SavedIsSound, SavedFields
  <2>5. QED
    BY <2>1, <2>4, JournalIsNamed, TabStep
<1>6. CASE AutoSave(t) \/ SaveButton(t) \/ publish(t)
  <2>1. /\ tab[t].page \in {"open", "reloading"}
        /\ tab[t].publish \notin {"preparing", "publishing"}
    BY <1>1, <1>6 DEF AutoSave, SaveButton, publish, Locked, TabIsSound, FieldsAgree, Tab
  <2>2. PICK c \in Callers : /\ Become(t, Saved(tab[t], c))
                             /\ tab[t].page = "reloading" => c = "background"
    BY <1>6 DEF AutoSave, SaveButton, publish, Callers, Locked
  <2>3. TabIsSound(Saved(tab[t], c), server) /\ Saved(tab[t], c) \in Tab
    BY <1>1, <2>1, <2>2, SavedIsSound, SavedFields
  <2>4. UNCHANGED <<server, network, journal>>
    BY <1>6 DEF AutoSave, SaveButton, publish
  <2>5. QED
    BY <2>2, <2>3, <2>4, TabStep
<1>7. QED
  BY <1>2, <1>4, <1>5, <1>6

\* A save the server accepts starts from all it has: nothing is lost and everybody else is
\* behind.
LEMMA AcceptedKeepsSound ==
  ASSUME TypeOK, TypeOK', EditorsAreSound, NEW lock \in Locks, NEW doc \in SUBSET Edits,
         Names(lock, doc, server),
         server' = IF lock = server.lock THEN [lock |-> server.lock + 1, doc |-> doc]
                   ELSE server,
         network' \subseteq network, journal' = journal
  PROVE  /\ server.doc \subseteq server'.doc
         /\ \A r \in Tab : TabIsSound(r, server) => TabIsSound(r, server')
         /\ server'.lock > 0
         /\ \A m \in network' : Names(m.lock, m.doc, server')
         /\ \A b \in Browsers : Names(journal'[b].lock, journal'[b].doc, server')
<1>1. server \in Resource /\ server' \in Resource /\ server.lock > 0
      /\ network \subseteq Resource /\ journal \in [Browsers -> Resource]
  BY DEF TypeOK, EditorsAreSound
<1>2. CASE lock # server.lock
  BY <1>1, <1>2 DEF EditorsAreSound
<1>3. CASE lock = server.lock
  <2>1. server'.lock = server.lock + 1 /\ server'.doc = doc
    BY <1>3
  <2>2. server'.lock > server.lock /\ server'.lock > 0
    BY <1>1, <2>1, DraftEditorAssumption DEF Resource, Locks, DraftEditorAssumption
  <2>3. server.doc \subseteq server'.doc
    BY <1>3, <2>1 DEF Names
  <2>4. \A r \in Tab : TabIsSound(r, server) => TabIsSound(r, server')
    BY <1>1, <2>2, <2>3, ServerMoves
  <2>5. \A m \in Resource : Names(m.lock, m.doc, server) => Names(m.lock, m.doc, server')
    BY <1>1, <2>2, DraftEditorAssumption DEF Names, Resource, Locks, DraftEditorAssumption
  <2>6. QED
    BY <1>1, <2>2, <2>3, <2>4, <2>5 DEF EditorsAreSound
<1>4. QED
  BY <1>2, <1>3
\* The server handles a save, of a tab that waits for the answer or of one that does not.
LEMMA PutKeepsSound ==
  ASSUME TypeOK, TypeOK', EditorsAreSound, NEW t \in Tabs, HandlePut(t)
  PROVE  EditorsAreSound' /\ server.doc \subseteq server'.doc
<1> DEFINE sent == tab[t].sent
           fits == sent.lock = server.lock
           answer == IF fits THEN "ok" ELSE "conflict"
           received == IF fits THEN server.lock + 1 ELSE 0
           n == [tab[t] EXCEPT !.answer = answer, !.received = received]
<1>1. tab[t] \in Tab /\ TabIsSound(tab[t], server) /\ server' \in Resource
  BY DEF TypeOK, EditorsAreSound
<1>2. /\ tab[t].save = "put" /\ Become(t, n) /\ UNCHANGED <<network, journal, made>>
      /\ server' = IF fits THEN [lock |-> server.lock + 1, doc |-> sent.doc] ELSE server
  BY DEF HandlePut
<1>3. sent.lock \in Locks /\ sent.doc \in SUBSET Edits /\ Names(sent.lock, sent.doc, server)
  BY <1>1, <1>2 DEF Tab, Resource, TabIsSound, DocumentsAreNamed
<1>4. /\ server.doc \subseteq server'.doc
      /\ \A r \in Tab : TabIsSound(r, server) => TabIsSound(r, server')
      /\ server'.lock > 0
      /\ \A m \in network' : Names(m.lock, m.doc, server')
      /\ \A b \in Browsers : Names(journal'[b].lock, journal'[b].doc, server')
  BY <1>2, <1>3, AcceptedKeepsSound
<1>5. answer = "ok" => received = server'.lock /\ sent.doc = server'.doc
  BY <1>2
<1>6. Names(server'.lock, server'.doc, server')
  BY <1>1, DraftEditorAssumption DEF Names, Resource, Locks, DraftEditorAssumption
<1> HIDE DEF answer, received, fits
<1>7. /\ n.page = tab[t].page /\ n.fetched = tab[t].fetched /\ n.lock = tab[t].lock
      /\ n.doc = tab[t].doc /\ n.dirty = tab[t].dirty /\ n.save = "put"
      /\ n.sent = sent /\ n.edited = tab[t].edited /\ n.autosave = tab[t].autosave
      /\ n.answer = answer /\ n.received = received
      /\ n.state = tab[t].state /\ n.publish = tab[t].publish
      /\ n.owner = tab[t].owner /\ n.waiting = tab[t].waiting
      /\ n.candidate = tab[t].candidate
  BY <1>1, <1>2 DEF Tab
<1> HIDE DEF n, sent
<1>8. TabIsSound(tab[t], server')
  BY <1>1, <1>4
<1>9. TabIsSound(n, server')
  BY <1>2, <1>5, <1>6, <1>7, <1>8 DEF sent, TabIsSound, DocumentsAreNamed, FieldsAgree
<1>10. tab'[t] = n /\ \A u \in Tabs \ {t} : tab'[u] = tab[u]
  BY <1>2 DEF Become, TypeOK
<1>11. \A u \in Tabs : TabIsSound(tab'[u], server')
  BY <1>4, <1>9, <1>10 DEF EditorsAreSound, TypeOK
<1>12. QED
  BY <1>4, <1>11 DEF EditorsAreSound

(* A write that arrives after its tab was left keeps what is sound. *)
LEMMA AbandonedKeepsSound ==
  ASSUME TypeOK, TypeOK', EditorsAreSound, NEW m \in network, HandleAbandoned(m)
  PROVE  EditorsAreSound' /\ server.doc \subseteq server'.doc
<1>1. /\ server' = IF m.lock = server.lock THEN [lock |-> server.lock + 1, doc |-> m.doc]
                   ELSE server
      /\ network' \subseteq network /\ UNCHANGED <<journal, tab, made>>
  BY DEF HandleAbandoned
<1>2. m.lock \in Locks /\ m.doc \in SUBSET Edits /\ Names(m.lock, m.doc, server)
  BY DEF TypeOK, Resource, EditorsAreSound
<1>3. /\ server.doc \subseteq server'.doc
      /\ \A r \in Tab : TabIsSound(r, server) => TabIsSound(r, server')
      /\ server'.lock > 0
      /\ \A q \in network' : Names(q.lock, q.doc, server')
      /\ \A b \in Browsers : Names(journal'[b].lock, journal'[b].doc, server')
  BY <1>1, <1>2, AcceptedKeepsSound
<1>4. \A u \in Tabs : TabIsSound(tab'[u], server')
  BY <1>1, <1>3 DEF EditorsAreSound, TypeOK
<1>5. QED
  BY <1>3, <1>4 DEF EditorsAreSound

\* The end of a save that was accepted while edits went on: they are dirty, and the journal
\* has them under the lock version received.
LEMMA NewerEditsKeepSound ==
  ASSUME TypeOK, EditorsAreSound, NEW t \in Tabs, NEW r \in Tab, newerEdits(t, r),
         Rests(r, server), r.save # "none", r.dirty, UNCHANGED <<server, network>>,
         r.page = "reloading" => r.owner = "background" /\ r.waiting \subseteq {"background"},
         Names(r.received, r.doc, server)
  PROVE  EditorsAreSound'
<1> DEFINE q == [r EXCEPT !.journalTimer = FALSE, !.state = "dirty"]
<1>1. PICK n \in Tab : n \in Succeeded(q) /\ Become(t, n)
  BY NewerEditsFields
<1>2. /\ q \in Tab /\ q.page = r.page /\ q.fetched = r.fetched /\ q.lock = r.lock
      /\ q.doc = r.doc /\ q.dirty = r.dirty /\ q.save = r.save /\ q.publish = r.publish
      /\ q.owner = r.owner /\ q.waiting = r.waiting /\ q.state = "dirty"
  BY DEF Tab
<1> HIDE DEF q
<1>3. Rests(q, server)
  BY <1>2 DEF Rests
<1>4. TabIsSound(n, server)
  BY <1>1, <1>2, <1>3, SucceededIsSound
<1>5. \A b \in Browsers : \/ journal'[b] = journal[b]
                          \/ Names(journal'[b].lock, journal'[b].doc, server)
  BY NewerEditsFields
<1>6. QED
  BY <1>1, <1>4, <1>5, TabStep

(* The answers of a save, of any kind, keep what is sound. *)
LEMMA AnswersKeepSound ==
  ASSUME TypeOK, EditorsAreSound, NEW t \in Tabs,
         \/ SaveAnswered(t) \/ PreviewAnswered(t) \/ CleanAnswered(t)
         \/ SaveConflicts(t) \/ SaveFails(t)
  PROVE  EditorsAreSound'
<1>1. /\ tab[t] \in Tab /\ TabIsSound(tab[t], server) /\ tab[t].save # "none"
      /\ server' = server /\ server.lock > 0
  BY DEF TypeOK, EditorsAreSound, SaveAnswered, PreviewAnswered, CleanAnswered, SaveConflicts,
         SaveFails
<1>2. Rests(tab[t], server)
  BY <1>1 DEF Rests, TabIsSound, DocumentsAreNamed, FieldsAgree, Tab
<1>3. tab[t].page = "reloading"
        => tab[t].owner = "background" /\ tab[t].waiting \subseteq {"background"}
  BY <1>1 DEF TabIsSound, FieldsAgree
<1>4. (tab[t].save = "preview" \/ (tab[t].save = "put" /\ tab[t].answer = "ok"))
      => /\ Names(tab[t].received, tab[t].sent.doc, server)
         /\ tab[t].sent.doc \subseteq server.doc
         /\ Names(tab[t].received, tab[t].doc, server)
  BY <1>1 DEF TabIsSound, DocumentsAreNamed, FieldsAgree, Names
<1>5. CASE SaveAnswered(t)
  <2> DEFINE lock == tab[t].received
             r == [tab[t] EXCEPT !.lock = lock]
  <2>1. lock \in Locks /\ tab[t].save = "put" /\ tab[t].answer = "ok"
    BY <1>1, <1>5 DEF Tab, SaveAnswered
  <2>2. /\ UNCHANGED <<server, network, made>>
        /\ IF r.edited THEN newerEdits(t, r)
           ELSE Become(t, [r EXCEPT !.save = "preview"]) /\ UNCHANGED journal
    BY <1>5 DEF SaveAnswered
  <2>3. /\ r \in Tab /\ r.page = tab[t].page /\ r.fetched = tab[t].fetched /\ r.lock = lock
        /\ r.doc = tab[t].doc /\ r.dirty = tab[t].dirty /\ r.save = tab[t].save
        /\ r.sent = tab[t].sent /\ r.edited = tab[t].edited /\ r.autosave = tab[t].autosave
        /\ r.received = tab[t].received /\ r.state = tab[t].state
        /\ r.publish = tab[t].publish /\ r.owner = tab[t].owner
        /\ r.waiting = tab[t].waiting /\ r.candidate = tab[t].candidate
    BY <1>1, <2>1 DEF Tab
  <2> HIDE DEF r
  <2>4. Rests(r, server)
    BY <1>2, <1>4, <2>1, <2>3 DEF Rests
  <2>5. CASE r.edited
    <3>1. r.dirty /\ r.save # "none"
      BY <1>1, <2>3, <2>5 DEF TabIsSound, FieldsAgree
    <3>2. QED
      BY <1>3, <1>4, <2>1, <2>2, <2>3, <2>4, <2>5, <3>1, NewerEditsKeepSound
  <2>6. CASE ~r.edited
    <3> DEFINE n == [r EXCEPT !.save = "preview"]
    <3>1. /\ n \in Tab /\ n.page = r.page /\ n.fetched = r.fetched /\ n.lock = r.lock
          /\ n.doc = r.doc /\ n.dirty = r.dirty /\ n.save = "preview"
          /\ n.sent = r.sent /\ n.edited = r.edited /\ n.autosave = r.autosave
          /\ n.received = r.received /\ n.state = r.state
          /\ n.publish = r.publish /\ n.owner = r.owner
          /\ n.waiting = r.waiting /\ n.candidate = r.candidate
      BY <2>3 DEF Tab
    <3>2. Become(t, n) /\ UNCHANGED <<network, journal>>
      BY <2>2, <2>6
    <3> HIDE DEF n
    <3>3. TabIsSound(n, server)
      BY <1>1, <1>4, <2>1, <2>3, <2>4, <3>1
         DEF TabIsSound, DocumentsAreNamed, FieldsAgree, Rests
    <3>4. QED
      BY <1>1, <3>1, <3>2, <3>3, TabStep
  <2>7. QED
    BY <2>5, <2>6
<1>6. CASE PreviewAnswered(t)
  <2>1. tab[t].save = "preview" /\ UNCHANGED <<server, network, made>>
    BY <1>6 DEF PreviewAnswered
  <2>2. CASE tab[t].edited
    <3>1. newerEdits(t, tab[t]) /\ tab[t].dirty
      BY <1>1, <1>6, <2>2 DEF PreviewAnswered, TabIsSound, FieldsAgree
    <3>2. QED
      BY <1>1, <1>2, <1>3, <1>4, <2>1, <3>1, NewerEditsKeepSound
  <2>3. CASE ~tab[t].edited
    <3> DEFINE q == [tab[t] EXCEPT !.dirty = FALSE, !.journalTimer = FALSE, !.state = "saved"]
    <3>1. /\ q \in Tab /\ q.page = tab[t].page /\ q.fetched = tab[t].fetched
          /\ q.lock = tab[t].lock /\ q.doc = tab[t].doc /\ ~q.dirty /\ q.save = tab[t].save
          /\ q.autosave = tab[t].autosave /\ q.publish = tab[t].publish
          /\ q.owner = tab[t].owner /\ q.waiting = tab[t].waiting /\ q.state = "saved"
      BY <1>1 DEF Tab
    <3>2. PICK n \in Succeeded(q) : Become(t, n)
      BY <1>6, <2>3 DEF PreviewAnswered, Become
    <3> HIDE DEF q
    <3>3. n \in Tab
      BY <1>1, <3>1, <3>2, SucceededFields, DraftEditorAssumption
    <3>4. tab[t].doc \subseteq server.doc /\ ~tab[t].autosave
      BY <1>1, <1>4, <2>1, <2>3 DEF TabIsSound, FieldsAgree
    <3>5. Rests(q, server)
      BY <1>2, <3>1, <3>4 DEF Rests
    <3>6. TabIsSound(n, server)
      BY <1>1, <1>3, <3>1, <3>2, <3>4, <3>5, SucceededIsSound
    <3>7. journal' = [journal EXCEPT ![BrowserOf[t]] = NoResource]
      BY <1>6, <2>3 DEF PreviewAnswered
    <3>8. \A b \in Browsers : \/ journal'[b] = journal[b]
                              \/ Names(journal'[b].lock, journal'[b].doc, server)
      BY <1>1, <3>7, NothingIsNamed DEF TypeOK
    <3>9. QED
      BY <2>1, <3>2, <3>3, <3>6, <3>8, TabStep
  <2>4. QED
    BY <2>2, <2>3
<1>7. CASE CleanAnswered(t)
  <2> DEFINE state == IF ~tab[t].edited /\ ~tab[t].dirty THEN "saved" ELSE "dirty"
             q == [tab[t] EXCEPT !.state = state]
  <2>1. state \in {"saved", "dirty"}
    OBVIOUS
  <2>2. UNCHANGED <<server, network, journal, made>> /\ \E n \in Succeeded(q) : Become(t, n)
    BY <1>7 DEF CleanAnswered, Become
  <2> HIDE DEF state
  <2>3. /\ q \in Tab /\ q.page = tab[t].page /\ q.fetched = tab[t].fetched
        /\ q.lock = tab[t].lock /\ q.doc = tab[t].doc /\ q.dirty = tab[t].dirty
        /\ q.save = tab[t].save
        /\ q.autosave = tab[t].autosave /\ q.publish = tab[t].publish
        /\ q.owner = tab[t].owner /\ q.waiting = tab[t].waiting /\ q.state = state
    BY <1>1, <2>1 DEF Tab
  <2> HIDE DEF q
  <2>4. Rests(q, server) /\ q.state # "conflict"
    BY <1>2, <2>1, <2>3 DEF Rests
  <2>5. ~tab[t].dirty => ~tab[t].autosave
    BY <1>1 DEF TabIsSound, FieldsAgree
  <2>6. \A n \in Succeeded(q) : n \in Tab /\ TabIsSound(n, server)
    BY <1>1, <1>3, <2>3, <2>4, <2>5, SucceededFields, SucceededIsSound, DraftEditorAssumption
  <2>7. QED
    BY <2>2, <2>6, TabStep
<1>8. CASE SaveConflicts(t) \/ SaveFails(t)
  <2>1. PICK state \in {"conflict", "error"} : Become(t, Failed(tab[t], state))
    BY <1>8 DEF SaveConflicts, SaveFails
  <2>2. Failed(tab[t], state) \in Tab
    BY <1>1, DoneFields, DraftEditorAssumption DEF Failed, Tab
  <2>3. TabIsSound(Failed(tab[t], state), server)
    BY <1>1, <1>2, FailedIsSound
  <2>4. journal' = journal /\ (network' = network \/ network' = Abandoned(t))
    BY <1>8 DEF SaveConflicts, SaveFails
  <2>5. \A m \in network' : m \in network \/ Names(m.lock, m.doc, server)
    BY <1>1, <2>4 DEF Abandoned, TabIsSound, DocumentsAreNamed
  <2>6. QED
    BY <1>1, <2>1, <2>2, <2>3, <2>4, <2>5, TabStep
<1>9. QED
  BY <1>5, <1>6, <1>7, <1>8
\* A publication is prepared from the draft that is on the screen: the tab is saved, and
\* holds the server's lock version.
LEMMA PublishingKeepsSound ==
  ASSUME TypeOK, EditorsAreSound, NEW t \in Tabs,
         preparePublication(t) \/ commitPublication(t) \/ PublishFails(t)
  PROVE  EditorsAreSound'
<1>1. /\ tab[t] \in Tab /\ TabIsSound(tab[t], server) /\ UNCHANGED <<server, network, journal>>
      /\ server \in Resource /\ NoResource \in Resource
  BY ClosedIsATab, DraftEditorAssumption
     DEF TypeOK, EditorsAreSound, preparePublication, commitPublication, PublishFails
<1>2. ASSUME NEW p \in {"publishing", "published", "idle"}, NEW c \in Resource,
             Become(t, [tab[t] EXCEPT !.publish = p, !.candidate = c]),
             p = "publishing" => /\ tab[t].publish = "preparing"
                                 /\ c.doc = tab[t].doc
      PROVE  EditorsAreSound'
  <2> DEFINE n == [tab[t] EXCEPT !.publish = p, !.candidate = c]
  <2>1. /\ n \in Tab /\ n.page = tab[t].page /\ n.fetched = tab[t].fetched
        /\ n.lock = tab[t].lock /\ n.doc = tab[t].doc /\ n.dirty = tab[t].dirty
        /\ n.save = tab[t].save /\ n.sent = tab[t].sent /\ n.edited = tab[t].edited
        /\ n.autosave = tab[t].autosave /\ n.answer = tab[t].answer
        /\ n.received = tab[t].received /\ n.state = tab[t].state
        /\ n.owner = tab[t].owner /\ n.waiting = tab[t].waiting
        /\ n.publish = p /\ n.candidate = c
    BY <1>1 DEF Tab
  <2>2. Become(t, n)
    BY <1>2
  <2> HIDE DEF n
  <2>3. p = "idle" \/ p = "published" \/ tab[t].publish = "preparing"
    BY <1>2
  <2>4. tab[t].page \in {"closed", "loading"} => p = "idle" \/ p = "published"
    BY <1>1, <2>3 DEF TabIsSound, FieldsAgree
  <2>5. CASE p = "publishing"
    BY <1>1, <1>2, <2>1, <2>2, <2>5, TabStep DEF TabIsSound, DocumentsAreNamed, FieldsAgree
  <2>6. CASE p # "publishing" /\ tab[t].page \notin {"closed", "loading"}
    BY <1>1, <2>1, <2>2, <2>6, TabStep DEF TabIsSound, DocumentsAreNamed, FieldsAgree
  <2>7. CASE p # "publishing" /\ tab[t].page \in {"closed", "loading"}
    <3>1. tab[t].publish = "idle"
      BY <1>1, <2>7 DEF TabIsSound, FieldsAgree
    <3>2. QED
      BY <3>1 DEF preparePublication, commitPublication, PublishFails
  <2>8. QED
    BY <2>5, <2>6, <2>7
<1>3. CASE preparePublication(t)
  <2>1. /\ tab[t].publish = "preparing" /\ tab[t].lock = server.lock
        /\ Become(t, [tab[t] EXCEPT !.publish = "publishing", !.candidate = server])
    BY <1>3 DEF preparePublication
  <2>2. server.doc = tab[t].doc
    BY <1>1, <2>1 DEF TabIsSound, DocumentsAreNamed, FieldsAgree, Names
  <2>3. QED
    BY <1>1, <1>2, <2>1, <2>2
<1>4. CASE commitPublication(t) \/ PublishFails(t)
  <2>1. PICK p \in {"published", "idle"} :
           Become(t, [tab[t] EXCEPT !.publish = p, !.candidate = NoResource])
    BY <1>4 DEF commitPublication, PublishFails
  <2>2. QED
    BY <1>1, <1>2, <2>1
<1>5. QED
  BY <1>3, <1>4

(* Leaving and crashing keep what is sound. *)
LEMMA LeavingKeepsSound ==
  ASSUME TypeOK, EditorsAreSound, NEW t \in Tabs, Unload(t) \/ Crash(t)
  PROVE  EditorsAreSound'
<1>1. /\ Become(t, Closed) /\ Closed \in Tab /\ TabIsSound(Closed, server) /\ server' = server
      /\ network' = Abandoned(t) /\ (journal' = journal \/ journal' = Journal(t))
  BY ClosedIsATab, NothingIsNamed, DraftEditorAssumption DEF Unload, Crash, EditorsAreSound
<1>2. \A m \in network' : m \in network \/ Names(m.lock, m.doc, server)
  BY <1>1 DEF Abandoned, EditorsAreSound, TabIsSound, DocumentsAreNamed
<1>3. \A b \in Browsers : \/ journal'[b] = journal[b]
                          \/ Names(journal'[b].lock, journal'[b].doc, server)
  BY <1>1, JournalIsNamed
<1>4. QED
  BY <1>1, <1>2, <1>3, TabStep

\* Every step keeps the editors sound and takes nothing off the server's draft.
LEMMA EditorsStep ==
  ASSUME ~LateReloads, TypeOK, EditorsAreSound, [Next]_vars
  PROVE  EditorsAreSound' /\ server.doc \subseteq server'.doc
<1>1. TypeOK'
  BY EditorTypesStep
<1>2. ASSUME NEW t \in Tabs, Administrator(t) \/ Timers(t) \/ Answers(t), ~HandlePut(t)
      PROVE  EditorsAreSound' /\ server' = server
  <2>1. server' = server
    BY <1>2 DEF Administrator, Timers, Answers, Open, reloadServerDraft, handleDocumentChange,
       saveWhenHidden, SaveButton, publish, Unload, Crash, JournalTimer, AutoSave, Loaded,
       Reloaded, LoadFails, SaveAnswered, PreviewAnswered, CleanAnswered, SaveConflicts,
       SaveFails, preparePublication, commitPublication, PublishFails
  <2>2. QED
    BY <1>2, <2>1, LoadingKeepsSound, SavingKeepsSound, AnswersKeepSound, PublishingKeepsSound,
       LeavingKeepsSound DEF Administrator, Timers, Answers
<1>3. ASSUME NEW t \in Tabs, HandlePut(t)
      PROVE  EditorsAreSound' /\ server.doc \subseteq server'.doc
  BY <1>1, <1>3, PutKeepsSound
<1>4. ASSUME NEW m \in network, HandleAbandoned(m)
      PROVE  EditorsAreSound' /\ server.doc \subseteq server'.doc
  BY <1>1, <1>4, AbandonedKeepsSound
<1>5. CASE UNCHANGED vars
  BY <1>5 DEF vars, EditorsAreSound
<1>6. QED
  BY <1>2, <1>3, <1>4, <1>5 DEF Next
-----------------------------------------------------------------------------
(* The theorems: unless a reload ends while a save is in flight *)

\* Whoever holds a lock version holds its document: screens, loads, saves on their way,
\* journals and requests nobody waits for.
THEOREM EditorsStaySound == ~LateReloads => (Spec => [](TypeOK /\ EditorsAreSound))
<1> SUFFICES ASSUME ~LateReloads
             PROVE  Spec => [](TypeOK /\ EditorsAreSound)
  OBVIOUS
<1>1. Init => TypeOK /\ EditorsAreSound
  BY EditorTypesInit, EditorsInit
<1>2. TypeOK /\ EditorsAreSound /\ [Next]_vars => (TypeOK /\ EditorsAreSound)'
  BY EditorTypesStep, EditorsStep
<1>3. QED
  BY <1>1, <1>2, PTL DEF Spec

\* A tab that shows no unsaved change has none.
THEOREM SavedTabsAreStored == ~LateReloads => (Spec => []SavedMeansStored)
<1> SUFFICES ASSUME ~LateReloads
             PROVE  Spec => []SavedMeansStored
  OBVIOUS
<1>1. TypeOK /\ EditorsAreSound => SavedMeansStored
  BY DEF EditorsAreSound, TabIsSound, SavedMeansStored
<1>2. QED
  BY <1>1, EditorsStaySound, PTL

\* The lock version of a tab is the one of a document it has on its screen: what a late
\* reload breaks.
THEOREM LocksNameDocuments == ~LateReloads => (Spec => []LockNamesDocument)
<1> SUFFICES ASSUME ~LateReloads
             PROVE  Spec => []LockNamesDocument
  OBVIOUS
<1>1. TypeOK /\ EditorsAreSound => LockNamesDocument
  BY DEF EditorsAreSound, TabIsSound, DocumentsAreNamed, Names, LockNamesDocument
<1>2. QED
  BY <1>1, EditorsStaySound, PTL

\* What is about to be published is what is on the screen of the tab that asked.
THEOREM ScreensArePublished == ~LateReloads => (Spec => []PublishesTheScreen)
<1> SUFFICES ASSUME ~LateReloads
             PROVE  Spec => []PublishesTheScreen
  OBVIOUS
<1>1. TypeOK /\ EditorsAreSound => PublishesTheScreen
  BY DEF EditorsAreSound, TabIsSound, FieldsAgree, PublishesTheScreen
<1>2. QED
  BY <1>1, EditorsStaySound, PTL

\* No save takes an edit off the server's draft.
THEOREM NoSaveTakesEdits == ~LateReloads => (Spec => ServersDraftIsKept)
<1> SUFFICES ASSUME ~LateReloads
             PROVE  Spec => ServersDraftIsKept
  OBVIOUS
<1> DEFINE Kept == server.doc \subseteq server'.doc
<1>1. TypeOK /\ EditorsAreSound /\ [Next]_vars => [Kept]_vars
  BY EditorsStep
<1>2. QED
  BY <1>1, EditorsStaySound, PTL DEF Spec, ServersDraftIsKept
=============================================================================
