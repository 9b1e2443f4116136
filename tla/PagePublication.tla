--------------------------- MODULE PagePublication ---------------------------
(***************************************************************************)
(* The page documents of G7 Page Builder and their publication: the tables *)
(* g7pb_documents, g7pb_revisions and g7pb_publications, the transactions  *)
(* of EloquentPageBuilderRepository, and the requests of PageBuilderService*)
(* that do work outside them.                                              *)
(*                                                                         *)
(* A transaction that reads and writes one document under its row lock is  *)
(* one action. Two operations are split where other requests run between   *)
(* their parts: preparing a publication reads and compiles outside any     *)
(* transaction, and committing one reads the publications of the OTHER     *)
(* documents, whose rows it does not lock, before it writes.               *)
(***************************************************************************)
EXTENDS Naturals, FiniteSets

CONSTANTS Docs,          \* document ids (UUIDs: never used twice)
          Slugs,         \* page slugs
          Contents,      \* block trees
          Structured,    \* the contents that are of the v3 generation
          Admins,        \* browser tabs of administrators, one request each
          Publications,  \* publication rows, each with its random token
          None,          \* SQL NULL
          MaxLock        \* bound on lock_version

ASSUME ConstantsAssumption ==
    /\ None \notin Docs \cup Slugs \cup Contents \cup Publications
    /\ None \notin [slug : Slugs, content : Contents]
    /\ Structured \subseteq Contents
    /\ MaxLock \in Nat \ {0}

VARIABLES document,      \* g7pb_documents, one row per id
          revisions,     \* g7pb_revisions, the set of rows
          publication,   \* g7pb_publications, one row per token
          tab,           \* what each administrator's browser last loaded
          request        \* the request each administrator has in flight

vars == <<document, revisions, publication, tab, request>>
-----------------------------------------------------------------------------
(* Tables *)

DocumentRow ==
    [state              : {"absent", "stored", "purged"},
     slug               : Slugs \cup {None},
     lock_version       : 0 .. MaxLock,
     current_revision   : 0 .. MaxLock,
     active_publication : Publications \cup {None},
     is_home            : BOOLEAN,
     archived           : BOOLEAN]

\* "base" is not a column: it is the revision the writer had on the screen,
\* kept to state that no write is lost.
RevisionRow ==
    [document : Docs, revision : 1 .. MaxLock, slug : Slugs,
     content : Contents, base : 0 .. MaxLock]

PublicationRow ==
    [status          : {"none", "candidate", "active", "superseded", "deleted"},
     document        : Docs \cup {None},
     source_revision : 0 .. MaxLock,
     prepared_lock   : 0 .. MaxLock,
     slug            : Slugs \cup {None},
     content         : Contents \cup {None},
     expired         : BOOLEAN]

Tab == [document : Docs \cup {None}, lock_version : 0 .. MaxLock,
        revision : 0 .. MaxLock]

Request ==
    [step : {"idle", "compiled", "committing"}, document : Docs \cup {None},
     lock_version : 0 .. MaxLock, revision : 0 .. MaxLock,
     content : Contents \cup {None}, publication : Publications \cup {None}]

NoRow(state) ==
    [state |-> state, slug |-> None, lock_version |-> 0, current_revision |-> 0,
     active_publication |-> None, is_home |-> FALSE, archived |-> FALSE]

NoPublication(status) ==
    [status |-> status, document |-> None, source_revision |-> 0,
     prepared_lock |-> 0, slug |-> None, content |-> None, expired |-> FALSE]

Idle == [step |-> "idle", document |-> None, lock_version |-> 0,
         revision |-> 0, content |-> None, publication |-> None]
-----------------------------------------------------------------------------
(* What the transactions look up and assert *)

Stored(d) == document[d].state = "stored"

\* lockForUpdate on the row: a commit in flight holds the lock of its document.
LockHeld(d) == \E a \in Admins : /\ request[a].step = "committing"
                                 /\ request[a].document = d

\* Mutated: a plain SELECT of the row.
lockDocumentWithoutLock(d) == Stored(d)

lockDocument(d) == Stored(d) /\ ~LockHeld(d)

\* Mutated: the versions are not compared.
assertLockVersionUnchecked(a, d) == tab[a].document = d

\* The lock version the browser sends is the one of the row.
assertLockVersion(a, d) ==
    tab[a].document = d /\ tab[a].lock_version = document[d].lock_version

\* No other row has the slug. The unique index of the column repeats the test
\* when the row is written.
assertSlugAvailable(s, d) ==
    \A e \in Docs \ {d} : Stored(e) => document[e].slug # s

\* Mutated: only draft slugs are compared.
assertActiveSlugUnchecked(s, d) == assertSlugAvailable(s, d)

assertActiveSlugAvailable(s, d) ==
    \A p \in Publications :
        publication[p].status = "active" /\ publication[p].slug = s
            => publication[p].document = d

assertPublishable(d) == ~document[d].archived

\* Mutated: nothing is compared, then only the revision.
UnmovedUnchecked(d, lock, revision) == TRUE
UnmovedRevision(d, lock, revision) == document[d].current_revision = revision

\* The document is as it was when a publication was prepared from it.
Unmoved(d, lock, revision) == /\ document[d].lock_version = lock
                              /\ document[d].current_revision = revision

\* Mutated: a candidate that waits is written again.
NewPublicationOverCandidate(p) == publication[p].status \in {"none", "candidate"}

\* A publication is always a new row with a new token.
NewPublication(p) == publication[p].status = "none"

\* The current revision of a document.
CurrentRow(d) == {r \in revisions : /\ r.document = d
                                    /\ r.revision = document[d].current_revision}

\* Mutated: the revision replaces the one before it.
insertRevisionInPlace(d, n, s, c, b) ==
    revisions' = {r \in revisions : r.document = d => r.revision # n - 1} \cup
        {[document |-> d, revision |-> n, slug |-> s, content |-> c, base |-> b]}

insertRevision(d, n, s, c, b) ==
    revisions' = revisions \cup
        {[document |-> d, revision |-> n, slug |-> s, content |-> c, base |-> b]}

\* Mutated: the publication keeps its status.
SupersededNever(d) == publication

Superseded(d) ==
    [p \in Publications |->
        IF p = document[d].active_publication /\ publication[p].status = "active"
        THEN [publication[p] EXCEPT !.status = "superseded"]
        ELSE publication[p]]
-----------------------------------------------------------------------------
Init == /\ document = [d \in Docs |-> NoRow("absent")]
        /\ revisions = {}
        /\ publication = [p \in Publications |-> NoPublication("none")]
        /\ tab = [a \in Admins |-> [document |-> None, lock_version |-> 0,
                                    revision |-> 0]]
        /\ request = [a \in Admins |-> Idle]

\* The editor or the manager loads a document.
Load(a, d) ==
    /\ Stored(d)
    /\ tab' = [tab EXCEPT ![a] =
                 [document |-> d, lock_version |-> document[d].lock_version,
                  revision |-> document[d].current_revision]]
    /\ UNCHANGED <<document, revisions, publication, request>>

\* A new document, a duplicate of another one or an instance of a page kit.
create(a, d, s, c) ==
    /\ document[d].state = "absent"
    /\ assertSlugAvailable(s, d)
    /\ document' = [document EXCEPT ![d] =
            [state |-> "stored", slug |-> s, lock_version |-> 1,
             current_revision |-> 1, active_publication |-> None,
             is_home |-> FALSE, archived |-> FALSE]]
    /\ insertRevision(d, 1, s, c, 0)
    /\ UNCHANGED <<publication, tab, request>>

\* Mutated: the revision is numbered by the lock version.
AddRevisionByLock(a, d, s, c) ==
    /\ assertSlugAvailable(s, d)
    /\ document[d].lock_version < MaxLock
    /\ insertRevision(d, document[d].lock_version + 1, s, c, tab[a].revision)
    /\ document' = [document EXCEPT
            ![d].slug = s,
            ![d].lock_version = @ + 1,
            ![d].current_revision = document[d].lock_version + 1]
    /\ UNCHANGED <<publication, tab, request>>

\* The writes that add a revision share their tail.
AddRevision(a, d, s, c) ==
    /\ assertSlugAvailable(s, d)
    /\ document[d].lock_version < MaxLock
    /\ insertRevision(d, document[d].current_revision + 1, s, c, tab[a].revision)
    /\ document' = [document EXCEPT
            ![d].slug = s,
            ![d].lock_version = @ + 1,
            ![d].current_revision = @ + 1]
    /\ UNCHANGED <<publication, tab, request>>

\* Mutated: the generations are not compared.
saveDraftOfAnyGeneration(a, d, s, c) ==
    /\ lockDocument(d)
    /\ assertLockVersion(a, d)
    /\ AddRevision(a, d, s, c)

\* An editor save. It cannot change the generation of the document.
saveDraft(a, d, s, c) ==
    /\ lockDocument(d)
    /\ assertLockVersion(a, d)
    /\ \A r \in CurrentRow(d) : (r.content \in Structured) <=> (c \in Structured)
    /\ AddRevision(a, d, s, c)

\* The manager changes title, slug, locale or SEO; the blocks stay.
updateMetadata(a, d, s) ==
    /\ lockDocument(d)
    /\ assertLockVersion(a, d)
    /\ \E r \in CurrentRow(d) : AddRevision(a, d, s, r.content)

\* An old revision comes back, with its slug, as a new revision.
restoreRevision(a, d, r) ==
    /\ lockDocument(d)
    /\ assertLockVersion(a, d)
    /\ r.document = d
    /\ AddRevision(a, d, r.slug, r.content)
-----------------------------------------------------------------------------
(* Publication *)

\* preparePublication reads the snapshot and compiles it, with no lock held.
preparePublication(a, d) ==
    /\ request[a].step = "idle"
    /\ Stored(d)
    /\ assertLockVersion(a, d)
    /\ assertPublishable(d)
    /\ \E r \in CurrentRow(d) :
         request' = [request EXCEPT ![a] =
            [step |-> "compiled", document |-> d,
             lock_version |-> document[d].lock_version,
             revision |-> r.revision, content |-> r.content,
             publication |-> None]]
    /\ UNCHANGED <<document, revisions, publication, tab>>

\* The compiled artifact becomes a candidate if nothing moved meanwhile.
storePublicationCandidate(a, p) ==
    LET q == request[a]
        d == q.document
    IN  /\ q.step = "compiled"
        /\ NewPublication(p)
        /\ lockDocument(d)
        /\ Unmoved(d, q.lock_version, q.revision)
        /\ assertPublishable(d)
        /\ assertActiveSlugAvailable(document[d].slug, d)
        /\ publication' = [publication EXCEPT ![p] =
                [status |-> "candidate", document |-> d,
                 source_revision |-> q.revision,
                 prepared_lock |-> q.lock_version,
                 slug |-> document[d].slug, content |-> q.content,
                 expired |-> FALSE]]
        /\ request' = [request EXCEPT ![a] = Idle]
        /\ UNCHANGED <<document, revisions, tab>>

\* commitPublication locks the candidate and its document and makes every test;
\* the one on other documents' publications reads rows it does not lock.
commitPublication(a, p) ==
    LET d == publication[p].document
    IN  /\ request[a].step = "idle"
        /\ publication[p].status = "candidate"
        /\ ~publication[p].expired
        /\ lockDocument(d)
        /\ assertPublishable(d)
        /\ Unmoved(d, publication[p].prepared_lock, publication[p].source_revision)
        /\ assertActiveSlugAvailable(publication[p].slug, d)
        /\ request' = [request EXCEPT ![a] =
                [step |-> "committing", document |-> d, lock_version |-> 0,
                 revision |-> 0, content |-> None, publication |-> p]]
        /\ UNCHANGED <<document, revisions, publication, tab>>

\* Mutated: publishing again takes the home away.
CommitClearsHome(a) ==
    LET p == request[a].publication
        d == request[a].document
    IN  /\ request[a].step = "committing"
        /\ publication' = [Superseded(d) EXCEPT ![p].status = "active"]
        /\ document' = [document EXCEPT ![d].active_publication = p,
                                        ![d].is_home = FALSE]
        /\ request' = [request EXCEPT ![a] = Idle]
        /\ UNCHANGED <<revisions, tab>>

\* The active pointer moves. The lock version does not.
CommitWrites(a) ==
    LET p == request[a].publication
        d == request[a].document
    IN  /\ request[a].step = "committing"
        /\ publication' = [Superseded(d) EXCEPT ![p].status = "active"]
        /\ document' = [document EXCEPT ![d].active_publication = p]
        /\ request' = [request EXCEPT ![a] = Idle]
        /\ UNCHANGED <<revisions, tab>>

\* A request dies, or one of its tests fails: the transaction rolls back and
\* its locks go. A prepared or a committing publication is left as it was.
Abandon(a) ==
    /\ request[a].step # "idle"
    /\ request' = [request EXCEPT ![a] = Idle]
    /\ UNCHANGED <<document, revisions, publication, tab>>

\* Mutated: an expired candidate is marked as the state diagram has it.
ExpireToRejected(p) ==
    /\ publication[p].status = "candidate"
    /\ publication' = [publication EXCEPT ![p].status = "rejected"]
    /\ UNCHANGED <<document, revisions, tab, request>>

\* Thirty minutes pass.
Expire(p) ==
    /\ publication[p].status = "candidate"
    /\ ~publication[p].expired
    /\ publication' = [publication EXCEPT ![p].expired = TRUE]
    /\ UNCHANGED <<document, revisions, tab, request>>
-----------------------------------------------------------------------------
(* Life of a document *)

unpublish(a, d) ==
    /\ lockDocument(d)
    /\ assertLockVersion(a, d)
    /\ document[d].active_publication # None
    /\ document[d].lock_version < MaxLock
    /\ publication' = Superseded(d)
    /\ document' = [document EXCEPT
            ![d].active_publication = None,
            ![d].is_home = FALSE,
            ![d].lock_version = @ + 1]
    /\ UNCHANGED <<revisions, tab, request>>

\* Mutated: the archived document stays the home.
archiveKeepingHome(a, d) ==
    /\ lockDocument(d)
    /\ assertLockVersion(a, d)
    /\ ~document[d].archived
    /\ document[d].lock_version < MaxLock
    /\ publication' = Superseded(d)
    /\ document' = [document EXCEPT
            ![d].active_publication = None,
            ![d].archived = TRUE,
            ![d].lock_version = @ + 1]
    /\ UNCHANGED <<revisions, tab, request>>

archive(a, d) ==
    /\ lockDocument(d)
    /\ assertLockVersion(a, d)
    /\ ~document[d].archived
    /\ document[d].lock_version < MaxLock
    /\ publication' = Superseded(d)
    /\ document' = [document EXCEPT
            ![d].active_publication = None,
            ![d].is_home = FALSE,
            ![d].archived = TRUE,
            ![d].lock_version = @ + 1]
    /\ UNCHANGED <<revisions, tab, request>>

restoreArchived(a, d) ==
    /\ lockDocument(d)
    /\ assertLockVersion(a, d)
    /\ document[d].archived
    /\ document[d].lock_version < MaxLock
    /\ document' = [document EXCEPT
            ![d].archived = FALSE,
            ![d].lock_version = @ + 1]
    /\ UNCHANGED <<revisions, publication, tab, request>>

\* The row goes, and by foreign key its revisions and publications. The
\* confirmation slug is the one the administrator reads next to the button.
purge(a, d) ==
    /\ lockDocument(d)
    /\ assertLockVersion(a, d)
    /\ document[d].archived
    /\ document[d].active_publication = None
    /\ document' = [document EXCEPT ![d] = NoRow("purged")]
    /\ revisions' = {r \in revisions : r.document # d}
    /\ publication' = [p \in Publications |->
            IF publication[p].document = d THEN NoPublication("deleted")
            ELSE publication[p]]
    /\ UNCHANGED <<tab, request>>

\* Mutated: the homes it clears keep their lock versions.
setHomeQuietly(a, d) ==
    /\ \A e \in Docs : ~LockHeld(e)
    /\ Stored(d)
    /\ assertLockVersion(a, d)
    /\ document[d].active_publication # None
    /\ assertPublishable(d)
    /\ ~document[d].is_home
    /\ document[d].lock_version < MaxLock
    /\ document' = [e \in Docs |->
            IF e = d
            THEN [document[e] EXCEPT !.is_home = TRUE, !.lock_version = @ + 1]
            ELSE [document[e] EXCEPT !.is_home = FALSE]]
    /\ UNCHANGED <<revisions, publication, tab, request>>

\* Every row is locked, in the order of the ids; the other homes are cleared
\* and their lock versions move too.
setHome(a, d) ==
    /\ \A e \in Docs : ~LockHeld(e)
    /\ Stored(d)
    /\ assertLockVersion(a, d)
    /\ document[d].active_publication # None
    /\ assertPublishable(d)
    /\ ~document[d].is_home
    /\ \A e \in Docs : e = d \/ document[e].is_home
                        => document[e].lock_version < MaxLock
    /\ document' = [e \in Docs |->
            IF e = d
            THEN [document[e] EXCEPT !.is_home = TRUE, !.lock_version = @ + 1]
            ELSE IF document[e].is_home
            THEN [document[e] EXCEPT !.is_home = FALSE, !.lock_version = @ + 1]
            ELSE document[e]]
    /\ UNCHANGED <<revisions, publication, tab, request>>

clearHome(a, d) ==
    /\ \A e \in Docs : ~LockHeld(e)
    /\ Stored(d)
    /\ assertLockVersion(a, d)
    /\ document[d].is_home
    /\ document[d].lock_version < MaxLock
    /\ document' = [document EXCEPT ![d].is_home = FALSE,
                                    ![d].lock_version = @ + 1]
    /\ UNCHANGED <<revisions, publication, tab, request>>
-----------------------------------------------------------------------------
Drafting(a, d) ==
    \/ Load(a, d)
    \/ \E s \in Slugs : \/ updateMetadata(a, d, s)
                        \/ \E c \in Contents : create(a, d, s, c)
                        \/ \E c \in Contents : saveDraft(a, d, s, c)
    \/ \E r \in revisions : restoreRevision(a, d, r)

Publishing(a) ==
    \/ \E d \in Docs : preparePublication(a, d)
    \/ \E p \in Publications : storePublicationCandidate(a, p)
    \/ \E p \in Publications : commitPublication(a, p)
    \/ CommitWrites(a)
    \/ Abandon(a)

Lifecycle(a, d) ==
    \/ unpublish(a, d)
    \/ archive(a, d)
    \/ restoreArchived(a, d)
    \/ purge(a, d)
    \/ setHome(a, d)
    \/ clearHome(a, d)

Next == \/ \E a \in Admins, d \in Docs : Drafting(a, d) \/ Lifecycle(a, d)
        \/ \E a \in Admins : Publishing(a)
        \/ \E p \in Publications : Expire(p)

Spec == Init /\ [][Next]_vars
-----------------------------------------------------------------------------
(* Properties *)

TypeOK ==
    /\ document \in [Docs -> DocumentRow]
    /\ revisions \subseteq RevisionRow
    /\ publication \in [Publications -> PublicationRow]
    /\ tab \in [Admins -> Tab]
    /\ request \in [Admins -> Request]

Active(p) == publication[p].status = "active"

\* The pointer of a document and the status of its publications say the same:
\* commitPublication, unpublish, archive and purge write the two in different
\* tables, and the public reader trusts one of them and checks the other.
PointerMatchesStatus ==
    /\ \A d \in Docs : document[d].active_publication # None =>
          LET p == document[d].active_publication
          IN  Active(p) /\ publication[p].document = d
    /\ \A p \in Publications : Active(p) =>
          /\ publication[p].document \in Docs
          /\ document[publication[p].document].active_publication = p

\* A public slug leads to one page. commitPublication looks for the slug among
\* rows it has not locked, and a slug a rename frees stays public until its
\* document is published again, so the check alone does not give this.
ActiveSlugsDistinct ==
    \A p, q \in Publications :
        Active(p) /\ Active(q) /\ p # q => publication[p].slug # publication[q].slug

\* There is at most one home, and it is a page the site root can serve
\* whatever unpublish, archive, purge and setHome ran in between.
HomeIsServable ==
    \A d \in Docs : document[d].is_home =>
        /\ Stored(d) /\ ~document[d].archived
        /\ document[d].active_publication # None
        /\ \A e \in Docs : document[e].is_home => e = d

(* What the three properties above rest on: a commit decides by tests made   *)
(* before it writes, and these stay true until it does.                      *)

Committing(a) == request[a].step = "committing"

\* The row locks of a commit: it alone works on its candidate and its document.
CommitsHoldTheirRows ==
    \A a \in Admins : Committing(a) =>
        /\ request[a].publication \in Publications
        /\ publication[request[a].publication].status = "candidate"
        /\ publication[request[a].publication].document = request[a].document
        /\ \A b \in Admins \ {a} :
              Committing(b) => request[b].document # request[a].document

\* Only a stored document is home or has a publication, and no two stored
\* documents share a draft slug.
DocumentsAreConsistent ==
    \A d \in Docs :
        /\ ~Stored(d) => document[d] = NoRow(document[d].state)
        /\ Stored(d) => document[d].slug \in Slugs /\ document[d].lock_version > 0
        /\ document[d].archived => document[d].active_publication = None
        /\ \A e \in Docs \ {d} : Stored(d) /\ Stored(e)
                                   => document[d].slug # document[e].slug

\* A candidate of the present lock version has the present slug.
CandidatesAreConsistent ==
    \A p \in Publications :
        LET d == publication[p].document
        IN  /\ publication[p].status \in {"candidate", "active", "superseded"} =>
                  /\ d \in Docs /\ Stored(d)
                  /\ publication[p].slug \in Slugs
                  /\ publication[p].content \in Contents
            /\ publication[p].status = "candidate" =>
                  /\ publication[p].prepared_lock <= document[d].lock_version
                  /\ publication[p].prepared_lock = document[d].lock_version
                        => publication[p].slug = document[d].slug

\* What a commit has tested still holds when it writes: no other document has
\* published the slug meanwhile, though nothing locks the other documents.
CommitsStayValid ==
    \A a \in Admins : Committing(a) =>
        LET p == request[a].publication
            d == request[a].document
        IN  /\ Unmoved(d, publication[p].prepared_lock, publication[p].source_revision)
            /\ assertPublishable(d)
            /\ assertActiveSlugAvailable(publication[p].slug, d)

SiteInvariant ==
    /\ CommitsHoldTheirRows
    /\ DocumentsAreConsistent
    /\ CandidatesAreConsistent
    /\ CommitsStayValid
    /\ PointerMatchesStatus
    /\ ActiveSlugsDistinct
    /\ HomeIsServable

\* Whoever writes a revision has seen the one before: no save, metadata change
\* or restore buries the work of another administrator.
NoWriteLost == \A r \in revisions : r.base = r.revision - 1

\* What is public (or was, or waits for its commit) is one saved revision, with
\* the slug and the content of that revision, although preparePublication reads
\* and compiles it before it takes the lock.
PublishedAsSaved ==
    \A p \in Publications :
        publication[p].status \in {"candidate", "active", "superseded"} =>
            \E r \in revisions :
                /\ r.document = publication[p].document
                /\ r.revision = publication[p].source_revision
                /\ r.slug = publication[p].slug
                /\ r.content = publication[p].content

\* The history of a stored document has every number from 1 to its current
\* revision, once, and its slug is the one of the current revision. The other
\* documents have no history.
HistoryIsComplete ==
    /\ \A d \in Docs : Stored(d) =>
          /\ \A n \in 1 .. document[d].current_revision :
                \E r \in revisions : r.document = d /\ r.revision = n
          /\ \E r \in CurrentRow(d) : r.slug = document[d].slug
    /\ \A r \in revisions :
          /\ Stored(r.document)
          /\ r.revision <= document[r.document].current_revision
          /\ \A q \in revisions :
                q.document = r.document /\ q.revision = r.revision => q = r

\* No sequence of saves, metadata changes and restores moves a document from
\* one generation to the other: saveDraft refuses, and a restore only reaches
\* revisions of the same document.
OneGeneration ==
    \A r, q \in revisions : r.document = q.document =>
        (r.content \in Structured <=> q.content \in Structured)

\* What history the operations write: complete, and of one generation.
HistoriesAreSound == HistoryIsComplete /\ OneGeneration

\* A candidate prepared before a draft, metadata, home or archive change of its
\* document never becomes public again, even if a commit of it is under way.
StaleCandidateStaysOut ==
    [][\A p \in Publications :
         /\ publication[p].status = "candidate"
         /\ publication[p].prepared_lock # document[publication[p].document].lock_version
         => publication'[p].status # "active"]_vars

\* A publication goes from candidate to active to superseded and never back,
\* keeps what it publishes, and is deleted only with its document.
PublicationsAreImmutable ==
    [][\A p \in Publications :
         LET old == publication[p]
             new == publication'[p]
         IN  \/ old.status = "none"
             \/ new = [old EXCEPT !.expired = TRUE]
             \/ old.status = "candidate" /\ new = [old EXCEPT !.status = "active"]
             \/ old.status = "active" /\ new = [old EXCEPT !.status = "superseded"]
             \/ /\ new = NoPublication("deleted")
                /\ old.status # "deleted" => document'[old.document].state = "purged"
             \/ new = old]_vars

\* A revision is never overwritten and never disappears before its document.
RevisionsAreImmutable ==
    [][\A r \in revisions : r \in revisions'
                              \/ document'[r.document].state = "purged"]_vars

\* What was written stays: revisions, publications, and what is public against
\* candidates that were prepared before a change.
WrittenStays == RevisionsAreImmutable /\ PublicationsAreImmutable /\ StaleCandidateStaysOut

\* A change of a document row that another administrator could overwrite moves
\* its lock version by one. The exception is a commit, which only publishes what
\* was prepared at that very version.
EveryChangeMovesTheLock ==
    [][\A d \in Docs : Stored(d) /\ Stored(d)' /\ document'[d] # document[d] =>
         \/ document'[d].lock_version = document[d].lock_version + 1
         \/ \E p \in Publications :
              /\ publication[p].prepared_lock = document[d].lock_version
              /\ document'[d] = [document[d] EXCEPT !.active_publication = p]]_vars

\* The tables implement the published site: a visitor can tell no more than
\* that pages appear, change, disappear and become home one at a time.
PublicPage ==
    [d \in Docs |->
        LET p == document[d].active_publication
        IN  IF p = None THEN None
            ELSE [slug |-> publication[p].slug, content |-> publication[p].content]]

Homes == {d \in Docs : document[d].is_home}

Site == INSTANCE PublishedSite WITH live <- PublicPage, home <- Homes

ImplementsPublishedSite == Site!Spec
=============================================================================
