----------------------- MODULE PagePublicationProofs ------------------------
(***************************************************************************)
(* Proofs about PagePublication, for every number of documents, slugs,     *)
(* administrators and publications and every bound on the lock version:    *)
(* its types, the pages that a visitor sees, that it implements            *)
(* PublishedSite, and that what is written about a page stays true.        *)
(***************************************************************************)
EXTENDS PagePublication, TLAPS

\* Revisions are numbered no faster than the lock version moves: setHome,
\* archive and the others move it without adding a revision.
RevisionsBelowLock ==
    \A d \in Docs : document[d].current_revision <= document[d].lock_version

\* A request past its first step knows its document, and a compiled one its
\* content; a publication on its way or public has a document.
RequestsHaveDocuments ==
    \A a \in Admins :
        /\ request[a].step # "idle" => request[a].document \in Docs
        /\ request[a].step = "compiled" => request[a].content \in Contents

PublicationsHaveDocuments ==
    \A p \in Publications :
        publication[p].status \in {"candidate", "active", "superseded"} =>
            publication[p].document \in Docs

Typed == /\ TypeOK
         /\ RevisionsBelowLock
         /\ RequestsHaveDocuments
         /\ PublicationsHaveDocuments
         /\ CommitsHoldTheirRows

(* An empty installation has its types. *)
LEMMA TypedInit == Init => Typed
  BY ConstantsAssumption
  DEF Init, Typed, TypeOK, RevisionsBelowLock, RequestsHaveDocuments,
      PublicationsHaveDocuments, CommitsHoldTheirRows, Committing, DocumentRow, RevisionRow, PublicationRow, Tab,
      Request, NoRow, NoPublication, Idle

\* Adding a revision, whatever adds it, keeps the types.
LEMMA TypedAddRevision ==
  ASSUME Typed, NEW a \in Admins, NEW d \in Docs, NEW s \in Slugs,
         NEW c \in Contents, AddRevision(a, d, s, c)
  PROVE  Typed'
<1> USE ConstantsAssumption
<1>1. document[d] \in DocumentRow /\ tab[a] \in Tab
  BY DEF Typed, TypeOK
<1>2. document[d].current_revision + 1 \in 1 .. MaxLock
  BY <1>1 DEF Typed, RevisionsBelowLock, AddRevision, DocumentRow
<1>3. document' \in [Docs -> DocumentRow]
  BY <1>1, <1>2 DEF Typed, TypeOK, AddRevision, DocumentRow
<1>4. revisions' \subseteq RevisionRow
  BY <1>1, <1>2 DEF Typed, TypeOK, AddRevision, insertRevision, RevisionRow, Tab
<1>5. RevisionsBelowLock'
  BY <1>1, <1>2 DEF Typed, TypeOK, RevisionsBelowLock, AddRevision, DocumentRow
<1>6. QED
  BY <1>3, <1>4, <1>5
  DEF Typed, TypeOK, AddRevision, RequestsHaveDocuments, PublicationsHaveDocuments,
      CommitsHoldTheirRows, Committing

\* Superseding what a document shows changes one status and nothing else.
LEMMA SupersededType ==
  ASSUME Typed, NEW d \in Docs
  PROVE  /\ Superseded(d) \in [Publications -> PublicationRow]
         /\ \A p \in Publications :
              /\ Superseded(d)[p].document = publication[p].document
              /\ Superseded(d)[p].status \in {publication[p].status, "superseded"}
              /\ Superseded(d)[p].status # publication[p].status
                   => publication[p].status = "active"
  BY DEF Typed, TypeOK, Superseded, PublicationRow

\* The passing of time touches one column.
LEMMA ExpireType ==
  ASSUME Typed, NEW p \in Publications, Expire(p)
  PROVE  TypeOK'
  BY DEF Expire, Typed, TypeOK, PublicationRow

\* Every action keeps the types.
LEMMA TypedStep == Typed /\ [Next]_vars => Typed'
<1> SUFFICES ASSUME Typed, [Next]_vars
             PROVE  Typed'
  OBVIOUS
<1> USE ConstantsAssumption
    DEF RequestsHaveDocuments, PublicationsHaveDocuments, RevisionsBelowLock,
        CommitsHoldTheirRows, Committing
<1>1. ASSUME NEW a \in Admins, NEW d \in Docs, Drafting(a, d)
      PROVE  Typed'
  <2>1. CASE Load(a, d)
    BY <2>1 DEF Load, Typed, TypeOK, Tab, DocumentRow
  <2>2. CASE \E s \in Slugs, c \in Contents : create(a, d, s, c)
    <3> PICK s \in Slugs, c \in Contents : create(a, d, s, c)
      BY <2>2
    <3>1. document' \in [Docs -> DocumentRow]
      BY DEF create, Typed, TypeOK, DocumentRow
    <3>2. revisions' \subseteq RevisionRow
      BY DEF create, insertRevision, Typed, TypeOK, RevisionRow
    <3>3. RevisionsBelowLock'
      BY DEF create, Typed, TypeOK
    <3>4. QED
      BY <3>1, <3>2, <3>3 DEF create, Typed, TypeOK
  <2>3. CASE \E s \in Slugs : updateMetadata(a, d, s)
    <3>1. \A r \in CurrentRow(d) : r.content \in Contents
      BY DEF CurrentRow, Typed, TypeOK, RevisionRow
    <3>2. QED
      BY <2>3, <3>1, TypedAddRevision DEF updateMetadata
  <2>4. CASE \E s \in Slugs, c \in Contents : saveDraft(a, d, s, c)
    BY <2>4, TypedAddRevision DEF saveDraft
  <2>5. CASE \E r \in revisions : restoreRevision(a, d, r)
    <3>1. \A r \in revisions : r.slug \in Slugs /\ r.content \in Contents
      BY DEF Typed, TypeOK, RevisionRow
    <3>2. QED
      BY <2>5, <3>1, TypedAddRevision DEF restoreRevision
  <2>6. QED
    BY <1>1, <2>1, <2>2, <2>3, <2>4, <2>5 DEF Drafting
<1>2. ASSUME NEW a \in Admins, Publishing(a)
      PROVE  Typed'
  <2> Idle \in Request /\ Idle.step = "idle"
    BY DEF Idle, Request
  <2>1. CASE \E d \in Docs : preparePublication(a, d)
    <3> PICK d \in Docs : preparePublication(a, d)
      BY <2>1
    <3>1. PICK r \in CurrentRow(d) :
             request' = [request EXCEPT ![a] =
                [step |-> "compiled", document |-> d,
                 lock_version |-> document[d].lock_version,
                 revision |-> r.revision, content |-> r.content,
                 publication |-> None]]
      BY DEF preparePublication
    <3>2. r \in RevisionRow /\ document[d] \in DocumentRow
      BY DEF CurrentRow, Typed, TypeOK
    <3>3. request' \in [Admins -> Request]
      BY <3>1, <3>2 DEF Typed, TypeOK, Request, RevisionRow, DocumentRow
    <3>4. RequestsHaveDocuments'
      BY <3>1, <3>2 DEF Typed, TypeOK, RevisionRow
    <3>5. QED
      BY <3>1, <3>3, <3>4 DEF preparePublication, Typed, TypeOK
  <2>2. CASE \E p \in Publications : storePublicationCandidate(a, p)
    <3> PICK p \in Publications : storePublicationCandidate(a, p)
      BY <2>2
    <3>1. request[a] \in Request /\ request[a].document \in Docs
      BY DEF Typed, TypeOK, storePublicationCandidate, Unmoved, NewPublication
    <3>2. document[request[a].document] \in DocumentRow
      BY <3>1 DEF Typed, TypeOK
    <3>3. request' \in [Admins -> Request]
      BY DEF storePublicationCandidate, Typed, TypeOK, Unmoved, NewPublication
    <3>4. publication' \in [Publications -> PublicationRow]
      BY <3>1, <3>2
      DEF storePublicationCandidate, Typed, TypeOK, PublicationRow, DocumentRow,
          Request, Unmoved, NewPublication
    <3>5. QED
      BY <3>1, <3>3, <3>4 DEF storePublicationCandidate, Typed, TypeOK,
      Unmoved, NewPublication
  <2>3. CASE \E p \in Publications : commitPublication(a, p)
    <3> PICK p \in Publications : commitPublication(a, p)
      BY <2>3
    <3>1. publication[p].document \in Docs
      BY DEF commitPublication, Typed, Unmoved
    <3>2. request' \in [Admins -> Request]
      BY <3>1 DEF commitPublication, Typed, TypeOK, Request, Unmoved
    <3>3. CommitsHoldTheirRows'
      BY <3>1 DEF commitPublication, lockDocument, LockHeld, Typed, TypeOK,
      Unmoved
    <3>4. QED
      BY <3>1, <3>2, <3>3 DEF commitPublication, Typed, TypeOK, Unmoved
  <2>4. CASE CommitWrites(a)
    <3>1. request[a].publication \in Publications /\ request[a].document \in Docs
      BY <2>4 DEF CommitWrites, Typed
    <3>2. publication' \in [Publications -> PublicationRow]
      BY <2>4, <3>1, SupersededType DEF CommitWrites, PublicationRow
    <3>3. document' \in [Docs -> DocumentRow]
      BY <2>4, <3>1 DEF CommitWrites, Typed, TypeOK, DocumentRow
    <3>4. request' \in [Admins -> Request]
      BY <2>4 DEF CommitWrites, Typed, TypeOK
    <3>5. \A p \in Publications :
             /\ publication'[p].document = publication[p].document
             /\ \/ publication'[p].status = publication[p].status
                \/ publication[p].status = "active"
                \/ p = request[a].publication
      BY <2>4, <3>1, SupersededType DEF CommitWrites, PublicationRow
    <3>6. publication[request[a].publication].document = request[a].document
      BY <2>4 DEF CommitWrites, Typed
    <3>7. PublicationsHaveDocuments'
      BY <3>1, <3>5, <3>6 DEF Typed
    <3>8. CommitsHoldTheirRows'
      BY <2>4, <3>1, <3>5, <3>6 DEF CommitWrites, Typed, TypeOK
    <3>9. RevisionsBelowLock' /\ RequestsHaveDocuments'
      BY <2>4, <3>1 DEF CommitWrites, Typed, TypeOK
    <3>10. QED
      BY <2>4, <3>2, <3>3, <3>4, <3>7, <3>8, <3>9 DEF CommitWrites, Typed, TypeOK
  <2>5. CASE Abandon(a)
    BY <2>5 DEF Abandon, Typed, TypeOK
  <2>6. QED
    BY <1>2, <2>1, <2>2, <2>3, <2>4, <2>5 DEF Publishing
<1>3. ASSUME NEW a \in Admins, NEW d \in Docs, Lifecycle(a, d)
      PROVE  Typed'
  <2>1. CASE unpublish(a, d)
    BY <2>1, SupersededType DEF unpublish, Typed, TypeOK, DocumentRow
  <2>2. CASE archive(a, d)
    BY <2>2, SupersededType DEF archive, Typed, TypeOK, DocumentRow
  <2>3. CASE restoreArchived(a, d)
    BY <2>3 DEF restoreArchived, Typed, TypeOK, DocumentRow
  <2>4. CASE purge(a, d)
    BY <2>4 DEF purge, lockDocument, LockHeld, Typed, TypeOK, DocumentRow,
                PublicationRow, NoRow, NoPublication
  <2>5. CASE setHome(a, d)
    <3>1. document' \in [Docs -> DocumentRow]
      <4>1. ASSUME NEW e \in Docs
            PROVE  document'[e] \in DocumentRow
        <5>1. document[e] \in DocumentRow
          BY DEF Typed, TypeOK
        <5> DEFINE n == document[e].lock_version + 1
        <5>2. \/ document'[e] = document[e]
              \/ /\ document[e].lock_version < MaxLock
                 /\ \/ document'[e] = [document[e] EXCEPT
                             !.is_home = TRUE, !.lock_version = n]
                    \/ document'[e] = [document[e] EXCEPT
                             !.is_home = FALSE, !.lock_version = n]
          BY <2>5 DEF setHome
        <5>3. document[e].lock_version < MaxLock => n \in 0 .. MaxLock
          BY <5>1 DEF DocumentRow
        <5> HIDE DEF n
        <5>4. QED
          BY <5>1, <5>2, <5>3 DEF DocumentRow
      <4>2. QED
        BY <2>5, <4>1 DEF setHome
    <3>2. RevisionsBelowLock'
      <4>1. ASSUME NEW e \in Docs
            PROVE  document'[e].current_revision <= document'[e].lock_version
        <5>1. document[e] \in DocumentRow
          BY DEF Typed, TypeOK
        <5>2. /\ document'[e].current_revision = document[e].current_revision
              /\ \/ document'[e].lock_version = document[e].lock_version
                 \/ document'[e].lock_version = document[e].lock_version + 1
          BY <2>5, <5>1 DEF setHome, DocumentRow
        <5>3. QED
          BY <5>1, <5>2 DEF Typed, DocumentRow
      <4>2. QED
        BY <4>1
    <3>3. QED
      BY <2>5, <3>1, <3>2 DEF setHome, Typed, TypeOK
  <2>6. CASE clearHome(a, d)
    BY <2>6 DEF clearHome, Typed, TypeOK, DocumentRow
  <2>7. QED
    BY <1>3, <2>1, <2>2, <2>3, <2>4, <2>5, <2>6 DEF Lifecycle
<1>4. ASSUME NEW p \in Publications, Expire(p)
      PROVE  Typed'
  <2>1. TypeOK'
    BY <1>4, ExpireType
  <2>2. PublicationsHaveDocuments'
    BY <1>4 DEF Expire, Typed, TypeOK, PublicationRow
  <2>3. CommitsHoldTheirRows'
    BY <1>4 DEF Expire, Typed, TypeOK
  <2>4. QED
    BY <1>4, <2>1, <2>2, <2>3 DEF Expire, Typed, TypeOK
<1>5. CASE UNCHANGED vars
  BY <1>5 DEF vars, Typed, TypeOK
<1>6. QED
  BY <1>1, <1>2, <1>3, <1>4, <1>5 DEF Next

\* Every table and every request keeps its type: the columns hold what the
\* migrations declare, and the numbers stay in their ranges.
THEOREM TypesAreCorrect == Spec => []TypeOK
<1>1. Typed => TypeOK
  BY DEF Typed
<1>2. QED
  BY TypedInit, TypedStep, <1>1, PTL DEF Spec
-----------------------------------------------------------------------------
(***************************************************************************)
(* The pages a visitor sees: pointers agree with statuses, public slugs    *)
(* are distinct and the home is servable.                                  *)
(***************************************************************************)

(* An empty site is consistent. *)
LEMMA SiteInit == Init => SiteInvariant
<1> SUFFICES ASSUME Init PROVE SiteInvariant
  OBVIOUS
<1>1. \A d \in Docs : /\ document[d] = NoRow("absent")
                      /\ document[d].state = "absent"
                      /\ document[d].active_publication = None
                      /\ ~document[d].archived
                      /\ ~document[d].is_home
  BY DEF Init, NoRow
<1>2. \A p \in Publications : publication[p].status = "none"
  BY DEF Init, NoPublication
<1>3. \A a \in Admins : ~Committing(a)
  BY DEF Init, Idle, Committing
<1>4. DocumentsAreConsistent
  BY <1>1 DEF DocumentsAreConsistent, Stored
<1>5. QED
  BY <1>1, <1>2, <1>3, <1>4
  DEF SiteInvariant, CommitsHoldTheirRows, CandidatesAreConsistent,
      CommitsStayValid, PointerMatchesStatus, Active, ActiveSlugsDistinct,
      HomeIsServable, Unmoved

\* A step that changes the row of one document nobody is committing, moves its
\* lock version and leaves its publication alone: a draft write, a metadata
\* change, a restore, or giving up the home.
LEMMA RowChange ==
  ASSUME Typed, SiteInvariant, Typed',
         NEW d \in Docs, ~LockHeld(d), Stored(d), Stored(d)',
         \A e \in Docs \ {d} : document'[e] = document[e],
         document'[d].slug \in Slugs,
         \A e \in Docs \ {d} : Stored(e) => document[e].slug # document'[d].slug,
         document'[d].lock_version = document[d].lock_version + 1,
         document'[d].active_publication = document[d].active_publication,
         document'[d].archived => document[d].archived,
         document'[d].is_home => document[d].is_home,
         UNCHANGED <<publication, request>>
  PROVE  SiteInvariant'
<1>1. CommitsHoldTheirRows'
  BY DEF SiteInvariant, CommitsHoldTheirRows, Committing
<1>2. DocumentsAreConsistent'
  <2>1. document[d].lock_version \in Nat
    BY DEF Typed, TypeOK, DocumentRow
  <2>2. QED
    BY <2>1 DEF SiteInvariant, DocumentsAreConsistent, Stored
<1>3. CandidatesAreConsistent'
  <2> SUFFICES ASSUME NEW p \in Publications
               PROVE  LET e == publication[p].document
                      IN  /\ publication[p].status
                                \in {"candidate", "active", "superseded"} =>
                               /\ e \in Docs /\ Stored(e)'
                               /\ publication[p].slug \in Slugs
                               /\ publication[p].content \in Contents
                          /\ publication[p].status = "candidate" =>
                               /\ publication[p].prepared_lock <= document'[e].lock_version
                               /\ publication[p].prepared_lock = document'[e].lock_version
                                    => publication[p].slug = document'[e].slug
    BY DEF CandidatesAreConsistent, Stored
  <2>1. /\ publication[p].prepared_lock \in Nat
        /\ document[d].lock_version \in Nat
    BY DEF Typed, TypeOK, PublicationRow, DocumentRow
  <2>2. QED
    BY <2>1 DEF SiteInvariant, CandidatesAreConsistent, Stored
<1>4. CommitsStayValid'
  <2>1. \A a \in Admins : Committing(a) => request[a].document \in Docs \ {d}
    BY DEF LockHeld, Committing, Typed, RequestsHaveDocuments
  <2>2. QED
    BY <2>1 DEF SiteInvariant, CommitsStayValid, Committing, assertPublishable,
                assertActiveSlugAvailable, Unmoved
<1>5. PointerMatchesStatus'
  BY DEF SiteInvariant, PointerMatchesStatus, Active
<1>6. ActiveSlugsDistinct'
  BY DEF SiteInvariant, ActiveSlugsDistinct, Active
<1>7. HomeIsServable'
  BY DEF SiteInvariant, HomeIsServable, Stored
<1>8. QED
  BY <1>1, <1>2, <1>3, <1>4, <1>5, <1>6, <1>7 DEF SiteInvariant

\* What superseding the publication of a document changes.
PublicationWithdrawn(d) ==
    \A p \in Publications :
        /\ publication'[p].document = publication[p].document
        /\ publication'[p].slug = publication[p].slug
        /\ publication'[p].content = publication[p].content
        /\ publication'[p].prepared_lock = publication[p].prepared_lock
        /\ publication'[p].source_revision = publication[p].source_revision
        /\ \/ publication'[p].status = publication[p].status
           \/ /\ p = document[d].active_publication
              /\ publication[p].status = "active"
              /\ publication'[p].status = "superseded"
        /\ p = document[d].active_publication => publication'[p].status # "active"

(* Superseding the active publication of a page withdraws it. *)
LEMMA SupersededWithdraws ==
  ASSUME Typed, NEW d \in Docs, publication' = Superseded(d)
  PROVE  PublicationWithdrawn(d)
  BY DEF PublicationWithdrawn, Superseded, Typed, TypeOK, PublicationRow

\* A step that withdraws the publication of a document nobody is committing:
\* unpublish and archive.
LEMMA Withdrawal ==
  ASSUME Typed, SiteInvariant, Typed',
         NEW d \in Docs, ~LockHeld(d), Stored(d), Stored(d)',
         \A e \in Docs \ {d} : document'[e] = document[e],
         document'[d].slug = document[d].slug,
         document'[d].lock_version = document[d].lock_version + 1,
         document'[d].active_publication = None,
         ~document'[d].is_home,
         PublicationWithdrawn(d),
         UNCHANGED request
  PROVE  SiteInvariant'
<1>1. PublicationWithdrawn(d)
  OBVIOUS
<1> USE DEF PublicationWithdrawn
<1>2. CommitsHoldTheirRows'
  BY <1>1 DEF SiteInvariant, CommitsHoldTheirRows, Committing
<1>3. DocumentsAreConsistent'
  <2>1. document[d].lock_version \in Nat
    BY DEF Typed, TypeOK, DocumentRow
  <2>2. QED
    BY <2>1 DEF SiteInvariant, DocumentsAreConsistent, Stored
<1>4. CandidatesAreConsistent'
  <2>1. ASSUME NEW p \in Publications
        PROVE  /\ publication[p].prepared_lock \in Nat
               /\ document[d].lock_version \in Nat
    BY DEF Typed, TypeOK, PublicationRow, DocumentRow
  <2>2. ASSUME NEW p \in Publications,
               publication'[p].status \in {"candidate", "active", "superseded"}
        PROVE  /\ publication'[p].document \in Docs
               /\ document'[publication'[p].document].state = "stored"
               /\ publication'[p].slug \in Slugs
               /\ publication'[p].content \in Contents
    BY <2>2 DEF SiteInvariant, CandidatesAreConsistent, Stored
  <2>3. ASSUME NEW p \in Publications, publication'[p].status = "candidate"
        PROVE  LET e == publication[p].document
               IN  /\ publication[p].prepared_lock <= document'[e].lock_version
                   /\ publication[p].prepared_lock = document'[e].lock_version
                        => publication[p].slug = document'[e].slug
    BY <2>1, <2>3 DEF SiteInvariant, CandidatesAreConsistent
  <2>4. QED
    BY <2>2, <2>3 DEF CandidatesAreConsistent, Stored
<1>5. CommitsStayValid'
  <2>1. \A a \in Admins : Committing(a) => request[a].document \in Docs \ {d}
    BY DEF LockHeld, Committing, Typed, RequestsHaveDocuments
  <2>2. \A a \in Admins : Committing(a) => request[a].publication \in Publications
    BY DEF SiteInvariant, CommitsHoldTheirRows
  <2>3. QED
    BY <1>1, <2>1, <2>2 DEF SiteInvariant, CommitsStayValid, Committing,
                assertPublishable, assertActiveSlugAvailable, Unmoved
<1>6. PointerMatchesStatus'
  <2>1. None \notin Publications
    BY ConstantsAssumption
  <2>2. \A p \in Publications : Active(p)' => Active(p) /\ publication[p].document # d
    BY <1>1 DEF SiteInvariant, PointerMatchesStatus, Active
  <2>3. \A e \in Docs \ {d} : document[e].active_publication # None
          => /\ document[e].active_publication \in Publications
             /\ document[e].active_publication # document[d].active_publication
    BY <2>1 DEF SiteInvariant, PointerMatchesStatus, Typed, TypeOK, DocumentRow
  <2>4. ASSUME NEW e \in Docs, document'[e].active_publication # None
        PROVE  LET p == document[e].active_publication
               IN  /\ p = document'[e].active_publication
                   /\ p \in Publications
                   /\ publication'[p].status = "active"
                   /\ publication'[p].document = e
    <3>1. e # d /\ document'[e] = document[e]
      BY <2>4
    <3>2. document[e].active_publication # document[d].active_publication
      BY <2>3, <2>4, <3>1
    <3>3. QED
      BY <2>3, <2>4, <3>1, <3>2
      DEF SiteInvariant, PointerMatchesStatus, Active
  <2>5. ASSUME NEW p \in Publications, publication'[p].status = "active"
        PROVE  /\ publication'[p].document \in Docs
               /\ document'[publication'[p].document].active_publication = p
    BY <2>2, <2>5 DEF SiteInvariant, PointerMatchesStatus, Active
  <2>6. QED
    BY <2>4, <2>5 DEF PointerMatchesStatus, Active
<1>7. ActiveSlugsDistinct'
  BY <1>1 DEF SiteInvariant, ActiveSlugsDistinct, Active
<1>8. HomeIsServable'
  BY DEF SiteInvariant, HomeIsServable, Stored
<1>9. QED
  BY <1>2, <1>3, <1>4, <1>5, <1>6, <1>7, <1>8 DEF SiteInvariant

(* Drafting never disturbs the public site. *)
LEMMA SiteDrafting ==
  ASSUME Typed, SiteInvariant, Typed', NEW a \in Admins, NEW d \in Docs,
         Drafting(a, d)
  PROVE  SiteInvariant'
<1>1. document[d] \in DocumentRow
  BY DEF Typed, TypeOK
<1>2. CASE Load(a, d)
  BY <1>2 DEF Load, SiteInvariant, CommitsHoldTheirRows, Committing,
      DocumentsAreConsistent, Stored, CandidatesAreConsistent, CommitsStayValid,
      assertPublishable, assertActiveSlugAvailable, PointerMatchesStatus, Active,
      ActiveSlugsDistinct, HomeIsServable, Unmoved
<1>3. ASSUME NEW s \in Slugs, NEW c \in Contents, lockDocument(d),
             AddRevision(a, d, s, c)
      PROVE  SiteInvariant'
  <2>1. /\ document'[d].slug = s
        /\ document'[d].state = document[d].state
        /\ document'[d].lock_version = document[d].lock_version + 1
        /\ document'[d].active_publication = document[d].active_publication
        /\ document'[d].archived = document[d].archived
        /\ document'[d].is_home = document[d].is_home
        /\ \A e \in Docs \ {d} : document'[e] = document[e]
    BY <1>1, <1>3 DEF AddRevision, Typed, TypeOK, DocumentRow
  <2>2. QED
    BY <1>3, <2>1, RowChange
    DEF AddRevision, lockDocument, assertSlugAvailable, Stored
<1>4. CASE \E s \in Slugs : updateMetadata(a, d, s)
  <2>1. \A r \in CurrentRow(d) : r.content \in Contents
    BY DEF CurrentRow, Typed, TypeOK, RevisionRow
  <2>2. QED
    BY <1>3, <1>4, <2>1 DEF updateMetadata
<1>5. CASE \E s \in Slugs, c \in Contents : saveDraft(a, d, s, c)
  BY <1>3, <1>5 DEF saveDraft
<1>6. CASE \E r \in revisions : restoreRevision(a, d, r)
  <2>1. \A r \in revisions : r.slug \in Slugs /\ r.content \in Contents
    BY DEF Typed, TypeOK, RevisionRow
  <2>2. QED
    BY <1>3, <1>6, <2>1 DEF restoreRevision
<1>7. CASE \E s \in Slugs, c \in Contents : create(a, d, s, c)
  <2> PICK s \in Slugs, c \in Contents : create(a, d, s, c)
    BY <1>7
  <2>1. /\ document'[d].state = "stored"
        /\ document'[d].slug = s
        /\ document'[d].lock_version = 1
        /\ document'[d].active_publication = None
        /\ ~document'[d].archived
        /\ ~document'[d].is_home
        /\ \A e \in Docs \ {d} : document'[e] = document[e]
        /\ publication' = publication /\ request' = request
    BY DEF create, Typed, TypeOK
  <2>2. ~Stored(d) /\ document[d].active_publication = None /\ ~document[d].is_home
    <3>1. ~Stored(d)
      BY DEF create, Stored
    <3>2. document[d] = NoRow(document[d].state)
      BY <3>1 DEF SiteInvariant, DocumentsAreConsistent
    <3>3. NoRow(document[d].state).active_publication = None
          /\ NoRow(document[d].state).is_home = FALSE
      BY DEF NoRow
    <3>4. QED
      BY <3>1, <3>2, <3>3
  <2>3. \A p \in Publications :
           publication[p].status \in {"candidate", "active", "superseded"}
             => publication[p].document # d
    BY <2>2 DEF SiteInvariant, CandidatesAreConsistent
  <2>4. \A b \in Admins : Committing(b) => request[b].document \in Docs \ {d}
    BY <2>3 DEF SiteInvariant, CommitsHoldTheirRows, Typed, RequestsHaveDocuments,
                Committing
  <2>5. CommitsHoldTheirRows'
    BY <2>1 DEF SiteInvariant, CommitsHoldTheirRows, Committing
  <2>6. DocumentsAreConsistent'
    BY <2>1 DEF create, assertSlugAvailable, SiteInvariant,
                DocumentsAreConsistent, Stored
  <2>7. CandidatesAreConsistent'
    BY <2>1, <2>3 DEF SiteInvariant, CandidatesAreConsistent, Stored
  <2>8. CommitsStayValid'
    BY <2>1, <2>4 DEF SiteInvariant, CommitsStayValid, Committing,
                      assertPublishable, assertActiveSlugAvailable, Unmoved
  <2>9. PointerMatchesStatus' /\ ActiveSlugsDistinct'
    BY <2>1, <2>2, <2>3
    DEF SiteInvariant, PointerMatchesStatus, ActiveSlugsDistinct, Active
  <2>10. HomeIsServable'
    BY <2>1 DEF SiteInvariant, HomeIsServable, Stored
  <2>11. QED
    BY <2>5, <2>6, <2>7, <2>8, <2>9, <2>10 DEF SiteInvariant
<1>8. QED
  BY <1>2, <1>4, <1>5, <1>6, <1>7 DEF Drafting

(* Naming a home keeps one home, and a public one. *)
LEMMA SiteSetHome ==
  ASSUME Typed, SiteInvariant, Typed', NEW a \in Admins, NEW d \in Docs,
         setHome(a, d)
  PROVE  SiteInvariant'
<1>1. \A e \in Docs : document[e] \in DocumentRow
  BY DEF Typed, TypeOK
<1>2. \A b \in Admins : ~Committing(b)
  BY DEF setHome, LockHeld, Committing, Typed, RequestsHaveDocuments
<1>3. ASSUME NEW e \in Docs
      PROVE  /\ document'[e].state = document[e].state
             /\ document'[e].slug = document[e].slug
             /\ document'[e].active_publication = document[e].active_publication
             /\ document'[e].archived = document[e].archived
             /\ \/ document'[e].lock_version = document[e].lock_version + 1
                \/ document'[e] = document[e]
  BY <1>1 DEF setHome, DocumentRow
<1>4. ASSUME NEW e \in Docs
      PROVE  document'[e].is_home => e = d
  <2>1. CASE document[e].is_home
    BY <1>1, <2>1 DEF setHome, DocumentRow
  <2>2. CASE ~document[e].is_home
    BY <1>1, <2>2 DEF setHome, DocumentRow
  <2>3. QED
    BY <2>1, <2>2
<1>5. UNCHANGED <<publication, request>>
  BY DEF setHome
<1>6. CommitsHoldTheirRows' /\ CommitsStayValid'
  BY <1>2, <1>5 DEF CommitsHoldTheirRows, CommitsStayValid, Committing, Unmoved
<1>7. DocumentsAreConsistent'
  <2>1. ASSUME NEW e \in Docs, ~Stored(e)
        PROVE  document'[e] = document[e]
    <3>1. ~document[e].is_home
      BY <2>1 DEF SiteInvariant, HomeIsServable
    <3>2. e # d
      BY <2>1 DEF setHome
    <3>3. QED
      BY <3>1, <3>2 DEF setHome
  <2>2. ASSUME NEW e \in Docs
        PROVE  document[e].lock_version \in Nat
    BY <1>1 DEF DocumentRow
  <2>3. QED
    BY <1>3, <2>1, <2>2 DEF SiteInvariant, DocumentsAreConsistent, Stored
<1>8. CandidatesAreConsistent'
  <2>1. ASSUME NEW p \in Publications, NEW e \in Docs
        PROVE  /\ publication[p].prepared_lock \in Nat
               /\ document[e].lock_version \in Nat
    BY <1>1 DEF Typed, TypeOK, PublicationRow, DocumentRow
  <2>2. QED
    BY <1>3, <1>5, <2>1 DEF SiteInvariant, CandidatesAreConsistent, Stored
<1>9. PointerMatchesStatus' /\ ActiveSlugsDistinct'
  BY <1>3, <1>5 DEF SiteInvariant, PointerMatchesStatus, ActiveSlugsDistinct, Active
<1>10. HomeIsServable'
  BY <1>3, <1>4 DEF HomeIsServable, setHome, Stored, assertPublishable
<1>11. QED
  BY <1>6, <1>7, <1>8, <1>9, <1>10 DEF SiteInvariant

(* Purging a page keeps the site consistent. *)
LEMMA SitePurge ==
  ASSUME Typed, SiteInvariant, Typed', NEW a \in Admins, NEW d \in Docs,
         purge(a, d)
  PROVE  SiteInvariant'
<1>1. /\ document'[d] = NoRow("purged")
      /\ document'[d].state = "purged"
      /\ document'[d].active_publication = None
      /\ ~document'[d].archived
      /\ ~document'[d].is_home
      /\ \A e \in Docs \ {d} : document'[e] = document[e]
      /\ request' = request
  BY DEF purge, NoRow, Typed, TypeOK
<1>2. ASSUME NEW p \in Publications
      PROVE  \/ publication[p].document # d /\ publication'[p] = publication[p]
             \/ publication[p].document = d /\ publication'[p].status = "deleted"
  BY DEF purge, NoPublication
<1>3. \A p \in Publications : Active(p) => publication[p].document # d
  BY ConstantsAssumption DEF purge, SiteInvariant, PointerMatchesStatus
<1>4. \A b \in Admins : Committing(b) =>
         /\ request[b].document \in Docs \ {d}
         /\ request[b].publication \in Publications
         /\ publication[request[b].publication].document = request[b].document
  BY DEF purge, lockDocument, LockHeld, Committing, SiteInvariant,
         CommitsHoldTheirRows, Typed, RequestsHaveDocuments
<1>5. CommitsHoldTheirRows'
  BY <1>1, <1>2, <1>4 DEF SiteInvariant, CommitsHoldTheirRows, Committing
<1>6. DocumentsAreConsistent'
  BY <1>1 DEF SiteInvariant, DocumentsAreConsistent, Stored
<1>7. CandidatesAreConsistent'
  BY <1>1, <1>2 DEF SiteInvariant, CandidatesAreConsistent, Stored
<1>8. CommitsStayValid'
  BY <1>1, <1>2, <1>4 DEF SiteInvariant, CommitsStayValid, Committing,
      assertPublishable, assertActiveSlugAvailable, Unmoved
<1>9. PointerMatchesStatus'
  <2>1. ASSUME NEW e \in Docs \ {d}, document[e].active_publication # None
        PROVE  /\ document[e].active_publication \in Publications
               /\ publication[document[e].active_publication].document = e
    BY <2>1 DEF SiteInvariant, PointerMatchesStatus, Typed, TypeOK, DocumentRow
  <2>2. QED
    BY <1>1, <1>2, <1>3, <2>1 DEF SiteInvariant, PointerMatchesStatus, Active
<1>10. ActiveSlugsDistinct'
  BY <1>2 DEF SiteInvariant, ActiveSlugsDistinct, Active
<1>11. HomeIsServable'
  BY <1>1 DEF SiteInvariant, HomeIsServable, Stored
<1>12. QED
  BY <1>5, <1>6, <1>7, <1>8, <1>9, <1>10, <1>11 DEF SiteInvariant

(* Each step of a page's life keeps the site consistent. *)
LEMMA SiteLifecycle ==
  ASSUME Typed, SiteInvariant, Typed', NEW a \in Admins, NEW d \in Docs,
         Lifecycle(a, d)
  PROVE  SiteInvariant'
<1>1. document[d] \in DocumentRow /\ document \in [Docs -> DocumentRow]
  BY DEF Typed, TypeOK
<1>2. Stored(d) => document[d].slug \in Slugs
  BY DEF SiteInvariant, DocumentsAreConsistent
<1>3. \A e \in Docs \ {d} : Stored(d) /\ Stored(e) => document[e].slug # document[d].slug
  BY DEF SiteInvariant, DocumentsAreConsistent
<1>4. CASE unpublish(a, d)
  BY <1>1, <1>4, Withdrawal, SupersededWithdraws
  DEF unpublish, lockDocument, Stored, DocumentRow
<1>5. CASE archive(a, d)
  BY <1>1, <1>5, Withdrawal, SupersededWithdraws
  DEF archive, lockDocument, Stored, DocumentRow
<1>6. CASE restoreArchived(a, d)
  BY <1>1, <1>2, <1>3, <1>6, RowChange
  DEF restoreArchived, lockDocument, Stored, DocumentRow
<1>7. CASE clearHome(a, d)
  BY <1>1, <1>2, <1>3, <1>7, RowChange DEF clearHome, Stored, DocumentRow
<1>8. QED
  BY <1>4, <1>5, <1>6, <1>7, SitePurge, SiteSetHome DEF Lifecycle

(* Storing a candidate shows nobody anything. *)
LEMMA SiteCandidate ==
  ASSUME Typed, SiteInvariant, Typed', NEW a \in Admins, NEW p \in Publications,
         storePublicationCandidate(a, p)
  PROVE  SiteInvariant'
<1> DEFINE d == request[a].document
<1>1. d \in Docs /\ Stored(d)
  BY DEF storePublicationCandidate, lockDocument, Typed, RequestsHaveDocuments,
      Unmoved, NewPublication
<1>2. /\ publication'[p].status = "candidate"
      /\ publication'[p].document = d
      /\ publication'[p].slug = document[d].slug
      /\ publication'[p].content \in Contents
      /\ publication'[p].prepared_lock = document[d].lock_version
      /\ \A q \in Publications \ {p} : publication'[q] = publication[q]
      /\ publication[p].status = "none"
  BY DEF storePublicationCandidate, Typed, TypeOK, RequestsHaveDocuments,
      Unmoved, NewPublication
<1>3. /\ document' = document
      /\ \A b \in Admins : Committing(b)' =>
            /\ Committing(b)
            /\ request'[b] = request[b]
            /\ request[b].publication # p
            /\ request[b].publication \in Publications
  BY <1>2 DEF storePublicationCandidate, Committing, Idle, Typed, TypeOK,
              SiteInvariant, CommitsHoldTheirRows, Unmoved, NewPublication
<1>4. CommitsHoldTheirRows'
  BY <1>2, <1>3 DEF SiteInvariant, CommitsHoldTheirRows, Committing
<1>5. DocumentsAreConsistent' /\ HomeIsServable'
  BY <1>3 DEF SiteInvariant, DocumentsAreConsistent, HomeIsServable, Stored
<1>6. CandidatesAreConsistent'
  <2>1. document[d].slug \in Slugs /\ document[d].lock_version \in Nat
    BY <1>1 DEF SiteInvariant, DocumentsAreConsistent, Typed, TypeOK, DocumentRow
  <2>2. QED
    BY <1>1, <1>2, <1>3, <2>1 DEF SiteInvariant, CandidatesAreConsistent, Stored
<1>7. CommitsStayValid'
  BY <1>2, <1>3 DEF SiteInvariant, CommitsStayValid, Committing,
      assertPublishable, assertActiveSlugAvailable, Unmoved
<1>8. PointerMatchesStatus' /\ ActiveSlugsDistinct'
  <2>1. \A e \in Docs : document[e].active_publication # None
           => document[e].active_publication \in Publications \ {p}
    BY <1>2 DEF SiteInvariant, PointerMatchesStatus, Active, Typed, TypeOK,
                DocumentRow
  <2>2. \A q \in Publications : publication'[q].status = "active" => q # p
    BY <1>2
  <2>3. QED
    BY <1>2, <1>3, <2>1, <2>2
    DEF SiteInvariant, PointerMatchesStatus, ActiveSlugsDistinct, Active
<1>9. QED
  BY <1>4, <1>5, <1>6, <1>7, <1>8 DEF SiteInvariant

(* Claiming the locks of a commit keeps the site consistent. *)
LEMMA SiteCommit ==
  ASSUME Typed, SiteInvariant, Typed', NEW a \in Admins, NEW p \in Publications,
         commitPublication(a, p)
  PROVE  SiteInvariant'
<1> DEFINE d == publication[p].document
<1>1. d \in Docs /\ \A b \in Admins : Committing(b) => request[b].document # d
  BY DEF commitPublication, lockDocument, LockHeld, Committing, Typed,
         PublicationsHaveDocuments, Unmoved
<1>2. /\ request'[a].document = d
      /\ request'[a].publication = p
      /\ \A b \in Admins \ {a} : request'[b] = request[b]
      /\ UNCHANGED <<document, publication>>
  BY DEF commitPublication, Typed, TypeOK, Unmoved
<1>3. CommitsHoldTheirRows'
  BY <1>1, <1>2 DEF commitPublication, SiteInvariant, CommitsHoldTheirRows, Committing,
      Unmoved
<1>4. CommitsStayValid'
  <2>1. ASSUME NEW b \in Admins, Committing(b)'
        PROVE  LET q == request'[b].publication
                   e == request'[b].document
               IN  /\ publication[q].prepared_lock = document[e].lock_version
                   /\ document[e].current_revision = publication[q].source_revision
                   /\ assertPublishable(e)
                   /\ assertActiveSlugAvailable(publication[q].slug, e)
    <3>1. CASE b = a
      BY <1>2, <3>1 DEF commitPublication, Unmoved
    <3>2. CASE b # a
      BY <1>2, <2>1, <3>2 DEF SiteInvariant, CommitsStayValid, Committing,
      Unmoved
    <3>3. QED
      BY <3>1, <3>2
  <2>2. QED
    BY <1>2, <2>1 DEF CommitsStayValid, assertPublishable, assertActiveSlugAvailable,
      Unmoved
<1>5. QED
  BY <1>2, <1>3, <1>4
  DEF SiteInvariant, DocumentsAreConsistent, Stored, CandidatesAreConsistent,
      PointerMatchesStatus, Active, ActiveSlugsDistinct, HomeIsServable

(* The writes of a commit replace one public page by the next. *)
LEMMA SiteCommitWrites ==
  ASSUME Typed, SiteInvariant, Typed', NEW a \in Admins, CommitWrites(a)
  PROVE  SiteInvariant'
<1> DEFINE p == request[a].publication
           d == request[a].document
<1>1. /\ Committing(a)
      /\ p \in Publications /\ d \in Docs
      /\ publication[p].status = "candidate"
      /\ publication[p].document = d
      /\ publication[p].prepared_lock = document[d].lock_version
      /\ assertPublishable(d)
      /\ \A b \in Admins \ {a} : Committing(b) => request[b].document # d
  BY DEF CommitWrites, SiteInvariant, CommitsHoldTheirRows, CommitsStayValid,
         Committing, Typed, RequestsHaveDocuments, Unmoved
<1>2. Stored(d) /\ publication[p].slug = document[d].slug
  BY <1>1 DEF SiteInvariant, CandidatesAreConsistent
<1>3. \A q \in Publications :
         publication[q].status = "active" /\ publication[q].slug = publication[p].slug
           => publication[q].document = d
  BY <1>1 DEF SiteInvariant, CommitsStayValid, assertActiveSlugAvailable, Unmoved
<1>4. /\ document'[d].active_publication = p
      /\ document'[d].state = document[d].state
      /\ document'[d].slug = document[d].slug
      /\ document'[d].lock_version = document[d].lock_version
      /\ document'[d].current_revision = document[d].current_revision
      /\ document'[d].archived = document[d].archived
      /\ document'[d].is_home = document[d].is_home
      /\ \A e \in Docs \ {d} : document'[e] = document[e]
  BY <1>1 DEF CommitWrites, Typed, TypeOK, DocumentRow
<1>5. ASSUME NEW q \in Publications
      PROVE  /\ publication'[q].document = publication[q].document
             /\ publication'[q].slug = publication[q].slug
             /\ publication'[q].content = publication[q].content
             /\ publication'[q].prepared_lock = publication[q].prepared_lock
             /\ publication'[q].source_revision = publication[q].source_revision
             /\ publication'[q].status =
                  IF q = p THEN "active"
                  ELSE IF q = document[d].active_publication
                          /\ publication[q].status = "active"
                  THEN "superseded" ELSE publication[q].status
  <2>1. publication' = [Superseded(d) EXCEPT ![p].status = "active"]
    BY DEF CommitWrites
  <2>2. Superseded(d)[q] =
          IF q = document[d].active_publication /\ publication[q].status = "active"
          THEN [publication[q] EXCEPT !.status = "superseded"]
          ELSE publication[q]
    BY DEF Superseded
  <2>3. Superseded(d) \in [Publications -> PublicationRow]
    BY <1>1, SupersededType
  <2>4. publication[q] \in PublicationRow
    BY DEF Typed, TypeOK
  <2>5. publication'[q] = IF q = p THEN [Superseded(d)[q] EXCEPT !.status = "active"]
                          ELSE Superseded(d)[q]
    BY <1>1, <2>1, <2>3
  <2> HIDE DEF p, d
  <2>6. QED
    BY <2>2, <2>4, <2>5 DEF PublicationRow
<1>6. /\ ~Committing(a)'
      /\ \A b \in Admins \ {a} : request'[b] = request[b]
  BY DEF CommitWrites, Committing, Idle, Typed, TypeOK
<1>7. \A b \in Admins \ {a} : Committing(b) =>
         /\ request[b].publication \in Publications \ {p}
         /\ request[b].document \in Docs \ {d}
         /\ publication[request[b].publication].status = "candidate"
         /\ publication[request[b].publication].document = request[b].document
  BY <1>1 DEF SiteInvariant, CommitsHoldTheirRows, Committing, Typed,
              RequestsHaveDocuments
<1>8. CommitsHoldTheirRows'
  BY <1>5, <1>6, <1>7 DEF SiteInvariant, CommitsHoldTheirRows, Committing
<1>9. DocumentsAreConsistent'
  BY <1>1, <1>2, <1>4 DEF SiteInvariant, DocumentsAreConsistent, Stored,
                          assertPublishable
<1>10. CandidatesAreConsistent'
  BY <1>1, <1>2, <1>4, <1>5 DEF SiteInvariant, CandidatesAreConsistent, Stored
<1>11. CommitsStayValid'
  <2> SUFFICES ASSUME NEW b \in Admins \ {a}, Committing(b),
                      NEW q \in Publications,
                      publication'[q].status = "active",
                      publication'[q].slug = publication[request[b].publication].slug
               PROVE  publication'[q].document = request[b].document
    BY <1>4, <1>5, <1>6, <1>7 DEF SiteInvariant, CommitsStayValid, Committing,
       assertPublishable, assertActiveSlugAvailable, Unmoved
  <2>1. /\ publication[request[b].publication].slug = document[request[b].document].slug
        /\ Stored(request[b].document)
    BY <1>7 DEF SiteInvariant, CandidatesAreConsistent, CommitsStayValid, Unmoved
  <2>2. document[request[b].document].slug # document[d].slug
    BY <1>1, <1>2, <1>7, <2>1 DEF SiteInvariant, DocumentsAreConsistent
  <2>3. q # p
    BY <1>2, <1>5, <2>1, <2>2
  <2>4. publication[q].status = "active"
    BY <1>5, <2>3
  <2>5. QED
    BY <1>5, <2>4 DEF SiteInvariant, CommitsStayValid, assertActiveSlugAvailable,
      Unmoved
<1>12. PointerMatchesStatus'
  <2>1. ASSUME NEW e \in Docs, document'[e].active_publication # None
        PROVE  LET q == document'[e].active_publication
               IN  publication'[q].status = "active" /\ publication'[q].document = e
    <3>1. CASE e = d
      BY <1>1, <1>4, <1>5, <3>1
    <3>2. CASE e # d
      <4>1. document'[e] = document[e]
        BY <1>4, <3>2
      <4>2. /\ document[e].active_publication \in Publications
            /\ publication[document[e].active_publication].status = "active"
            /\ publication[document[e].active_publication].document = e
        BY <2>1, <4>1 DEF SiteInvariant, PointerMatchesStatus, Active, Typed,
                          TypeOK, DocumentRow
      <4>3. document[e].active_publication # document[d].active_publication
        BY ConstantsAssumption, <1>1, <3>2, <4>2
        DEF SiteInvariant, PointerMatchesStatus
      <4>4. QED
        BY <1>1, <1>5, <4>1, <4>2, <4>3
    <3>3. QED
      BY <3>1, <3>2
  <2>2. ASSUME NEW q \in Publications, publication'[q].status = "active"
        PROVE  /\ publication'[q].document \in Docs
               /\ document'[publication'[q].document].active_publication = q
    <3>1. CASE q = p
      BY <1>1, <1>4, <1>5, <3>1
    <3>2. CASE q # p
      BY <1>1, <1>4, <1>5, <2>2, <3>2 DEF SiteInvariant, PointerMatchesStatus, Active
    <3>3. QED
      BY <3>1, <3>2
  <2>3. QED
    BY <2>1, <2>2 DEF PointerMatchesStatus, Active
<1>13. ActiveSlugsDistinct'
  <2>1. ASSUME NEW q \in Publications \ {p}, publication'[q].status = "active"
        PROVE  publication[q].status = "active" /\ publication[q].slug # publication[p].slug
    BY <1>1, <1>3, <1>5, <2>1 DEF SiteInvariant, PointerMatchesStatus, Active
  <2>2. QED
    BY <1>5, <2>1 DEF SiteInvariant, ActiveSlugsDistinct, Active
<1>14. HomeIsServable'
  BY ConstantsAssumption, <1>1, <1>2, <1>4 DEF SiteInvariant, HomeIsServable, Stored
<1>15. QED
  BY <1>8, <1>9, <1>10, <1>11, <1>12, <1>13, <1>14 DEF SiteInvariant

(* Every step keeps the site consistent. *)
LEMMA SiteStep == Typed /\ SiteInvariant /\ [Next]_vars => SiteInvariant'
<1> SUFFICES ASSUME Typed, SiteInvariant, [Next]_vars
             PROVE  SiteInvariant'
  OBVIOUS
<1>1. Typed'
  BY TypedStep
<1>2. ASSUME UNCHANGED <<document, publication>>,
             \A a \in Admins : Committing(a)' =>
                Committing(a) /\ request'[a] = request[a]
      PROVE  SiteInvariant'
  BY <1>2 DEF SiteInvariant, CommitsHoldTheirRows, Committing,
      DocumentsAreConsistent, Stored, CandidatesAreConsistent, CommitsStayValid,
      assertPublishable, assertActiveSlugAvailable, PointerMatchesStatus, Active,
      ActiveSlugsDistinct, HomeIsServable, Unmoved
<1>3. ASSUME NEW a \in Admins, \E d \in Docs : preparePublication(a, d)
      PROVE  SiteInvariant'
  BY <1>2, <1>3 DEF preparePublication, Committing, Typed, TypeOK
<1>4. ASSUME NEW a \in Admins, Abandon(a)
      PROVE  SiteInvariant'
  BY <1>2, <1>4 DEF Abandon, Committing, Idle, Typed, TypeOK
<1>5. ASSUME NEW a \in Admins, Publishing(a)
      PROVE  SiteInvariant'
  BY <1>1, <1>3, <1>4, <1>5, SiteCandidate, SiteCommit, SiteCommitWrites
  DEF Publishing
<1>6. ASSUME NEW p \in Publications, Expire(p)
      PROVE  SiteInvariant'
  <2>1. ASSUME NEW q \in Publications
        PROVE  /\ publication'[q].status = publication[q].status
               /\ publication'[q].document = publication[q].document
               /\ publication'[q].slug = publication[q].slug
               /\ publication'[q].content = publication[q].content
             /\ publication'[q].content = publication[q].content
               /\ publication'[q].prepared_lock = publication[q].prepared_lock
               /\ publication'[q].source_revision = publication[q].source_revision
    BY <1>6 DEF Expire, Typed, TypeOK, PublicationRow
  <2>2. QED
    BY <1>6, <2>1 DEF Expire, SiteInvariant, CommitsHoldTheirRows, Committing,
      DocumentsAreConsistent, Stored, CandidatesAreConsistent, CommitsStayValid,
      assertPublishable, assertActiveSlugAvailable, PointerMatchesStatus, Active,
      ActiveSlugsDistinct, HomeIsServable, Unmoved
<1>7. CASE UNCHANGED vars
  BY <1>2, <1>7 DEF vars, Committing
<1>8. QED
  BY <1>1, <1>5, <1>6, <1>7, SiteDrafting, SiteLifecycle DEF Next

\* In every reachable state the pointers agree with the statuses, no two pages
\* share a public slug and at most one page, a public one, is home.
THEOREM SiteIsConsistent == Spec => []SiteInvariant
<1>1. Init => Typed /\ SiteInvariant
  BY TypedInit, SiteInit
<1>2. Typed /\ SiteInvariant /\ [Next]_vars => (Typed /\ SiteInvariant)'
  BY TypedStep, SiteStep
<1>3. QED
  BY <1>1, <1>2, PTL DEF Spec

\* A public slug leads to one page, whatever interleaving of commits, renames,
\* restores and purges: the slug test of a commit reads rows it does not lock.
THEOREM PublicSlugsAreDistinct == Spec => []ActiveSlugsDistinct
<1>1. SiteInvariant => ActiveSlugsDistinct
  BY DEF SiteInvariant
<1>2. QED
  BY SiteIsConsistent, <1>1, PTL

\* The two records of what is public, in two tables, never disagree.
THEOREM PointersMatchStatuses == Spec => []PointerMatchesStatus
<1>1. SiteInvariant => PointerMatchesStatus
  BY DEF SiteInvariant
<1>2. QED
  BY SiteIsConsistent, <1>1, PTL

\* The home is one public, unarchived page, or none.
THEOREM HomesAreServable == Spec => []HomeIsServable
<1>1. SiteInvariant => HomeIsServable
  BY DEF SiteInvariant
<1>2. QED
  BY SiteIsConsistent, <1>1, PTL
-----------------------------------------------------------------------------
(***************************************************************************)
(* PagePublication implements PublishedSite: every transaction is one      *)
(* change of the published site, or none that a visitor could see.         *)
(***************************************************************************)

(* What a pointer publishes is a page with the slug of its publication. *)
LEMMA PageOfPublished ==
  ASSUME Typed, SiteInvariant, NEW d \in Docs,
         document[d].active_publication # None
  PROVE  /\ document[d].active_publication \in Publications
         /\ PublicPage[d] \in [slug : Slugs, content : Contents]
         /\ PublicPage[d].slug = publication[document[d].active_publication].slug
         /\ PublicPage[d] # None
<1> DEFINE p == document[d].active_publication
<1>1. p \in Publications /\ publication[p].status = "active"
  BY DEF SiteInvariant, PointerMatchesStatus, Active, Typed, TypeOK, DocumentRow
<1>2. publication[p].slug \in Slugs /\ publication[p].content \in Contents
  BY <1>1 DEF SiteInvariant, CandidatesAreConsistent
<1>3. PublicPage[d] = [slug |-> publication[p].slug,
                       content |-> publication[p].content]
  BY DEF PublicPage
<1>4. QED
  BY <1>1, <1>2, <1>3, ConstantsAssumption

\* A step that moves no pointer and no home, and keeps what the publications
\* in use publish, changes nothing for a visitor.
LEMMA InvisibleStep ==
  ASSUME Typed, SiteInvariant,
         \A d \in Docs :
            /\ document'[d].active_publication = document[d].active_publication
            /\ document'[d].is_home = document[d].is_home,
         \A p \in Publications : publication[p].status = "active" =>
            /\ publication'[p].slug = publication[p].slug
            /\ publication'[p].content = publication[p].content
  PROVE  UNCHANGED <<PublicPage, Homes>>
<1>1. ASSUME NEW d \in Docs, document[d].active_publication # None
      PROVE  LET p == document[d].active_publication
             IN  /\ publication'[p].slug = publication[p].slug
                 /\ publication'[p].content = publication[p].content
  BY <1>1, PageOfPublished DEF SiteInvariant, PointerMatchesStatus, Active
<1>2. PublicPage' = PublicPage
  BY <1>1 DEF PublicPage
<1>3. Homes' = Homes
  BY DEF Homes
<1>4. QED
  BY <1>2, <1>3

\* unpublish and archive, when there is something to withdraw.
LEMMA WithdrawalIsVisible ==
  ASSUME Typed, SiteInvariant, NEW d \in Docs,
         document[d].active_publication # None,
         PublicationWithdrawn(d),
         \A e \in Docs \ {d} : document'[e] = document[e],
         document'[d].active_publication = None,
         ~document'[d].is_home
  PROVE  Site!Withdraw(d)
<1>1. PublicPage[d] # None
  BY PageOfPublished
<1>2. ASSUME NEW e \in Docs \ {d}
      PROVE  PublicPage'[e] = PublicPage[e]
  <2>1. document[e].active_publication # None =>
            document[e].active_publication \in Publications
    BY PageOfPublished
  <2>2. QED
    BY <2>1 DEF PublicPage, PublicationWithdrawn
<1>3. PublicPage'[d] = None
  BY DEF PublicPage
<1>4. PublicPage' = [PublicPage EXCEPT ![d] = None]
  BY <1>2, <1>3 DEF PublicPage
<1>5. Homes' = Homes \ {d}
  BY DEF Homes
<1>6. QED
  BY <1>1, <1>4, <1>5 DEF Site!Withdraw

\* A commit shows a page under a slug no other document shows.
LEMMA CommitPublishes ==
  ASSUME Typed, SiteInvariant, NEW a \in Admins, CommitWrites(a)
  PROVE  \E d \in Docs : \E page \in Site!Page : Site!Publish(d, page)
<1> DEFINE p == request[a].publication
           d == request[a].document
           page == [slug |-> publication[p].slug, content |-> publication[p].content]
<1>1. /\ p \in Publications /\ d \in Docs
      /\ publication[p].status = "candidate"
      /\ assertActiveSlugAvailable(publication[p].slug, d)
  BY DEF CommitWrites, SiteInvariant, CommitsHoldTheirRows, CommitsStayValid,
         Committing, Typed, RequestsHaveDocuments, Unmoved
<1>2. page \in Site!Page
  BY <1>1 DEF SiteInvariant, CandidatesAreConsistent, Site!Page
<1>3. /\ document'[d].active_publication = p
      /\ \A e \in Docs : document'[e].is_home = document[e].is_home
      /\ \A e \in Docs \ {d} : document'[e] = document[e]
  BY <1>1 DEF CommitWrites, Typed, TypeOK, DocumentRow
<1>4. ASSUME NEW q \in Publications
      PROVE  /\ publication'[q].slug = publication[q].slug
             /\ publication'[q].content = publication[q].content
  <2>1. Superseded(d)[q] \in PublicationRow /\ Superseded(d) \in [Publications -> PublicationRow]
    BY <1>1, SupersededType
  <2>2. Superseded(d)[q].slug = publication[q].slug
        /\ Superseded(d)[q].content = publication[q].content
    BY DEF Superseded, Typed, TypeOK, PublicationRow
  <2>3. publication'[q] = IF q = p THEN [Superseded(d)[q] EXCEPT !.status = "active"]
                          ELSE Superseded(d)[q]
    BY <1>1, <2>1 DEF CommitWrites
  <2> HIDE DEF p, d
  <2>4. QED
    BY <2>1, <2>2, <2>3 DEF PublicationRow
<1>5. p # None
  BY <1>1, ConstantsAssumption
<1>6. PublicPage'[d] = page
  BY <1>1, <1>3, <1>4, <1>5 DEF PublicPage
<1>7. ASSUME NEW e \in Docs \ {d}
      PROVE  PublicPage'[e] = PublicPage[e]
  <2>1. document[e].active_publication # None =>
            document[e].active_publication \in Publications
    BY PageOfPublished
  <2>2. QED
    BY <1>3, <1>4, <2>1 DEF PublicPage
<1>8. PublicPage' = [PublicPage EXCEPT ![d] = page]
  BY <1>1, <1>6, <1>7 DEF PublicPage
<1>9. Homes' = Homes
  BY <1>3 DEF Homes
<1>10. ASSUME NEW e \in Docs \ {d}, PublicPage[e] # None
       PROVE  PublicPage[e].slug # page.slug
  <2>1. document[e].active_publication # None
    BY <1>10 DEF PublicPage
  <2>2. /\ publication[document[e].active_publication].status = "active"
        /\ publication[document[e].active_publication].document = e
        /\ document[e].active_publication \in Publications
    BY <2>1, PageOfPublished DEF SiteInvariant, PointerMatchesStatus, Active
  <2>3. QED
    BY <1>1, <2>1, <2>2, PageOfPublished DEF assertActiveSlugAvailable
<1>11. Site!Publish(d, page)
  BY <1>8, <1>9, <1>10 DEF Site!Publish
<1>12. QED
  BY <1>1, <1>2, <1>11

(* Every step publishes, withdraws, names a home or is not seen from outside. *)
LEMMA SiteNext ==
  Typed /\ SiteInvariant /\ [Next]_vars => [Site!Next]_<<PublicPage, Homes>>
<1> SUFFICES ASSUME Typed, SiteInvariant, [Next]_vars
             PROVE  Site!Next \/ UNCHANGED <<PublicPage, Homes>>
  OBVIOUS
<1>1. ASSUME UNCHANGED publication,
             \A d \in Docs :
                /\ document'[d].active_publication = document[d].active_publication
                /\ document'[d].is_home = document[d].is_home
      PROVE  UNCHANGED <<PublicPage, Homes>>
  BY <1>1, InvisibleStep
<1>2. ASSUME NEW d \in Docs, ~Stored(d)
      PROVE  document[d].active_publication = None /\ document[d].is_home = FALSE
  <2>1. document[d] = NoRow(document[d].state)
    BY <1>2 DEF SiteInvariant, DocumentsAreConsistent
  <2>2. NoRow(document[d].state).active_publication = None
        /\ NoRow(document[d].state).is_home = FALSE
    BY DEF NoRow
  <2>3. QED
    BY <2>1, <2>2
<1>3. ASSUME NEW a \in Admins, NEW d \in Docs, Drafting(a, d)
      PROVE  UNCHANGED <<PublicPage, Homes>>
  <2>1. CASE \E s \in Slugs, c \in Contents : create(a, d, s, c)
    <3>1. /\ document'[d].active_publication = None
          /\ document'[d].is_home = FALSE
          /\ ~Stored(d)
          /\ UNCHANGED publication
          /\ \A e \in Docs \ {d} : document'[e] = document[e]
      BY <2>1 DEF create, Stored, Typed, TypeOK
    <3>2. QED
      BY <1>1, <1>2, <3>1
  <2>2. ASSUME NEW s \in Slugs, NEW c \in Contents, AddRevision(a, d, s, c)
        PROVE  UNCHANGED <<PublicPage, Homes>>
    BY <1>1, <2>2 DEF AddRevision, Typed, TypeOK, DocumentRow
  <2>3. \A r \in revisions : r.slug \in Slugs /\ r.content \in Contents
    BY DEF Typed, TypeOK, RevisionRow
  <2>4. CASE Load(a, d)
    BY <1>1, <2>4 DEF Load
  <2>5. CASE \E s \in Slugs : updateMetadata(a, d, s)
    BY <2>2, <2>3, <2>5 DEF updateMetadata, CurrentRow
  <2>6. CASE \E s \in Slugs, c \in Contents : saveDraft(a, d, s, c)
    BY <2>2, <2>6 DEF saveDraft
  <2>7. CASE \E r \in revisions : restoreRevision(a, d, r)
    BY <2>2, <2>3, <2>7 DEF restoreRevision
  <2>8. QED
    BY <1>3, <2>1, <2>4, <2>5, <2>6, <2>7 DEF Drafting
<1>4. ASSUME NEW a \in Admins, Publishing(a)
      PROVE  Site!Next \/ UNCHANGED <<PublicPage, Homes>>
  <2>1. CASE \E d \in Docs : preparePublication(a, d)
    BY <1>1, <2>1 DEF preparePublication
  <2>2. CASE \E p \in Publications : storePublicationCandidate(a, p)
    <3> PICK p \in Publications : storePublicationCandidate(a, p)
      BY <2>2
    <3>1. /\ publication[p].status = "none"
          /\ \A q \in Publications \ {p} : publication'[q] = publication[q]
          /\ UNCHANGED document
      BY DEF storePublicationCandidate, Typed, TypeOK, Unmoved, NewPublication
    <3>2. QED
      BY <3>1, InvisibleStep
  <2>3. CASE \E p \in Publications : commitPublication(a, p)
    BY <1>1, <2>3 DEF commitPublication, Unmoved
  <2>4. CASE CommitWrites(a)
    BY <2>4, CommitPublishes DEF Site!Next
  <2>5. CASE Abandon(a)
    BY <1>1, <2>5 DEF Abandon
  <2>6. QED
    BY <1>4, <2>1, <2>2, <2>3, <2>4, <2>5 DEF Publishing
<1>5. ASSUME NEW a \in Admins, NEW d \in Docs, Lifecycle(a, d)
      PROVE  Site!Next \/ UNCHANGED <<PublicPage, Homes>>
  <2> document[d] \in DocumentRow /\ document \in [Docs -> DocumentRow]
    BY DEF Typed, TypeOK
  <2>1. CASE unpublish(a, d)
    <3>1. Site!Withdraw(d)
      BY <2>1, WithdrawalIsVisible, SupersededWithdraws DEF unpublish, DocumentRow
    <3>2. QED
      BY <3>1 DEF Site!Next
  <2>2. CASE archive(a, d)
    <3>1. /\ PublicationWithdrawn(d)
          /\ \A e \in Docs \ {d} : document'[e] = document[e]
          /\ document'[d].active_publication = None
          /\ document'[d].is_home = FALSE
          /\ publication' = Superseded(d)
      BY <2>2, SupersededWithdraws DEF archive, DocumentRow
    <3>2. CASE document[d].active_publication # None
      BY <3>1, <3>2, WithdrawalIsVisible DEF Site!Next
    <3>3. CASE document[d].active_publication = None
      <4>1. document[d].is_home = FALSE
        <5>1. ~document[d].is_home
          BY <3>3 DEF SiteInvariant, HomeIsServable
        <5>2. QED
          BY <5>1 DEF DocumentRow
      <4>2. \A p \in Publications : /\ publication'[p].slug = publication[p].slug
                                    /\ publication'[p].content = publication[p].content
        BY <3>1 DEF PublicationWithdrawn
      <4>3. \A e \in Docs :
               /\ document'[e].active_publication = document[e].active_publication
               /\ document'[e].is_home = document[e].is_home
        BY <3>1, <3>3, <4>1
      <4>4. QED
        BY <4>2, <4>3, InvisibleStep
    <3>4. QED
      BY <3>2, <3>3
  <2>3. CASE restoreArchived(a, d)
    BY <1>1, <2>3 DEF restoreArchived, DocumentRow
  <2>4. CASE purge(a, d)
    <3>1. /\ document'[d].active_publication = None
          /\ document'[d].is_home = FALSE
          /\ document[d].active_publication = None
          /\ \A e \in Docs \ {d} : document'[e] = document[e]
      BY <2>4 DEF purge, NoRow
    <3>2. document[d].is_home = FALSE
      <4>1. ~document[d].is_home
        BY <3>1 DEF SiteInvariant, HomeIsServable
      <4>2. QED
        BY <4>1 DEF DocumentRow
    <3>3. \A p \in Publications : publication[p].status = "active"
             => publication'[p] = publication[p]
      BY <2>4, <3>1, ConstantsAssumption
      DEF purge, SiteInvariant, PointerMatchesStatus, Active
    <3>4. QED
      BY <3>1, <3>2, <3>3, InvisibleStep
  <2>5. CASE setHome(a, d)
    <3>1. ASSUME NEW e \in Docs
          PROVE  /\ document'[e].active_publication = document[e].active_publication
                 /\ document'[e].is_home <=> e = d
      <4>1. document[e] \in DocumentRow
        BY DEF Typed, TypeOK
      <4>2. document'[e].active_publication = document[e].active_publication
        BY <2>5, <4>1 DEF setHome, DocumentRow
      <4>3. CASE e = d
        BY <2>5, <4>1, <4>2, <4>3 DEF setHome, DocumentRow
      <4>4. CASE e # d /\ document[e].is_home
        BY <2>5, <4>1, <4>2, <4>4 DEF setHome, DocumentRow
      <4>5. CASE e # d /\ ~document[e].is_home
        BY <2>5, <4>1, <4>2, <4>5 DEF setHome, DocumentRow
      <4>6. QED
        BY <4>3, <4>4, <4>5
    <3>2. PublicPage' = PublicPage
      BY <2>5, <3>1 DEF setHome, PublicPage
    <3>3. Homes' = {d}
      BY <3>1 DEF Homes
    <3>4. PublicPage[d] # None
      BY <2>5, PageOfPublished DEF setHome
    <3>5. QED
      BY <3>2, <3>3, <3>4 DEF Site!Next, Site!SetHome
  <2>6. CASE clearHome(a, d)
    <3>1. /\ ~document'[d].is_home
          /\ document'[d].active_publication = document[d].active_publication
          /\ \A e \in Docs \ {d} : document'[e] = document[e]
          /\ UNCHANGED publication
          /\ d \in Homes
      BY <2>6 DEF clearHome, DocumentRow, Homes
    <3>2. PublicPage' = PublicPage
      BY <3>1 DEF PublicPage
    <3>3. Homes' = Homes \ {d}
      BY <3>1 DEF Homes
    <3>4. QED
      BY <3>1, <3>2, <3>3 DEF Site!Next, Site!ClearHome
  <2>7. QED
    BY <1>5, <2>1, <2>2, <2>3, <2>4, <2>5, <2>6 DEF Lifecycle
<1>6. ASSUME NEW p \in Publications, Expire(p)
      PROVE  UNCHANGED <<PublicPage, Homes>>
  <2>1. UNCHANGED document
        /\ \A q \in Publications : publication[q].status = "active"
              => publication'[q] = publication[q]
    BY <1>6 DEF Expire
  <2>2. QED
    BY <2>1, InvisibleStep
<1>7. CASE UNCHANGED vars
  BY <1>1, <1>7 DEF vars
<1>8. QED
  BY <1>3, <1>4, <1>5, <1>6, <1>7 DEF Next

(* An empty installation is an empty site. *)
LEMMA SiteStart == Init => Site!Init
  BY DEF Init, NoRow, PublicPage, Homes, Site!Init

\* The transactions on the three tables implement the published site.
THEOREM PublicationImplementsSite == Spec => ImplementsPublishedSite
<1>1. Init => Typed /\ SiteInvariant
  BY TypedInit, SiteInit
<1>2. Typed /\ SiteInvariant /\ [Next]_vars => (Typed /\ SiteInvariant)'
  BY TypedStep, SiteStep
<1>3. Typed /\ SiteInvariant /\ [Next]_vars => [Site!Next]_(Site!siteVars)
  BY SiteNext DEF Site!siteVars
<1>4. QED
  BY <1>1, <1>2, <1>3, SiteStart, PTL DEF Spec, ImplementsPublishedSite, Site!Spec
-----------------------------------------------------------------------------
(***************************************************************************)
(* The history of a page is complete, no write is lost, what is public is  *)
(* one saved revision, and neither revisions nor publications are changed  *)
(* after the fact.                                                         *)
(***************************************************************************)

\* A stored document has a revision to start from.
StoredHaveRevisions ==
    \A d \in Docs : Stored(d) => document[d].current_revision >= 1

\* A tab is never ahead of the row it loaded, and one that is level with it has seen the
\* current revision: what a write compares is the lock, what it builds on is the revision.
TabsAreSound ==
    \A a \in Admins : tab[a].document # None =>
        LET d == tab[a].document
        IN  /\ d \in Docs
            /\ document[d].state # "absent"
            /\ Stored(d) =>
                 /\ tab[a].lock_version <= document[d].lock_version
                 /\ tab[a].lock_version = document[d].lock_version
                      => tab[a].revision = document[d].current_revision

\* What a request has compiled was a revision of its document, and is one still unless the
\* document is gone.
RequestsAreSound ==
    \A a \in Admins : request[a].step = "compiled" =>
        LET q == request[a]
        IN  /\ document[q.document].state # "absent"
            /\ Stored(q.document) =>
                 \E r \in revisions : /\ r.document = q.document
                                      /\ r.revision = q.revision
                                      /\ r.content = q.content

\* The history, with all it takes to carry it over a step.
Recorded ==
    /\ StoredHaveRevisions
    /\ TabsAreSound
    /\ RequestsAreSound
    /\ HistoryIsComplete
    /\ OneGeneration
    /\ NoWriteLost
    /\ PublishedAsSaved

(* An empty installation is recorded. *)
LEMMA RecordedInit == Init => Recorded
<1> SUFFICES ASSUME Init PROVE Recorded
  OBVIOUS
<1>1. \A d \in Docs : document[d].state = "absent"
  BY DEF Init, NoRow
<1>2. revisions = {}
  BY DEF Init
<1>3. \A a \in Admins : tab[a].document = None /\ request[a].step = "idle"
  BY DEF Init, Idle
<1>4. \A p \in Publications : publication[p].status = "none"
  BY DEF Init, NoPublication
<1>5. QED
  BY <1>1, <1>2, <1>3, <1>4
  DEF Recorded, StoredHaveRevisions, TabsAreSound, RequestsAreSound, HistoryIsComplete,
      Stored, OneGeneration, NoWriteLost, PublishedAsSaved
-----------------------------------------------------------------------------
(* Most steps leave the history alone: they move locks, pointers and statuses. *)

\* Rows keep what the history hangs on, and their locks do not go back.
RowsStand ==
    \A d \in Docs : /\ document'[d].state = document[d].state
                    /\ document'[d].slug = document[d].slug
                    /\ document'[d].current_revision = document[d].current_revision
                    /\ document[d].lock_version <= document'[d].lock_version

(* With the revisions as they were, and rows that stand, the history stands. *)
LEMMA HistoryStands ==
  ASSUME Typed, Recorded, RowsStand, revisions' = revisions
  PROVE  StoredHaveRevisions' /\ HistoryIsComplete' /\ OneGeneration' /\ NoWriteLost'
<1>1. \A r \in revisions : r.document \in Docs
  BY DEF Typed, TypeOK, RevisionRow
<1>2. QED
  BY <1>1 DEF RowsStand, Recorded, StoredHaveRevisions, HistoryIsComplete, CurrentRow, Stored,
              OneGeneration, NoWriteLost

(* Tabs that nobody writes stay sound. *)
LEMMA TabsStand ==
  ASSUME Typed, Typed', Recorded, RowsStand, tab' = tab
  PROVE  TabsAreSound'
<1> SUFFICES ASSUME NEW a \in Admins, tab[a].document # None
             PROVE  LET d == tab[a].document
                    IN  /\ d \in Docs
                        /\ document'[d].state # "absent"
                        /\ document'[d].state = "stored" =>
                             /\ tab[a].lock_version <= document'[d].lock_version
                             /\ tab[a].lock_version = document'[d].lock_version
                                  => tab[a].revision = document'[d].current_revision
  BY DEF TabsAreSound, Stored
<1> DEFINE d == tab[a].document
<1>1. d \in Docs /\ document[d].state # "absent"
  BY DEF Recorded, TabsAreSound
<1>2. /\ document[d].lock_version \in Nat /\ document'[d].lock_version \in Nat
      /\ tab[a].lock_version \in Nat
  BY <1>1 DEF Typed, TypeOK, DocumentRow, Tab
<1>3. QED
  BY <1>1, <1>2 DEF Recorded, TabsAreSound, RowsStand, Stored

\* A request that is still compiled is the one it was.
LEMMA RequestsStand ==
  ASSUME Typed, Recorded, revisions \subseteq revisions',
         \A d \in Docs : document[d].state # "absent" => document'[d].state = document[d].state,
         \A a \in Admins : request'[a].step = "compiled" => request'[a] = request[a]
  PROVE  RequestsAreSound'
  BY DEF Recorded, RequestsAreSound, Stored, Typed, RequestsHaveDocuments

\* A publication on its way or public is the one it was, but for its status.
LEMMA PublicationsStand ==
  ASSUME Recorded, revisions \subseteq revisions',
         \A p \in Publications :
            publication'[p].status \in {"candidate", "active", "superseded"} =>
              /\ publication[p].status \in {"candidate", "active", "superseded"}
              /\ publication'[p].document = publication[p].document
              /\ publication'[p].source_revision = publication[p].source_revision
              /\ publication'[p].slug = publication[p].slug
              /\ publication'[p].content = publication[p].content
  PROVE  PublishedAsSaved'
  BY DEF Recorded, PublishedAsSaved
-----------------------------------------------------------------------------
(* The steps that write history *)

\* A write that passed the comparison of the locks has seen the current revision.
LEMMA WriterIsCurrent ==
  ASSUME Typed, Recorded, NEW a \in Admins, NEW d \in Docs, Stored(d), assertLockVersion(a, d)
  PROVE  tab[a].revision = document[d].current_revision
<1>1. tab[a].document = d /\ d # None
  BY ConstantsAssumption DEF assertLockVersion
<1>2. QED
  BY <1>1 DEF assertLockVersion, Recorded, TabsAreSound

(* A write that appends a revision is recorded. *)
LEMMA RecordedAddRevision ==
  ASSUME Typed, Typed', Recorded, NEW a \in Admins, NEW d \in Docs, NEW s \in Slugs,
         NEW c \in Contents, Stored(d), assertLockVersion(a, d), AddRevision(a, d, s, c),
         \E r \in revisions : r.document = d /\ (r.content \in Structured <=> c \in Structured)
  PROVE  Recorded'
<1> DEFINE n == document[d].current_revision + 1
           new == [document |-> d, revision |-> n, slug |-> s, content |-> c,
                   base |-> tab[a].revision]
<1>1. /\ document[d].current_revision \in Nat
      /\ document[d].lock_version \in Nat
  BY DEF Typed, TypeOK, DocumentRow
<1>2. revisions' = revisions \cup {new}
  BY DEF AddRevision, insertRevision
<1>3. /\ document'[d].state = "stored"
      /\ document'[d].slug = s
      /\ document'[d].current_revision = n
      /\ document'[d].lock_version = document[d].lock_version + 1
      /\ \A e \in Docs \ {d} : document'[e] = document[e]
      /\ UNCHANGED <<publication, tab, request>>
  BY DEF AddRevision, Typed, TypeOK, DocumentRow, Stored
<1>4. /\ new \in revisions' /\ revisions \subseteq revisions'
      /\ new.document = d /\ new.revision = n /\ new.slug = s /\ new.content = c
      /\ new.base = new.revision - 1
  BY <1>1, <1>2, WriterIsCurrent
<1>5. \A r \in revisions : /\ r.document \in Docs
                           /\ r.revision \in Nat
                           /\ r.document = d => r.revision < n
  <2>1. \A r \in revisions : r.document \in Docs /\ r.revision \in Nat
    BY DEF Typed, TypeOK, RevisionRow
  <2>2. \A r \in revisions : r.revision <= document[r.document].current_revision
    BY DEF Recorded, HistoryIsComplete
  <2>3. QED
    BY <1>1, <2>1, <2>2
<1> HIDE DEF new
<1>6. StoredHaveRevisions'
  BY <1>1, <1>3 DEF Recorded, StoredHaveRevisions, Stored
<1>7. TabsAreSound'
  <2> SUFFICES ASSUME NEW b \in Admins, tab[b].document # None
               PROVE  LET e == tab[b].document
                      IN  /\ e \in Docs
                          /\ document'[e].state # "absent"
                          /\ document'[e].state = "stored" =>
                               /\ tab[b].lock_version <= document'[e].lock_version
                               /\ tab[b].lock_version = document'[e].lock_version
                                    => tab[b].revision = document'[e].current_revision
    BY <1>3 DEF TabsAreSound, Stored
  <2>1. tab[b].lock_version \in Nat
    BY DEF Typed, TypeOK, Tab
  <2>2. QED
    BY <1>1, <1>3, <2>1 DEF Recorded, TabsAreSound, Stored
<1>8. RequestsAreSound'
  BY <1>2, <1>3, RequestsStand DEF Stored
<1>9. HistoryIsComplete'
  <2>1. ASSUME NEW e \in Docs, Stored(e)', NEW k \in 1 .. document'[e].current_revision
        PROVE  \E r \in revisions' : r.document = e /\ r.revision = k
    <3>1. CASE e = d /\ k = n
      BY <1>4, <3>1
    <3>2. CASE e = d /\ k # n
      <4>1. k \in 1 .. document[d].current_revision
        BY <1>1, <1>3, <3>2
      <4>2. QED
        BY <1>4, <3>2, <4>1 DEF Recorded, HistoryIsComplete
    <3>3. CASE e # d
      <4>1. Stored(e) /\ k \in 1 .. document[e].current_revision
        BY <1>3, <2>1, <3>3 DEF Stored
      <4>2. QED
        BY <1>4, <4>1 DEF Recorded, HistoryIsComplete
    <3>4. QED
      BY <3>1, <3>2, <3>3
  <2>2. ASSUME NEW e \in Docs, Stored(e)'
        PROVE  \E r \in revisions' : /\ r.document = e
                                     /\ r.revision = document'[e].current_revision
                                     /\ r.slug = document'[e].slug
    <3>1. CASE e = d
      BY <1>3, <1>4, <3>1
    <3>2. CASE e # d
      BY <1>3, <1>4, <2>2, <3>2 DEF Recorded, HistoryIsComplete, CurrentRow, Stored
    <3>3. QED
      BY <3>1, <3>2
  <2>3. ASSUME NEW r \in revisions'
        PROVE  /\ document'[r.document].state = "stored"
               /\ r.revision <= document'[r.document].current_revision
    <3>1. CASE r = new
      BY <1>1, <1>3, <1>4, <3>1
    <3>2. CASE r \in revisions /\ r.document = d
      BY <1>1, <1>3, <1>5, <3>2
    <3>3. CASE r \in revisions /\ r.document # d
      BY <1>3, <1>5, <3>3 DEF Recorded, HistoryIsComplete, Stored
    <3>4. QED
      BY <1>2, <3>1, <3>2, <3>3
  <2>4. ASSUME NEW r \in revisions', NEW q \in revisions',
               q.document = r.document, q.revision = r.revision
        PROVE  q = r
    BY <1>1, <1>2, <1>4, <1>5, <2>4 DEF Recorded, HistoryIsComplete
  <2>5. QED
    BY <2>1, <2>2, <2>3, <2>4 DEF HistoryIsComplete, CurrentRow, Stored
<1>10. OneGeneration'
  <2>1. \A r \in revisions : r.document = d => (r.content \in Structured <=> c \in Structured)
    BY DEF Recorded, OneGeneration
  <2>2. QED
    BY <1>2, <1>4, <2>1 DEF Recorded, OneGeneration
<1>11. NoWriteLost'
  BY <1>2, <1>4 DEF Recorded, NoWriteLost
<1>12. PublishedAsSaved'
  BY <1>2, <1>3, PublicationsStand
<1>13. QED
  BY <1>6, <1>7, <1>8, <1>9, <1>10, <1>11, <1>12 DEF Recorded

(* Creating a page records its first revision. *)
LEMMA RecordedCreate ==
  ASSUME Typed, Typed', Recorded, NEW a \in Admins, NEW d \in Docs, NEW s \in Slugs,
         NEW c \in Contents, create(a, d, s, c)
  PROVE  Recorded'
<1> DEFINE new == [document |-> d, revision |-> 1, slug |-> s, content |-> c, base |-> 0]
<1>1. revisions' = revisions \cup {new}
  BY DEF create, insertRevision
<1>0. /\ new \in revisions' /\ revisions \subseteq revisions'
      /\ new.document = d /\ new.revision = 1 /\ new.slug = s /\ new.content = c
      /\ new.base = new.revision - 1
  BY <1>1
<1>2. /\ document[d].state = "absent"
      /\ document'[d].state = "stored"
      /\ document'[d].slug = s
      /\ document'[d].current_revision = 1
      /\ \A e \in Docs \ {d} : document'[e] = document[e]
      /\ UNCHANGED <<publication, tab, request>>
  BY DEF create, Typed, TypeOK
<1>3. \A r \in revisions : r.document \in Docs \ {d}
  BY <1>2 DEF Typed, TypeOK, RevisionRow, Recorded, HistoryIsComplete, Stored
<1> HIDE DEF new
<1>4. StoredHaveRevisions'
  BY <1>2 DEF Recorded, StoredHaveRevisions, Stored
<1>5. TabsAreSound'
  BY <1>2 DEF Recorded, TabsAreSound, Stored
<1>6. RequestsAreSound'
  BY <1>1, <1>2, RequestsStand
<1>7. HistoryIsComplete'
  <2>1. ASSUME NEW e \in Docs, Stored(e)', NEW k \in 1 .. document'[e].current_revision
        PROVE  \E r \in revisions' : r.document = e /\ r.revision = k
    <3>1. CASE e = d
      BY <1>0, <1>2, <2>1, <3>1
    <3>2. CASE e # d
      <4>1. Stored(e) /\ k \in 1 .. document[e].current_revision
        BY <1>2, <2>1, <3>2 DEF Stored
      <4>2. QED
        BY <1>0, <4>1 DEF Recorded, HistoryIsComplete
    <3>3. QED
      BY <3>1, <3>2
  <2>2. ASSUME NEW e \in Docs, Stored(e)'
        PROVE  \E r \in revisions' : /\ r.document = e
                                     /\ r.revision = document'[e].current_revision
                                     /\ r.slug = document'[e].slug
    <3>1. CASE e = d
      BY <1>0, <1>2, <3>1
    <3>2. CASE e # d
      BY <1>0, <1>2, <2>2, <3>2 DEF Recorded, HistoryIsComplete, CurrentRow, Stored
    <3>3. QED
      BY <3>1, <3>2
  <2>3. ASSUME NEW r \in revisions'
        PROVE  /\ document'[r.document].state = "stored"
               /\ r.revision <= document'[r.document].current_revision
    BY <1>0, <1>1, <1>2, <1>3 DEF Recorded, HistoryIsComplete, Stored
  <2>4. ASSUME NEW r \in revisions', NEW q \in revisions',
               q.document = r.document, q.revision = r.revision
        PROVE  q = r
    BY <1>0, <1>1, <1>3, <2>4 DEF Recorded, HistoryIsComplete
  <2>5. QED
    BY <2>1, <2>2, <2>3, <2>4 DEF HistoryIsComplete, CurrentRow, Stored
<1>8. OneGeneration'
  BY <1>0, <1>1, <1>3 DEF Recorded, OneGeneration
<1>9. NoWriteLost'
  BY <1>0, <1>1 DEF Recorded, NoWriteLost
<1>10. PublishedAsSaved'
  BY <1>1, <1>2, PublicationsStand
<1>11. QED
  BY <1>4, <1>5, <1>6, <1>7, <1>8, <1>9, <1>10 DEF Recorded

(* Each way of drafting keeps the record. *)
LEMMA RecordedDrafting ==
  ASSUME Typed, Typed', Recorded, NEW a \in Admins, NEW d \in Docs, Drafting(a, d)
  PROVE  Recorded'
<1>1. CASE Load(a, d)
  <2>1. RowsStand /\ revisions' = revisions
    BY <1>1 DEF Load, RowsStand, Typed, TypeOK, DocumentRow
  <2>2. TabsAreSound'
    <3>1. document[d].lock_version \in Nat
      BY DEF Typed, TypeOK, DocumentRow
    <3>2. QED
      BY <1>1, <3>1 DEF Load, Recorded, TabsAreSound, Stored, Typed, TypeOK
  <2>3. RequestsAreSound' /\ PublishedAsSaved'
    BY <1>1, <2>1, RequestsStand, PublicationsStand DEF Load
  <2>4. QED
    BY <2>1, <2>2, <2>3, HistoryStands DEF Recorded
<1>2. CASE \E s \in Slugs : updateMetadata(a, d, s)
  <2>1. PICK s \in Slugs, r \in CurrentRow(d) : AddRevision(a, d, s, r.content)
    BY <1>2 DEF updateMetadata
  <2>2. r \in revisions /\ r.document = d /\ r.content \in Contents
    BY DEF CurrentRow, Typed, TypeOK, RevisionRow
  <2>3. Stored(d) /\ assertLockVersion(a, d)
    BY <1>2 DEF updateMetadata, lockDocument
  <2>4. QED
    BY <2>1, <2>2, <2>3, RecordedAddRevision
<1>3. CASE \E s \in Slugs, c \in Contents : create(a, d, s, c)
  BY <1>3, RecordedCreate
<1>4. CASE \E s \in Slugs, c \in Contents : saveDraft(a, d, s, c)
  <2>1. PICK s \in Slugs, c \in Contents : saveDraft(a, d, s, c)
    BY <1>4
  <2>2. Stored(d) /\ assertLockVersion(a, d) /\ AddRevision(a, d, s, c)
    BY <2>1 DEF saveDraft, lockDocument
  <2>3. PICK r \in CurrentRow(d) : r.slug = document[d].slug
    BY <2>2 DEF Recorded, HistoryIsComplete
  <2>4. /\ r \in revisions /\ r.document = d
        /\ r.content \in Structured <=> c \in Structured
    BY <2>1, <2>3 DEF saveDraft, CurrentRow
  <2>5. QED
    BY <2>2, <2>4, RecordedAddRevision
<1>5. CASE \E r \in revisions : restoreRevision(a, d, r)
  <2>1. PICK r \in revisions : restoreRevision(a, d, r)
    BY <1>5
  <2>2. r.slug \in Slugs /\ r.content \in Contents
    BY DEF Typed, TypeOK, RevisionRow
  <2>3. /\ Stored(d) /\ assertLockVersion(a, d) /\ r.document = d
        /\ AddRevision(a, d, r.slug, r.content)
    BY <2>1 DEF restoreRevision, lockDocument
  <2>4. QED
    BY <2>2, <2>3, RecordedAddRevision
<1>6. QED
  BY <1>1, <1>2, <1>3, <1>4, <1>5 DEF Drafting
-----------------------------------------------------------------------------
(* The steps that publish, withdraw, archive and purge *)

\* A step that changes nothing the history hangs on, and at most the statuses of
\* publications and the requests that are not compiled.
LEMMA RecordedStands ==
  ASSUME Typed, Typed', Recorded, RowsStand, revisions' = revisions, tab' = tab,
         \A a \in Admins : request'[a].step = "compiled" => request'[a] = request[a],
         \A p \in Publications :
            publication'[p].status \in {"candidate", "active", "superseded"} =>
              /\ publication[p].status \in {"candidate", "active", "superseded"}
              /\ publication'[p].document = publication[p].document
              /\ publication'[p].source_revision = publication[p].source_revision
              /\ publication'[p].slug = publication[p].slug
              /\ publication'[p].content = publication[p].content
  PROVE  Recorded'
<1>1. RequestsAreSound'
  BY RequestsStand DEF RowsStand
<1>2. PublishedAsSaved'
  BY PublicationsStand
<1>3. QED
  BY <1>1, <1>2, HistoryStands, TabsStand DEF Recorded

(* Each step of publishing keeps the record: what is published is what a revision holds. *)
LEMMA RecordedPublishing ==
  ASSUME Typed, Typed', Recorded, NEW a \in Admins, Publishing(a)
  PROVE  Recorded'
<1>1. UNCHANGED document => RowsStand
  BY DEF RowsStand, Typed, TypeOK, DocumentRow
<1>2. CASE \E d \in Docs : preparePublication(a, d)
  <2>1. PICK d \in Docs : preparePublication(a, d)
    BY <1>2
  <2>2. PICK r \in CurrentRow(d) :
           request' = [request EXCEPT ![a] =
              [step |-> "compiled", document |-> d,
               lock_version |-> document[d].lock_version,
               revision |-> r.revision, content |-> r.content,
               publication |-> None]]
    BY <2>1 DEF preparePublication
  <2>3. Stored(d) /\ UNCHANGED <<document, revisions, publication, tab>>
    BY <2>1 DEF preparePublication
  <2>4. /\ request'[a].document = d
        /\ request'[a].revision = r.revision
        /\ request'[a].content = r.content
        /\ \A b \in Admins \ {a} : request'[b] = request[b]
    BY <2>2 DEF Typed, TypeOK
  <2>5. r \in revisions /\ r.document = d
    BY DEF CurrentRow
  <2>6. RequestsAreSound'
    <3> SUFFICES ASSUME NEW b \in Admins, request'[b].step = "compiled"
                 PROVE  /\ document[request'[b].document].state # "absent"
                        /\ Stored(request'[b].document) =>
                             \E q \in revisions : /\ q.document = request'[b].document
                                                  /\ q.revision = request'[b].revision
                                                  /\ q.content = request'[b].content
      BY <2>3 DEF RequestsAreSound, Stored
    <3>1. CASE b = a
      BY <2>3, <2>4, <2>5, <3>1 DEF Stored
    <3>2. CASE b # a
      BY <2>4, <3>2 DEF Recorded, RequestsAreSound
    <3>3. QED
      BY <3>1, <3>2
  <2>7. QED
    BY <1>1, <2>3, <2>6, HistoryStands, TabsStand, PublicationsStand DEF Recorded
<1>3. CASE \E p \in Publications : storePublicationCandidate(a, p)
  <2>1. PICK p \in Publications : storePublicationCandidate(a, p)
    BY <1>3
  <2> DEFINE q == request[a]
             d == q.document
  <2>2. /\ q.step = "compiled" /\ d \in Docs /\ Stored(d)
        /\ document[d].current_revision = q.revision
        /\ UNCHANGED <<document, revisions, tab>>
    BY <2>1 DEF storePublicationCandidate, lockDocument, Unmoved, Typed, RequestsHaveDocuments
  <2>3. /\ publication'[p].document = d
        /\ publication'[p].source_revision = q.revision
        /\ publication'[p].slug = document[d].slug
        /\ publication'[p].content = q.content
        /\ \A o \in Publications \ {p} : publication'[o] = publication[o]
    BY <2>1 DEF storePublicationCandidate, Typed, TypeOK
  <2>4. \A b \in Admins : request'[b].step = "compiled" => request'[b] = request[b]
    BY <2>1 DEF storePublicationCandidate, Idle, Typed, TypeOK
  <2>5. PICK r \in revisions : r.document = d /\ r.revision = q.revision /\ r.content = q.content
    BY <2>2 DEF Recorded, RequestsAreSound
  <2>6. PICK t \in CurrentRow(d) : t.slug = document[d].slug
    BY <2>2 DEF Recorded, HistoryIsComplete
  <2>7. r = t
    BY <2>2, <2>5, <2>6 DEF Recorded, HistoryIsComplete, CurrentRow
  <2>8. PublishedAsSaved'
    <3> SUFFICES ASSUME NEW o \in Publications,
                        publication'[o].status \in {"candidate", "active", "superseded"}
                 PROVE  \E v \in revisions : /\ v.document = publication'[o].document
                                             /\ v.revision = publication'[o].source_revision
                                             /\ v.slug = publication'[o].slug
                                             /\ v.content = publication'[o].content
      BY <2>2 DEF PublishedAsSaved
    <3>1. CASE o = p
      BY <2>3, <2>5, <2>6, <2>7, <3>1
    <3>2. CASE o # p
      BY <2>3, <3>2 DEF Recorded, PublishedAsSaved
    <3>3. QED
      BY <3>1, <3>2
  <2>9. QED
    BY <1>1, <2>2, <2>4, <2>8, HistoryStands, TabsStand, RequestsStand DEF Recorded
<1>4. CASE \E p \in Publications : commitPublication(a, p)
  <2>1. /\ UNCHANGED <<document, revisions, publication, tab>>
        /\ \A b \in Admins : request'[b].step = "compiled" => request'[b] = request[b]
    BY <1>4 DEF commitPublication, Typed, TypeOK
  <2>2. QED
    BY <1>1, <2>1, RecordedStands
<1>5. CASE CommitWrites(a)
  <2> DEFINE p == request[a].publication
             d == request[a].document
  <2>1. /\ p \in Publications /\ d \in Docs
        /\ publication[p].status = "candidate"
    BY <1>5 DEF CommitWrites, Typed, CommitsHoldTheirRows, Committing, RequestsHaveDocuments
  <2>2. RowsStand /\ UNCHANGED <<revisions, tab>>
    BY <1>5, <2>1 DEF CommitWrites, RowsStand, Typed, TypeOK, DocumentRow
  <2>3. \A b \in Admins : request'[b].step = "compiled" => request'[b] = request[b]
    BY <1>5 DEF CommitWrites, Idle, Typed, TypeOK
  <2>4. ASSUME NEW o \in Publications
        PROVE  /\ publication'[o].status = publication[o].status
                    \/ publication[o].status \in {"active", "candidate"}
               /\ publication'[o].document = publication[o].document
               /\ publication'[o].source_revision = publication[o].source_revision
               /\ publication'[o].slug = publication[o].slug
               /\ publication'[o].content = publication[o].content
    <3>1. Superseded(d) \in [Publications -> PublicationRow]
      BY <2>1, SupersededType
    <3>2. /\ publication[o] \in PublicationRow
          /\ \/ Superseded(d)[o] = publication[o]
             \/ /\ publication[o].status = "active"
                /\ Superseded(d)[o] = [publication[o] EXCEPT !.status = "superseded"]
      BY DEF Superseded, Typed, TypeOK
    <3>3. \/ publication'[o] = Superseded(d)[o]
          \/ o = p /\ publication'[o] = [Superseded(d)[o] EXCEPT !.status = "active"]
      BY <1>5, <3>1 DEF CommitWrites
    <3>4. Superseded(d)[o] \in PublicationRow
      BY <3>1
    <3>5. QED
      BY <2>1, <3>2, <3>3, <3>4 DEF PublicationRow
  <2>5. QED
    BY <2>2, <2>3, <2>4, RecordedStands
<1>6. CASE Abandon(a)
  <2>1. /\ UNCHANGED <<document, revisions, publication, tab>>
        /\ \A b \in Admins : request'[b].step = "compiled" => request'[b] = request[b]
    BY <1>6 DEF Abandon, Idle, Typed, TypeOK
  <2>2. QED
    BY <1>1, <2>1, RecordedStands
<1>7. QED
  BY <1>2, <1>3, <1>4, <1>5, <1>6 DEF Publishing

\* A purge takes a document with its history and its publications.
LEMMA RecordedPurge ==
  ASSUME Typed, Typed', Recorded, NEW a \in Admins, NEW d \in Docs, purge(a, d)
  PROVE  Recorded'
<1>1. /\ document'[d].state = "purged"
      /\ \A e \in Docs \ {d} : document'[e] = document[e]
      /\ revisions' = {r \in revisions : r.document # d}
      /\ UNCHANGED <<tab, request>>
  BY DEF purge, NoRow, Typed, TypeOK
<1>2. \A p \in Publications :
         publication'[p].status \in {"candidate", "active", "superseded"}
           => publication'[p] = publication[p] /\ publication[p].document # d
  BY DEF purge, NoPublication
<1>3. \A r \in revisions : r.document \in Docs
  BY DEF Typed, TypeOK, RevisionRow
<1>4. StoredHaveRevisions'
  BY <1>1 DEF Recorded, StoredHaveRevisions, Stored
<1>5. TabsAreSound'
  BY <1>1 DEF Recorded, TabsAreSound, Stored
<1>6. RequestsAreSound'
  <2> SUFFICES ASSUME NEW b \in Admins, request[b].step = "compiled"
               PROVE  LET q == request[b]
                      IN  /\ document'[q.document].state # "absent"
                          /\ document'[q.document].state = "stored" =>
                               \E r \in revisions' : /\ r.document = q.document
                                                     /\ r.revision = q.revision
                                                     /\ r.content = q.content
    BY <1>1 DEF RequestsAreSound, Stored
  <2>1. request[b].document \in Docs
    BY DEF Typed, RequestsHaveDocuments
  <2>2. CASE request[b].document = d
    BY <1>1, <2>2
  <2>3. CASE request[b].document # d
    BY <1>1, <2>1, <2>3 DEF Recorded, RequestsAreSound, Stored
  <2>4. QED
    BY <2>2, <2>3
<1>7. HistoryIsComplete'
  <2>1. ASSUME NEW e \in Docs, document'[e].state = "stored"
        PROVE  /\ e # d /\ Stored(e) /\ document'[e] = document[e]
               /\ \A r \in revisions : r.document = e => r \in revisions'
    BY <1>1, <2>1 DEF Stored
  <2>2. ASSUME NEW r \in revisions'
        PROVE  r \in revisions /\ r.document \in Docs \ {d}
    BY <1>1, <1>3, <2>2
  <2>3. QED
    BY <1>1, <2>1, <2>2 DEF Recorded, HistoryIsComplete, CurrentRow, Stored
<1>8. OneGeneration' /\ NoWriteLost'
  BY <1>1 DEF Recorded, OneGeneration, NoWriteLost
<1>9. PublishedAsSaved'
  BY <1>1, <1>2 DEF Recorded, PublishedAsSaved
<1>10. QED
  BY <1>4, <1>5, <1>6, <1>7, <1>8, <1>9 DEF Recorded

(* Archiving, restoring, withdrawing, making home and purging keep the record. *)
LEMMA RecordedLifecycle ==
  ASSUME Typed, Typed', Recorded, NEW a \in Admins, NEW d \in Docs, Lifecycle(a, d)
  PROVE  Recorded'
<1>1. \A e \in Docs : document[e].lock_version \in Nat
  BY DEF Typed, TypeOK, DocumentRow
<1>2. CASE purge(a, d)
  BY <1>2, RecordedPurge
<1>3. ASSUME publication' = publication \/ publication' = Superseded(d), RowsStand,
             UNCHANGED <<revisions, tab, request>>
      PROVE  Recorded'
  <2>1. ASSUME publication' = Superseded(d), NEW p \in Publications
        PROVE  /\ publication'[p].status = publication[p].status
                    \/ publication[p].status = "active"
               /\ publication'[p].document = publication[p].document
               /\ publication'[p].source_revision = publication[p].source_revision
               /\ publication'[p].slug = publication[p].slug
               /\ publication'[p].content = publication[p].content
    BY <2>1, SupersededWithdraws DEF PublicationWithdrawn
  <2>2. QED
    BY <1>3, <2>1, RecordedStands
<1>4. CASE unpublish(a, d)
  <2>1. RowsStand
    BY <1>1, <1>4 DEF unpublish, RowsStand, Typed, TypeOK, DocumentRow
  <2>2. QED
    BY <1>3, <1>4, <2>1 DEF unpublish
<1>5. CASE archive(a, d)
  <2>1. RowsStand
    BY <1>1, <1>5 DEF archive, RowsStand, Typed, TypeOK, DocumentRow
  <2>2. QED
    BY <1>3, <1>5, <2>1 DEF archive
<1>6. CASE restoreArchived(a, d)
  <2>1. RowsStand
    BY <1>1, <1>6 DEF restoreArchived, RowsStand, Typed, TypeOK, DocumentRow
  <2>2. QED
    BY <1>3, <1>6, <2>1 DEF restoreArchived
<1>7. CASE setHome(a, d)
  <2>1. RowsStand
    <3> SUFFICES ASSUME NEW e \in Docs
                 PROVE  /\ document'[e].state = document[e].state
                        /\ document'[e].slug = document[e].slug
                        /\ document'[e].current_revision = document[e].current_revision
                        /\ document[e].lock_version <= document'[e].lock_version
      BY DEF RowsStand
    <3>1. document[e] \in DocumentRow
      BY DEF Typed, TypeOK
    <3> DEFINE n == document[e].lock_version + 1
    <3>2. \/ document'[e] = document[e]
          \/ document'[e] = [document[e] EXCEPT !.is_home = TRUE, !.lock_version = n]
          \/ document'[e] = [document[e] EXCEPT !.is_home = FALSE, !.lock_version = n]
      BY <1>7 DEF setHome
    <3>3. /\ document[e].lock_version <= document[e].lock_version
          /\ document[e].lock_version <= n
      BY <1>1
    <3> HIDE DEF n
    <3>4. QED
      BY <3>1, <3>2, <3>3 DEF DocumentRow
  <2>2. QED
    BY <1>3, <1>7, <2>1 DEF setHome
<1>8. CASE clearHome(a, d)
  <2>1. RowsStand
    BY <1>1, <1>8 DEF clearHome, RowsStand, Typed, TypeOK, DocumentRow
  <2>2. QED
    BY <1>3, <1>8, <2>1 DEF clearHome
<1>9. QED
  BY <1>2, <1>4, <1>5, <1>6, <1>7, <1>8 DEF Lifecycle

(* Every step keeps the record. *)
LEMMA RecordedStep == Typed /\ Recorded /\ [Next]_vars => Recorded'
<1> SUFFICES ASSUME Typed, Recorded, [Next]_vars
             PROVE  Recorded'
  OBVIOUS
<1>1. Typed'
  BY TypedStep
<1>2. UNCHANGED document => RowsStand
  BY DEF RowsStand, Typed, TypeOK, DocumentRow
<1>3. ASSUME NEW p \in Publications, Expire(p)
      PROVE  Recorded'
  <2>1. ASSUME NEW o \in Publications
        PROVE  /\ publication'[o].status = publication[o].status
               /\ publication'[o].document = publication[o].document
               /\ publication'[o].source_revision = publication[o].source_revision
               /\ publication'[o].slug = publication[o].slug
               /\ publication'[o].content = publication[o].content
    BY <1>3 DEF Expire, Typed, TypeOK, PublicationRow
  <2>2. UNCHANGED <<document, revisions, tab, request>>
    BY <1>3 DEF Expire
  <2>3. QED
    BY <1>1, <1>2, <2>1, <2>2, RecordedStands
<1>4. CASE UNCHANGED vars
  BY <1>1, <1>2, <1>4, RecordedStands DEF vars
<1>5. QED
  BY <1>1, <1>3, <1>4, RecordedDrafting, RecordedPublishing, RecordedLifecycle DEF Next

\* The history is right in every reachable state.
THEOREM HistoryIsRecorded == Spec => []Recorded
<1>1. Init => Typed /\ Recorded
  BY TypedInit, RecordedInit
<1>2. Typed /\ Recorded /\ [Next]_vars => (Typed /\ Recorded)'
  BY TypedStep, RecordedStep
<1>3. QED
  BY <1>1, <1>2, PTL DEF Spec

\* Whoever writes a revision has seen the one before, whatever interleaving of tabs: no save,
\* metadata change or restore buries another administrator's work.
THEOREM NoWriteIsLost == Spec => []NoWriteLost
<1>1. Recorded => NoWriteLost
  BY DEF Recorded
<1>2. QED
  BY HistoryIsRecorded, <1>1, PTL

\* The history of a stored document has every number once, ends in what the document says it
\* is, and is of one generation.
THEOREM HistoriesStaySound == Spec => []HistoriesAreSound
<1>1. Recorded => HistoriesAreSound
  BY DEF Recorded, HistoriesAreSound
<1>2. QED
  BY HistoryIsRecorded, <1>1, PTL

\* What is public, was, or waits for its commit is one saved revision, though it was read and
\* compiled without a lock.
THEOREM PublicationsAreSavedRevisions == Spec => []PublishedAsSaved
<1>1. Recorded => PublishedAsSaved
  BY DEF Recorded
<1>2. QED
  BY HistoryIsRecorded, <1>1, PTL
-----------------------------------------------------------------------------
(* What a step may never do *)

\* All that a step may do to a publication.
PublicationMoves(p) ==
    LET old == publication[p]
        new == publication'[p]
    IN  \/ new = old
        \/ old.status = "none"
        \/ old.status = "candidate" /\ new = [old EXCEPT !.expired = TRUE]
        \/ /\ old.status = "candidate"
           /\ new = [old EXCEPT !.status = "active"]
           /\ old.prepared_lock = document[old.document].lock_version
        \/ old.status = "active" /\ new = [old EXCEPT !.status = "superseded"]
        \/ /\ new = NoPublication("deleted")
           /\ document'[old.document].state = "purged"

(* Superseding touches only the status of what is active. *)
LEMMA SupersededMoves ==
  ASSUME NEW d \in Docs, NEW p \in Publications
  PROVE  \/ Superseded(d)[p] = publication[p]
         \/ /\ publication[p].status = "active"
            /\ Superseded(d)[p] = [publication[p] EXCEPT !.status = "superseded"]
  BY DEF Superseded

(* Each step moves each publication along its life and keeps what it shows. *)
LEMMA PublicationStep ==
  ASSUME Typed, SiteInvariant, [Next]_vars, NEW p \in Publications
  PROVE  PublicationMoves(p)
<1>1. UNCHANGED publication => PublicationMoves(p)
  BY DEF PublicationMoves
<1>2. ASSUME NEW a \in Admins, NEW d \in Docs, Drafting(a, d)
      PROVE  UNCHANGED publication
  BY <1>2 DEF Drafting, Load, create, updateMetadata, saveDraft, restoreRevision, AddRevision
<1>3. ASSUME NEW a \in Admins, NEW d \in Docs, Lifecycle(a, d)
      PROVE  PublicationMoves(p)
  <2>1. CASE publication' = Superseded(d)
    BY <2>1, SupersededMoves DEF PublicationMoves
  <2>2. CASE purge(a, d)
    <3>1. /\ document'[d].state = "purged"
          /\ \/ publication'[p] = publication[p]
             \/ publication[p].document = d /\ publication'[p] = NoPublication("deleted")
      BY <2>2 DEF purge, NoRow, Typed, TypeOK
    <3>2. QED
      BY <3>1 DEF PublicationMoves
  <2>3. QED
    BY <1>1, <1>3, <2>1, <2>2
    DEF Lifecycle, unpublish, archive, restoreArchived, setHome, clearHome
<1>4. ASSUME NEW a \in Admins, Publishing(a)
      PROVE  PublicationMoves(p)
  <2>1. CASE \E q \in Publications : storePublicationCandidate(a, q)
    <3>1. PICK q \in Publications : storePublicationCandidate(a, q)
      BY <2>1
    <3>2. publication[q].status = "none" /\ (p # q => publication'[p] = publication[p])
      BY <3>1 DEF storePublicationCandidate, NewPublication, Typed, TypeOK
    <3>3. QED
      BY <3>2 DEF PublicationMoves
  <2>2. CASE CommitWrites(a)
    <3> DEFINE q == request[a].publication
               d == request[a].document
    <3>1. /\ q \in Publications /\ d \in Docs
          /\ publication[q].status = "candidate" /\ publication[q].document = d
      BY <2>2 DEF CommitWrites, Typed, CommitsHoldTheirRows, Committing, RequestsHaveDocuments
    <3>2. publication[q].prepared_lock = document[d].lock_version
      BY <2>2 DEF CommitWrites, SiteInvariant, CommitsStayValid, Committing, Unmoved
    <3>3. Superseded(d) \in [Publications -> PublicationRow]
      BY <3>1, SupersededType
    <3>4. IF p = q THEN publication'[p] = [Superseded(d)[p] EXCEPT !.status = "active"]
                   ELSE publication'[p] = Superseded(d)[p]
      BY <2>2, <3>3 DEF CommitWrites
    <3>5. CASE p = q
      <4>1. Superseded(d)[p] = publication[p]
        BY <3>1, <3>5, SupersededMoves
      <4>2. QED
        BY <3>1, <3>2, <3>4, <3>5, <4>1 DEF PublicationMoves
    <3>6. CASE p # q
      BY <3>1, <3>4, <3>6, SupersededMoves DEF PublicationMoves
    <3>7. QED
      BY <3>5, <3>6
  <2>3. QED
    BY <1>1, <1>4, <2>1, <2>2 DEF Publishing, preparePublication, commitPublication, Abandon
<1>5. ASSUME NEW q \in Publications, Expire(q)
      PROVE  PublicationMoves(p)
  <2>1. IF p = q THEN /\ publication[p].status = "candidate"
                      /\ publication'[p] = [publication[p] EXCEPT !.expired = TRUE]
                 ELSE publication'[p] = publication[p]
    BY <1>5 DEF Expire, Typed, TypeOK
  <2>2. QED
    BY <2>1 DEF PublicationMoves
<1>6. CASE UNCHANGED vars
  BY <1>1, <1>6 DEF vars
<1>7. QED
  BY <1>1, <1>2, <1>3, <1>4, <1>5, <1>6 DEF Next

(* A revision goes only with its purged page. *)
LEMMA RevisionStep ==
  ASSUME Typed, [Next]_vars, NEW r \in revisions
  PROVE  r \in revisions' \/ document'[r.document].state = "purged"
<1>1. ASSUME NEW a \in Admins, NEW d \in Docs, Drafting(a, d)
      PROVE  r \in revisions'
  BY <1>1 DEF Drafting, Load, create, updateMetadata, saveDraft, restoreRevision, AddRevision,
              insertRevision
<1>2. ASSUME NEW a \in Admins, NEW d \in Docs, purge(a, d)
      PROVE  r \in revisions' \/ document'[r.document].state = "purged"
  BY <1>2 DEF purge, NoRow, Typed, TypeOK
<1>3. ASSUME NEW a \in Admins, Publishing(a)
      PROVE  revisions' = revisions
  BY <1>3 DEF Publishing, preparePublication, storePublicationCandidate, commitPublication,
              CommitWrites, Abandon
<1>4. QED
  BY <1>1, <1>2, <1>3
  DEF Next, Lifecycle, unpublish, archive, restoreArchived, setHome, clearHome, Expire, vars

\* A revision stays until its document is purged; a publication moves from candidate to active
\* to superseded and keeps what it publishes; a candidate that a change of its document has
\* overtaken never becomes public.
THEOREM WhatIsWrittenStays == Spec => WrittenStays
<1>1. ASSUME Typed, SiteInvariant, [Next]_vars
      PROVE  /\ \A r \in revisions : r \in revisions'
                                       \/ document'[r.document].state = "purged"
             /\ \A p \in Publications : PublicationMoves(p)
             /\ \A p \in Publications :
                  /\ publication[p].status = "candidate"
                  /\ publication[p].prepared_lock # document[publication[p].document].lock_version
                  => publication'[p].status # "active"
  <2>1. \A p \in Publications : PublicationMoves(p)
    BY <1>1, PublicationStep
  <2>2. ASSUME NEW p \in Publications, publication[p].status = "candidate",
               publication[p].prepared_lock # document[publication[p].document].lock_version
        PROVE  publication'[p].status # "active"
    <3>1. publication[p] \in PublicationRow
      BY <1>1 DEF Typed, TypeOK
    <3>2. [publication[p] EXCEPT !.expired = TRUE].status = "candidate"
      BY <2>2, <3>1 DEF PublicationRow
    <3>3. NoPublication("deleted").status = "deleted"
      BY DEF NoPublication
    <3>4. QED
      BY <2>1, <2>2, <3>2, <3>3 DEF PublicationMoves
  <2>3. QED
    BY <1>1, <2>1, <2>2, RevisionStep
<1>2. Typed /\ SiteInvariant /\ [Next]_vars
        => [\A r \in revisions : r \in revisions'
                                   \/ document'[r.document].state = "purged"]_vars
  BY <1>1
<1>3. Typed /\ SiteInvariant /\ [Next]_vars
        => [\A p \in Publications :
              LET old == publication[p]
                  new == publication'[p]
              IN  \/ old.status = "none"
                  \/ new = [old EXCEPT !.expired = TRUE]
                  \/ old.status = "candidate" /\ new = [old EXCEPT !.status = "active"]
                  \/ old.status = "active" /\ new = [old EXCEPT !.status = "superseded"]
                  \/ /\ new = NoPublication("deleted")
                     /\ old.status # "deleted" => document'[old.document].state = "purged"
                  \/ new = old]_vars
  BY <1>1 DEF PublicationMoves
<1>4. Typed /\ SiteInvariant /\ [Next]_vars
        => [\A p \in Publications :
              /\ publication[p].status = "candidate"
              /\ publication[p].prepared_lock # document[publication[p].document].lock_version
              => publication'[p].status # "active"]_vars
  BY <1>1
<1>5. Init => Typed /\ SiteInvariant
  BY TypedInit, SiteInit
<1>6. Typed /\ SiteInvariant /\ [Next]_vars => (Typed /\ SiteInvariant)'
  BY TypedStep, SiteStep
<1>7. QED
  BY <1>2, <1>3, <1>4, <1>5, <1>6, PTL
  DEF Spec, WrittenStays, RevisionsAreImmutable, PublicationsAreImmutable, StaleCandidateStaysOut

\* A change of a row that somebody could overwrite moves its lock version by one; a commit,
\* which moves none, publishes what was prepared at that very version.
THEOREM ChangesMoveTheLock == Spec => EveryChangeMovesTheLock
<1> DEFINE Moves(d) ==
      \/ document'[d].lock_version = document[d].lock_version + 1
      \/ \E p \in Publications :
           /\ publication[p].prepared_lock = document[d].lock_version
           /\ document'[d] = [document[d] EXCEPT !.active_publication = p]
<1>1. ASSUME Typed, SiteInvariant, [Next]_vars, NEW d \in Docs, Stored(d), Stored(d)',
             document'[d] # document[d]
      PROVE  Moves(d)
  <2> document \in [Docs -> DocumentRow] /\ document[d] \in DocumentRow
    BY <1>1 DEF Typed, TypeOK
  <2>1. ASSUME NEW a \in Admins, NEW e \in Docs, Drafting(a, e)
        PROVE  document'[d].lock_version = document[d].lock_version + 1
    <3>1. CASE \E s \in Slugs, c \in Contents : create(a, e, s, c)
      BY <1>1, <3>1 DEF create, Stored
    <3>2. \A c : (\E s \in Slugs : AddRevision(a, e, s, c)) =>
             document'[d].lock_version = document[d].lock_version + 1
      BY <1>1 DEF AddRevision, DocumentRow
    <3>3. \A r \in revisions : r.slug \in Slugs
      BY <1>1 DEF Typed, TypeOK, RevisionRow
    <3>4. QED
      BY <1>1, <2>1, <3>1, <3>2, <3>3
      DEF Drafting, Load, updateMetadata, saveDraft, restoreRevision, CurrentRow
  <2>2. ASSUME NEW a \in Admins, NEW e \in Docs, Lifecycle(a, e)
        PROVE  document'[d].lock_version = document[d].lock_version + 1
    <3>1. CASE unpublish(a, e)
      BY <1>1, <3>1 DEF unpublish, DocumentRow
    <3>2. CASE archive(a, e)
      BY <1>1, <3>2 DEF archive, DocumentRow
    <3>3. CASE restoreArchived(a, e)
      BY <1>1, <3>3 DEF restoreArchived, DocumentRow
    <3>4. CASE purge(a, e)
      BY <1>1, <3>4 DEF purge, Stored, NoRow
    <3>5. CASE setHome(a, e)
      <4> DEFINE n == document[d].lock_version + 1
      <4>1. \/ document'[d] = [document[d] EXCEPT !.is_home = TRUE, !.lock_version = n]
            \/ document'[d] = [document[d] EXCEPT !.is_home = FALSE, !.lock_version = n]
        BY <1>1, <3>5 DEF setHome
      <4> HIDE DEF n
      <4>2. document'[d].lock_version = n
        BY <4>1 DEF DocumentRow
      <4>3. QED
        BY <4>2 DEF n
    <3>6. CASE clearHome(a, e)
      BY <1>1, <3>6 DEF clearHome, DocumentRow
    <3>7. QED
      BY <2>2, <3>1, <3>2, <3>3, <3>4, <3>5, <3>6 DEF Lifecycle
  <2>3. ASSUME NEW a \in Admins, Publishing(a)
        PROVE  \E p \in Publications :
                 /\ publication[p].prepared_lock = document[d].lock_version
                 /\ document'[d] = [document[d] EXCEPT !.active_publication = p]
    <3>1. CommitWrites(a)
      BY <1>1, <2>3 DEF Publishing, preparePublication, storePublicationCandidate,
                        commitPublication, Abandon
    <3>2. /\ request[a].publication \in Publications /\ request[a].document \in Docs
          /\ publication[request[a].publication].prepared_lock
                = document[request[a].document].lock_version
      BY <1>1, <3>1 DEF CommitWrites, Typed, CommitsHoldTheirRows, Committing,
                        RequestsHaveDocuments, SiteInvariant, CommitsStayValid, Unmoved
    <3>3. /\ request[a].document = d
          /\ document'[d] = [document[d] EXCEPT !.active_publication = request[a].publication]
      BY <1>1, <3>1, <3>2 DEF CommitWrites
    <3>4. QED
      BY <3>2, <3>3
  <2>4. QED
    BY <1>1, <2>1, <2>2, <2>3 DEF Next, Expire, vars
<1>2. Typed /\ SiteInvariant /\ [Next]_vars
        => [\A d \in Docs : Stored(d) /\ Stored(d)' /\ document'[d] # document[d] => Moves(d)]_vars
  BY <1>1
<1>3. Init => Typed /\ SiteInvariant
  BY TypedInit, SiteInit
<1>4. Typed /\ SiteInvariant /\ [Next]_vars => (Typed /\ SiteInvariant)'
  BY TypedStep, SiteStep
<1>5. QED
  BY <1>2, <1>3, <1>4, PTL DEF Spec, EveryChangeMovesTheLock
=============================================================================
