------------------------ MODULE PublicDeliveryProofs ------------------------
(***************************************************************************)
(* A visitor's request reads the pages in several statements while the      *)
(* administrators' transactions go on: what it serves is public, and it     *)
(* turns nobody away from a page that stood still. For every instance of    *)
(* PublicDelivery.                                                         *)
(***************************************************************************)
EXTENDS PagePublicationProofs, PublicDelivery, FiniteSetTheorems

\* What the pages are while anybody reads.
Pages == Typed /\ SiteInvariant

\* A request remembers what its target has shown: the publication it reads was shown, and
\* one that is turned away saw the target empty or change.
VisitIsSound ==
    /\ visit \in Visit
    /\ IsFiniteSet(visit.shown)
    /\ visit.step \in {"reading", "found"} => visit.publication \in visit.shown \cap Publications
    /\ MissingOnlyAfterAChange

\* Every step of a visit leaves the pages alone or is a step of theirs.
LEMMA DeliveryImplementsPages == DeliverySpec => Spec
<1>1. DeliveryInit => Init
  BY DEF DeliveryInit
<1>2. [DeliveryNext]_deliveryVars => [Next]_vars
  BY DEF DeliveryNext, deliveryVars, vars, findPublishedBySlug, PublishedDocument,
         findPublishedHome, HomePublication, Respond, Meanwhile
<1>3. QED
  BY <1>1, <1>2, PTL DEF DeliverySpec, Spec
-----------------------------------------------------------------------------
(* What a target shows *)

\* A pointer leads to an active publication of its own document, which is stored and not
\* archived.
LEMMA PointerIsPublic ==
  ASSUME Pages, NEW d \in Docs, NEW p \in Publications, document[d].active_publication = p
  PROVE  Active(p) /\ publication[p].document = d /\ Stored(d) /\ ~document[d].archived
<1>1. p # None
  BY ConstantsAssumption
<1>2. Stored(d)
  <2>1. NoRow(document[d].state).active_publication = None
    BY DEF NoRow
  <2>2. QED
    BY <1>1, <2>1 DEF Pages, SiteInvariant, DocumentsAreConsistent
<1>3. QED
  BY <1>1, <1>2 DEF Pages, SiteInvariant, PointerMatchesStatus, DocumentsAreConsistent

\* A slug shows the publication that is active under it, the root that of the home.
LEMMA SlugShowsTheActive ==
  ASSUME Pages, NEW s \in Slugs, NEW p \in Publications
  PROVE  p \in PublicAt(s) <=> Active(p) /\ publication[p].slug = s
<1>1. s # None
  BY ConstantsAssumption
<1>2. p \in PublicAt(s) => Active(p) /\ publication[p].slug = s
  BY <1>1, PointerIsPublic DEF PublicAt
<1>3. Active(p) /\ publication[p].slug = s => p \in PublicAt(s)
  BY <1>1 DEF PublicAt, Pages, SiteInvariant, PointerMatchesStatus
<1>4. QED
  BY <1>2, <1>3

\* No target shows two pages at once.
LEMMA TargetShowsOne ==
  ASSUME Pages, NEW target \in Slugs \cup {None}
  PROVE  \E q \in Publications \cup {None} : ShownAt(target) = {q}
<1>1. ASSUME NEW p \in PublicAt(target), NEW q \in PublicAt(target)
      PROVE  p = q
  <2>1. CASE target = None
    BY <2>1 DEF PublicAt, Pages, SiteInvariant, HomeIsServable
  <2>2. CASE target \in Slugs
    <3>1. p \in Publications /\ q \in Publications
      BY DEF PublicAt
    <3>2. QED
      BY <2>2, <3>1, SlugShowsTheActive DEF Pages, SiteInvariant, ActiveSlugsDistinct
  <2>3. QED
    BY <2>1, <2>2
<1>2. PublicAt(target) \subseteq Publications
  BY DEF PublicAt
<1>3. QED
  BY <1>1, <1>2 DEF ShownAt

\* A publication that is not what the target shows, and was shown once, proves a change.
LEMMA TwoShownIsAChange ==
  ASSUME NEW S, IsFiniteSet(S), NEW p \in S, NEW q \in S, p # q
  PROVE  Cardinality(S) > 1
<1>1. IsFiniteSet({p}) /\ Cardinality({p}) = 1
  BY FS_Singleton
<1>2. Cardinality({p} \cup {q}) = 2 /\ IsFiniteSet({p} \cup {q})
  BY <1>1, FS_AddElement
<1>3. Cardinality({p} \cup {q}) <= Cardinality(S)
  BY FS_Subset
<1>4. Cardinality(S) \in Nat
  BY FS_CardinalityType
<1>5. QED
  BY <1>2, <1>3, <1>4
\* Looking again keeps what a request has shown a finite set of publications, and shows
\* another one when the publication it reads is not the target's any more.
LEMMA LookingAgain ==
  ASSUME Pages, NEW S \in SUBSET (Publications \cup {None}), IsFiniteSet(S),
         NEW target \in Slugs \cup {None}
  PROVE  /\ S \cup ShownAt(target) \subseteq Publications \cup {None}
         /\ IsFiniteSet(S \cup ShownAt(target))
         /\ \A p \in S \cap Publications :
               p \notin PublicAt(target) => Cardinality(S \cup ShownAt(target)) > 1
<1>1. PICK q \in Publications \cup {None} : ShownAt(target) = {q}
  BY TargetShowsOne
<1>2. IsFiniteSet(S \cup ShownAt(target))
  BY <1>1, FS_AddElement
<1>3. ASSUME NEW p \in S \cap Publications, p \notin PublicAt(target)
      PROVE  Cardinality(S \cup ShownAt(target)) > 1
  <2>1. p \notin ShownAt(target)
    BY <1>3, ConstantsAssumption DEF ShownAt
  <2>2. p # q /\ p \in S \cup ShownAt(target) /\ q \in S \cup ShownAt(target)
    BY <1>1, <2>1
  <2>3. QED
    BY <1>2, <2>2, TwoShownIsAChange
<1>4. QED
  BY <1>1, <1>2, <1>3

\* What a target shows is a publication, or None when it shows none.
LEMMA ShownIsPublicOrNone ==
  ASSUME NEW target
  PROVE  /\ PublicAt(target) \subseteq ShownAt(target) \cap Publications
         /\ PublicAt(target) = {} => ShownAt(target) = {None}
BY DEF ShownAt, PublicAt
-----------------------------------------------------------------------------
(* The request *)

LEMMA VisitInit == DeliveryInit => VisitIsSound
<1>1. IsFiniteSet({})
  BY FS_EmptySet
<1>2. QED
  BY <1>1 DEF DeliveryInit, VisitIsSound, Visit, NoVisit, MissingOnlyAfterAChange

\* The first statement of either lookup starts a request that is sound.
LEMMA FirstStatement ==
  ASSUME Pages,
         (\E s \in Slugs : findPublishedBySlug(s)) \/ findPublishedHome
  PROVE  VisitIsSound'
<1>1. \A target \in Slugs \cup {None} :
         ShownAt(target) \subseteq Publications \cup {None} /\ IsFiniteSet(ShownAt(target))
  <2> SUFFICES ASSUME NEW target \in Slugs \cup {None}
               PROVE  ShownAt(target) \subseteq Publications \cup {None}
                      /\ IsFiniteSet(ShownAt(target))
    OBVIOUS
  <2>1. PICK q \in Publications \cup {None} : ShownAt(target) = {q}
    BY TargetShowsOne
  <2>2. QED
    BY <2>1, FS_Singleton
<1>2. ASSUME NEW s \in Slugs, findPublishedBySlug(s)
      PROVE  VisitIsSound'
  <2>1. CASE /\ {p \in Publications : Active(p) /\ publication[p].slug = s} = {}
             /\ visit' = [step |-> "missing", target |-> s, document |-> None,
                          publication |-> None, shown |-> ShownAt(s)]
    <3>1. PublicAt(s) = {}
      BY <2>1, SlugShowsTheActive DEF PublicAt
    <3>2. None \in ShownAt(s)
      BY <3>1, ShownIsPublicOrNone
    <3>3. QED
      BY <1>1, <2>1, <3>2 DEF VisitIsSound, Visit, MissingOnlyAfterAChange
  <2>2. ASSUME NEW p \in Publications, Active(p), publication[p].slug = s,
               visit' = [step |-> "reading", target |-> s, document |-> None,
                         publication |-> p, shown |-> ShownAt(s)]
        PROVE  VisitIsSound'
    <3>1. p \in ShownAt(s)
      BY <2>2, SlugShowsTheActive, ShownIsPublicOrNone
    <3>2. QED
      BY <1>1, <2>2, <3>1 DEF VisitIsSound, Visit, MissingOnlyAfterAChange
  <2>3. QED
    BY <1>2, <2>1, <2>2 DEF findPublishedBySlug
<1>3. ASSUME findPublishedHome
      PROVE  VisitIsSound'
  <2>1. \A d \in Docs : document[d].is_home =>
           ~document[d].archived /\ document[d].active_publication # None
    BY DEF Pages, SiteInvariant, HomeIsServable
  <2>2. \A d \in Docs : document[d].active_publication \in Publications \cup {None}
    BY DEF Pages, Typed, TypeOK, DocumentRow
  <2>3. CASE /\ {d \in Docs : document[d].is_home /\ ~document[d].archived} = {}
             /\ visit' = [step |-> "missing", target |-> None, document |-> None,
                          publication |-> None, shown |-> ShownAt(None)]
    <3>1. PublicAt(None) = {}
      BY <2>1, <2>3 DEF PublicAt
    <3>2. None \in ShownAt(None)
      BY <3>1, ShownIsPublicOrNone
    <3>3. QED
      BY <1>1, <2>3, <3>2 DEF VisitIsSound, Visit, MissingOnlyAfterAChange
  <2>4. ASSUME NEW d \in Docs, document[d].is_home, ~document[d].archived,
               visit' = [step |-> IF document[d].active_publication = None
                                  THEN "missing" ELSE "reading",
                         target |-> None, document |-> d,
                         publication |-> document[d].active_publication,
                         shown |-> ShownAt(None)]
        PROVE  VisitIsSound'
    <3>1. PICK p \in Publications : document[d].active_publication = p
      BY <2>1, <2>2, <2>4
    <3>2. p \in PublicAt(None)
      BY <2>4, <3>1 DEF PublicAt
    <3>3. p \in ShownAt(None) /\ p # None
      BY <3>2, ShownIsPublicOrNone, ConstantsAssumption
    <3>4. QED
      BY <1>1, <2>4, <3>1, <3>3 DEF VisitIsSound, Visit, MissingOnlyAfterAChange
  <2>5. QED
    BY <1>3, <2>3, <2>4 DEF findPublishedHome
<1>4. QED
  BY <1>2, <1>3

\* The second statement finds the publication public, or the target has changed.
LEMMA SecondStatement ==
  ASSUME Pages, VisitIsSound, PublishedDocument \/ HomePublication
  PROVE  /\ VisitIsSound'
         /\ visit.step = "reading" /\ visit'.step = "found" =>
              \E d \in Docs : /\ document[d].active_publication = visit.publication
                             /\ ~document[d].archived
<1> DEFINE seen == visit.shown \cup ShownAt(visit.target)
<1>1. visit \in Visit /\ visit.step = "reading"
  BY DEF VisitIsSound, PublishedDocument, HomePublication
<1>2. PICK p \in Publications : p = visit.publication /\ p \in visit.shown
  BY <1>1 DEF VisitIsSound
<1>3. visit.shown \in SUBSET (Publications \cup {None}) /\ visit.target \in Slugs \cup {None}
  BY <1>1 DEF Visit
<1>4. /\ seen \subseteq Publications \cup {None}
      /\ IsFiniteSet(seen)
      /\ p \notin PublicAt(visit.target) => Cardinality(seen) > 1
  BY <1>2, <1>3, LookingAgain DEF VisitIsSound
<1> HIDE DEF seen
<1>5. ASSUME visit' = [visit EXCEPT !.step = "found", !.shown = seen]
      PROVE  VisitIsSound'
  BY <1>1, <1>2, <1>4, <1>5 DEF VisitIsSound, Visit, MissingOnlyAfterAChange, seen
<1>6. ASSUME visit' = [visit EXCEPT !.step = "missing", !.shown = seen],
             p \notin PublicAt(visit.target)
      PROVE  VisitIsSound'
  BY <1>1, <1>2, <1>4, <1>6 DEF VisitIsSound, Visit, MissingOnlyAfterAChange
<1>7. CASE PublishedDocument
  <2> DEFINE served == \E d \in Docs : /\ publication[p].document = d
                                       /\ Stored(d) /\ ~document[d].archived
                                       /\ document[d].active_publication = p
  <2>1. visit.target \in Slugs
    BY <1>3, <1>7 DEF PublishedDocument
  <2>2. visit' = [visit EXCEPT !.step = IF served THEN "found" ELSE "missing",
                               !.shown = seen]
    BY <1>2, <1>7 DEF PublishedDocument, seen
  <2>3. CASE served
    <3>1. visit' = [visit EXCEPT !.step = "found", !.shown = seen]
      BY <2>2, <2>3
    <3>2. QED
      BY <1>2, <1>5, <2>3, <3>1
  <2>4. CASE ~served
    <3>1. visit' = [visit EXCEPT !.step = "missing", !.shown = seen]
      BY <2>2, <2>4
    <3>2. p \notin PublicAt(visit.target)
      BY <2>4, PointerIsPublic DEF PublicAt
    <3>3. visit'.step = "missing"
      BY <1>1, <3>1 DEF Visit
    <3>4. QED
      BY <1>6, <3>1, <3>2, <3>3
  <2>5. QED
    BY <2>3, <2>4
<1>8. CASE HomePublication
  <2>1. visit.target = None
    BY <1>8 DEF HomePublication
  <2>2. visit' = [visit EXCEPT !.step = IF Active(p) THEN "found" ELSE "missing",
                               !.shown = seen]
    BY <1>2, <1>8, <2>1 DEF HomePublication, seen
  <2>3. CASE Active(p)
    <3>1. visit' = [visit EXCEPT !.step = "found", !.shown = seen]
      BY <2>2, <2>3
    <3>2. PICK d \in Docs : document[d].active_publication = p
      BY <2>3 DEF Pages, SiteInvariant, PointerMatchesStatus
    <3>3. ~document[d].archived
      BY <3>2, PointerIsPublic
    <3>4. QED
      BY <1>2, <1>5, <3>1, <3>2, <3>3
  <2>4. CASE ~Active(p)
    <3>1. visit' = [visit EXCEPT !.step = "missing", !.shown = seen]
      BY <2>2, <2>4
    <3>2. p \notin PublicAt(visit.target)
      BY <2>4, PointerIsPublic DEF PublicAt
    <3>3. visit'.step = "missing"
      BY <1>1, <3>1 DEF Visit
    <3>4. QED
      BY <1>6, <3>1, <3>2, <3>3
  <2>5. QED
    BY <2>3, <2>4
<1>9. QED
  BY <1>7, <1>8

\* The administrators' transactions only add to what a request has shown.
LEMMA MeanwhileStaysSound ==
  ASSUME Pages, VisitIsSound, Meanwhile
  PROVE  VisitIsSound'
<1>1. visit \in Visit
  BY DEF VisitIsSound
<1>2. CASE visit.step # "reading"
  <2>1. visit' = visit
    BY <1>2 DEF Meanwhile
  <2>2. QED
    BY <2>1 DEF VisitIsSound, MissingOnlyAfterAChange
<1>3. CASE visit.step = "reading"
  <2> DEFINE seen == visit.shown \cup ShownAt(visit.target)
  <2>1. visit' = [visit EXCEPT !.shown = seen]
    BY <1>3 DEF Meanwhile
  <2>2. seen \subseteq Publications \cup {None} /\ IsFiniteSet(seen)
    BY <1>1, LookingAgain DEF Visit, VisitIsSound
  <2>3. visit.publication \in seen \cap Publications
    BY <1>3 DEF VisitIsSound
  <2> HIDE DEF seen
  <2>4. QED
    BY <1>1, <1>3, <2>1, <2>2, <2>3 DEF VisitIsSound, Visit, MissingOnlyAfterAChange
<1>4. QED
  BY <1>2, <1>3

(* Every step keeps what a visitor has read true of some moment of the visit. *)
LEMMA VisitStep == Pages /\ VisitIsSound /\ [DeliveryNext]_deliveryVars => VisitIsSound'
<1> SUFFICES ASSUME Pages, VisitIsSound, [DeliveryNext]_deliveryVars
             PROVE  VisitIsSound'
  OBVIOUS
<1>1. CASE (\E s \in Slugs : findPublishedBySlug(s)) \/ findPublishedHome
  BY <1>1, FirstStatement
<1>2. CASE PublishedDocument \/ HomePublication
  BY <1>2, SecondStatement
<1>3. CASE Respond
  <2>1. IsFiniteSet({})
    BY FS_EmptySet
  <2>2. visit' = NoVisit
    BY <1>3 DEF Respond
  <2>3. QED
    BY <2>1, <2>2 DEF VisitIsSound, Visit, NoVisit, MissingOnlyAfterAChange
<1>4. CASE Meanwhile
  BY <1>4, MeanwhileStaysSound
<1>5. CASE UNCHANGED deliveryVars
  BY <1>5 DEF deliveryVars, VisitIsSound, MissingOnlyAfterAChange
<1>6. QED
  BY <1>1, <1>2, <1>3, <1>4, <1>5 DEF DeliveryNext
-----------------------------------------------------------------------------
(* The theorems *)

\* The pages keep their invariants while visitors read.
LEMMA PagesAreKept == DeliverySpec => []Pages
<1>1. Init => Pages
  BY TypedInit, SiteInit DEF Pages
<1>2. Pages /\ [Next]_vars => Pages'
  BY TypedStep, SiteStep DEF Pages
<1>3. QED
  BY <1>1, <1>2, DeliveryImplementsPages, PTL DEF Spec

\* Requests stay sound: what each of them has shown is what its answer is judged by.
THEOREM VisitsAreSound == DeliverySpec => []VisitIsSound
BY PagesAreKept, VisitInit, VisitStep, PTL DEF DeliverySpec

\* Every variable of the delivery keeps its type.
THEOREM DeliveryTypesAreCorrect == DeliverySpec => []DeliveryTypeOK
<1>1. Pages /\ VisitIsSound => DeliveryTypeOK
  BY DEF Pages, Typed, VisitIsSound, DeliveryTypeOK
<1>2. QED
  BY <1>1, PagesAreKept, VisitsAreSound, PTL

\* A visitor is turned away only from a target that was empty or changed during the visit.
THEOREM NobodyIsTurnedAway == DeliverySpec => []MissingOnlyAfterAChange
<1>1. VisitIsSound => MissingOnlyAfterAChange
  BY DEF VisitIsSound
<1>2. QED
  BY <1>1, VisitsAreSound, PTL

\* What a visitor gets is public when the last statement reads, although the two
\* statements share no transaction.
THEOREM VisitorsGetPublicPages == DeliverySpec => ServesOnlyPublicPages
<1> DEFINE Public == visit.step = "reading" /\ visit'.step = "found" =>
              /\ visit.publication \in visit.shown
              /\ \E d \in Docs : /\ document[d].active_publication = visit.publication
                                 /\ ~document[d].archived
<1>1. Pages /\ VisitIsSound /\ [DeliveryNext]_deliveryVars => [Public]_deliveryVars
  <2> SUFFICES ASSUME Pages, VisitIsSound, [DeliveryNext]_deliveryVars,
                      visit.step = "reading", visit'.step = "found"
               PROVE  Public
    OBVIOUS
  <2>1. visit.publication \in visit.shown
    BY DEF VisitIsSound
  <2>2. visit' # visit /\ visit \in Visit
    BY DEF VisitIsSound
  <2>3. ~Meanwhile
    BY <2>2 DEF Meanwhile, Visit
  <2>4. PublishedDocument \/ HomePublication
    BY <2>2, <2>3 DEF DeliveryNext, deliveryVars, findPublishedBySlug, findPublishedHome, Respond
  <2>5. QED
    BY <2>1, <2>4, SecondStatement
<1>2. QED
  BY <1>1, PagesAreKept, VisitsAreSound, PTL DEF DeliverySpec, ServesOnlyPublicPages

\* Pointers, homes and locks are for visitors what they are for administrators.
THEOREM VisitorsChangeNothing ==
  DeliverySpec => [](PointerMatchesStatus /\ HomeIsServable)
                  /\ EveryChangeMovesTheLock /\ ImplementsPublishedSite
BY DeliveryImplementsPages, PointersMatchStatuses, HomesAreServable, ChangesMoveTheLock,
   PublicationImplementsSite, PTL
=============================================================================
