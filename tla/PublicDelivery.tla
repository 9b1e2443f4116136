--------------------------- MODULE PublicDelivery ---------------------------
(***************************************************************************)
(* A visitor asks for a public page while administrators publish. The two  *)
(* lookups of EloquentPageBuilderRepository run outside any transaction:   *)
(* each reads two tables in two statements, and every transaction of       *)
(* PagePublication may commit between them.                                *)
(***************************************************************************)
EXTENDS PagePublication

VARIABLE visit    \* the visitor's request

deliveryVars == <<document, revisions, publication, tab, request, visit>>

\* The target is a slug, or None for the root of the site. "shown" is not in
\* the code: the publications (None for none) that were public at the target
\* at some moment of the request.
Visit ==
    [step        : {"idle", "reading", "found", "missing"},
     target      : Slugs \cup {None},
     document    : Docs \cup {None},
     publication : Publications \cup {None},
     shown       : SUBSET (Publications \cup {None})]

NoVisit == [step |-> "idle", target |-> None, document |-> None,
            publication |-> None, shown |-> {}]

\* The publications a visitor of a target should get at this moment.
PublicAt(target) ==
    {p \in Publications : \E d \in Docs :
        /\ document[d].active_publication = p
        /\ IF target = None THEN document[d].is_home
                            ELSE publication[p].slug = target}

ShownAt(target) == IF PublicAt(target) = {} THEN {None} ELSE PublicAt(target)

DeliveryInit == Init /\ visit = NoVisit
-----------------------------------------------------------------------------
(* GET /pages/{slug}: the active publication, then its document *)

findPublishedBySlug(s) ==
    /\ visit.step = "idle"
    /\ LET rows == {p \in Publications : Active(p) /\ publication[p].slug = s}
           Started(step, p) ==
               [step |-> step, target |-> s, document |-> None,
                publication |-> p, shown |-> ShownAt(s)]
       IN  \/ rows = {} /\ visit' = Started("missing", None)
           \/ \E p \in rows : visit' = Started("reading", p)
    /\ UNCHANGED vars

\* Mutated: the document is found, but not asked which publication it points to.
PublishedDocumentOfAnyPointer ==
    /\ visit.step = "reading"
    /\ visit.target # None
    /\ LET p == visit.publication
           served == \E d \in Docs : /\ publication[p].document = d
                                     /\ Stored(d) /\ ~document[d].archived
       IN  visit' = [visit EXCEPT !.step = IF served THEN "found" ELSE "missing",
                                  !.shown = @ \cup ShownAt(visit.target)]
    /\ UNCHANGED vars

\* Mutated: the draft slug of the row has to be the slug asked for.
PublishedDocumentByDraftSlug ==
    /\ visit.step = "reading"
    /\ visit.target # None
    /\ LET p == visit.publication
           served == \E d \in Docs : /\ publication[p].document = d
                                     /\ Stored(d) /\ ~document[d].archived
                                     /\ document[d].active_publication = p
                                     /\ document[d].slug = visit.target
       IN  visit' = [visit EXCEPT !.step = IF served THEN "found" ELSE "missing",
                                  !.shown = @ \cup ShownAt(visit.target)]
    /\ UNCHANGED vars

\* The public slug of the publication counts, never the draft slug of the row.
PublishedDocument ==
    /\ visit.step = "reading"
    /\ visit.target # None
    /\ LET p == visit.publication
           served == \E d \in Docs : /\ publication[p].document = d
                                     /\ Stored(d) /\ ~document[d].archived
                                     /\ document[d].active_publication = p
       IN  visit' = [visit EXCEPT !.step = IF served THEN "found" ELSE "missing",
                                  !.shown = @ \cup ShownAt(visit.target)]
    /\ UNCHANGED vars

(* GET /: the home document, then its active publication *)

findPublishedHome ==
    /\ visit.step = "idle"
    /\ LET rows == {d \in Docs : document[d].is_home /\ ~document[d].archived}
           Started(step, d, p) ==
               [step |-> step, target |-> None, document |-> d,
                publication |-> p, shown |-> ShownAt(None)]
       IN  \/ rows = {} /\ visit' = Started("missing", None, None)
           \/ \E d \in rows :
                LET p == document[d].active_publication
                IN  visit' = Started(IF p = None THEN "missing" ELSE "reading", d, p)
    /\ UNCHANGED vars

\* Mutated: the home page of the template is answered as a page of its own.
HomePublicationOfTemplate ==
    /\ visit.step = "reading"
    /\ visit.target = None
    /\ visit' = [visit EXCEPT !.step =
                    IF Active(visit.publication) THEN "found" ELSE "template_home",
                              !.shown = @ \cup ShownAt(None)]
    /\ UNCHANGED vars

HomePublication ==
    /\ visit.step = "reading"
    /\ visit.target = None
    /\ visit' = [visit EXCEPT !.step =
                    IF Active(visit.publication) THEN "found" ELSE "missing",
                              !.shown = @ \cup ShownAt(None)]
    /\ UNCHANGED vars

\* The page, a 404, or for the root the home page of the template is sent.
Respond ==
    /\ visit.step \in {"found", "missing"}
    /\ visit' = NoVisit
    /\ UNCHANGED vars

\* A transaction of an administrator, or the clock, while the visit goes on.
Meanwhile ==
    /\ Next
    /\ visit' = IF visit.step # "reading" THEN visit
                ELSE [visit EXCEPT !.shown = @ \cup ShownAt(visit.target)]
-----------------------------------------------------------------------------
DeliveryNext == \/ \E s \in Slugs : findPublishedBySlug(s)
                \/ PublishedDocument
                \/ findPublishedHome
                \/ HomePublication
                \/ Respond
                \/ Meanwhile

DeliverySpec == DeliveryInit /\ [][DeliveryNext]_deliveryVars
-----------------------------------------------------------------------------
(* Properties *)

DeliveryTypeOK == TypeOK /\ visit \in Visit

\* What a visitor gets is public when the last statement reads: a page that
\* was unpublished, archived or replaced between the two statements does not
\* come out, at its slug or at the root.
ServesOnlyPublicPages ==
    [][visit.step = "reading" /\ visit'.step = "found" =>
         /\ visit.publication \in visit.shown
         /\ \E d \in Docs : /\ document[d].active_publication = visit.publication
                            /\ ~document[d].archived]_deliveryVars

\* A visitor is turned away only if, during the visit, the target was empty or
\* changed what it showed. A rename of the draft alone turns nobody away.
MissingOnlyAfterAChange ==
    visit.step = "missing" => None \in visit.shown \/ Cardinality(visit.shown) > 1

\* A target that shows a page throughout the visit gives the visitor a page:
\* the commit replaces the active publication in one atomic step.
PublishedPageIsFound ==
    visit.step = "missing" => None \in visit.shown
=============================================================================
