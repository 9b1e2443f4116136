---------------------------- MODULE PublishedSite ----------------------------
(***************************************************************************)
(* What the publication subsystem promises to a visitor, with no drafts,   *)
(* tokens, locks or requests: a document is either live, showing one page  *)
(* under one public slug, or it is not; at most one live document is home. *)
(***************************************************************************)
EXTENDS FiniteSets, Naturals

CONSTANTS Docs,      \* document ids
          Slugs,     \* public slugs
          Contents,  \* what a compiled artifact shows
          None       \* "no page"

VARIABLES live,      \* the page each document shows in public, or None
          home       \* the documents the site root may serve

siteVars == <<live, home>>

Page == [slug : Slugs, content : Contents]

Init == /\ live = [d \in Docs |-> None]
        /\ home = {}

\* A document starts to show a page, or replaces the page it shows. The slug
\* is free, or is the one the document holds already.
Publish(d, page) ==
    /\ \A e \in Docs \ {d} : live[e] # None => live[e].slug # page.slug
    /\ live' = [live EXCEPT ![d] = page]
    /\ UNCHANGED home

\* A document stops being public, and with it stops being home.
Withdraw(d) ==
    /\ live[d] # None
    /\ live' = [live EXCEPT ![d] = None]
    /\ home' = home \ {d}

\* The home moves in one step: there is no moment with two homes.
SetHome(d) ==
    /\ live[d] # None
    /\ home' = {d}
    /\ UNCHANGED live

ClearHome(d) ==
    /\ d \in home
    /\ home' = home \ {d}
    /\ UNCHANGED live

Next == \E d \in Docs :
          \/ \E page \in Page : Publish(d, page)
          \/ Withdraw(d)
          \/ SetHome(d)
          \/ ClearHome(d)

Spec == Init /\ [][Next]_siteVars
=============================================================================
