---------------------------- MODULE MCDocuments ----------------------------
(***************************************************************************)
(* Page documents: their rows on the server, the trees of elements and the *)
(* layouts of blocks that an editor changes. They share no state: a        *)
(* behaviour works with one subject.                                       *)
(***************************************************************************)
EXTENDS PagePublication, ElementTree, CanvasPlacement, TLC

VARIABLE subject

documentVars == <<subject, vars, treeVars, layoutVars>>
-----------------------------------------------------------------------------
(* PagePublication *)

\* Nothing in the model names a slug or an administrator, so the values of
\* each set may be exchanged. Safety only: no run with this states liveness.
Symmetric == Permutations(Docs) \cup Permutations(Slugs)
                \cup Permutations(Admins) \cup Permutations(Publications)

\* Bound: one document with one publication and a long history in contents of
\* both generations, or several with a short one in structured contents.
LongOrWide ==
    \/ /\ Cardinality({d \in Docs : document[d].state # "absent"}) <= 1
       /\ Cardinality({p \in Publications : publication[p].status # "none"}) <= 1
    \/ /\ \A d \in Docs : document[d].lock_version <= 2
       /\ \A r \in revisions : r.content \in Structured
-----------------------------------------------------------------------------
(* ElementTree *)

\* A picture twice under one identity and one under another.
SomeAssets == {<<"i1", "u1">>, <<"i1", "u2">>, <<"i2", "u2">>, <<"i3", "u2">>}

OfKind(kind) == [Blank EXCEPT !.kind = kind]

\* A box with a box it shows and a link to it; and a picture between two others.
NestedTree ==
    [kids |-> [p \in Holders |-> IF p = 0 THEN <<1>> ELSE IF p = 1 THEN <<2, 3>> ELSE << >>],
     look |-> [e \in ElementIds |->
                  CASE e = 1 -> [OfKind("box") EXCEPT !.behavior = <<2, 3>>]
                    [] e = 2 -> [OfKind("leaf") EXCEPT !.link = 3]
                    [] e = 3 -> OfKind("box")
                    [] OTHER -> Blank],
     assets |-> {<<"i1", "u1">>}]
FlatTree ==
    [kids |-> [p \in Holders |-> IF p = 0 THEN <<1, 2, 3>> ELSE << >>],
     look |-> [e \in ElementIds |->
                  CASE e = 1 -> [OfKind("leaf") EXCEPT !.link = 3]
                    [] e = 2 -> [OfKind("image") EXCEPT !.asset = "i1"]
                    [] e = 3 -> OfKind("box")
                    [] OTHER -> Blank],
     assets |-> {<<"i1", "u1">>}]
SomeTrees == {NestedTree, FlatTree}

\* A composition with a picture under an identity that the page may use too.
SavedPicture ==
    [kids |-> [p \in Holders |-> IF p = 0 THEN <<MaxElements>> ELSE << >>],
     look |-> [e \in ElementIds |-> IF e = MaxElements THEN [OfKind("image") EXCEPT !.asset = "i1"]
                                    ELSE Blank],
     assets |-> {<<"i1", "u2">>}]
SomeCompositions == {SavedPicture}
SomeSelections == {<<1>>, <<1, 3>>}
-----------------------------------------------------------------------------
(* CanvasPlacement *)

EmptyZones == [z \in LayoutZones |-> <<>>]

\* A section with two columns, which hold a stack and a card.
SectionPage ==
    [structured |-> TRUE,
     layout |-> [kids |-> [EmptyZones EXCEPT ![TopZone] = <<1>>, ![<<1, 1>>] = <<2>>,
                                             ![<<2, 1>>] = <<3>>, ![<<2, 2>>] = <<4>>],
                 item |-> [i \in ItemIds |->
                              CASE i = 1 -> FreshItem("section")
                                [] i = 2 -> FreshItem("columns")
                                [] i = 3 -> FreshItem("stack")
                                [] i = 4 -> FreshItem("card")
                                [] OTHER -> NoItem]]]
\* A page of blocks only.
FlatPage ==
    [structured |-> FALSE,
     layout |-> [kids |-> [EmptyZones EXCEPT ![TopZone] = <<1, 2>>],
                 item |-> [i \in ItemIds |-> CASE i = 1 -> FreshItem("hero")
                                               [] i = 2 -> FreshItem("leaf")
                                               [] OTHER -> NoItem]]]
SomeLayouts == {SectionPage, FlatPage}
-----------------------------------------------------------------------------
DocumentsInit ==
    /\ subject \in {"pages", "tree", "layout"}
    /\ Init /\ ElementTreeInit /\ LayoutInit
    /\ subject # "tree" => edited.doc = FlatTree
    /\ subject # "layout" => ~board.structured

DocumentsNext ==
    /\ UNCHANGED subject
    /\ \/ /\ subject = "pages" /\ Next /\ LongOrWide'
          /\ UNCHANGED <<treeVars, layoutVars>>
       \/ subject = "tree" /\ ElementTreeNext /\ UNCHANGED <<vars, layoutVars>>
       \/ subject = "layout" /\ LayoutNext /\ UNCHANGED <<vars, treeVars>>

DocumentsSpec == DocumentsInit /\ [][DocumentsNext]_documentVars
-----------------------------------------------------------------------------
(* Properties *)

\* A command changes what it was given for and nothing else, and leaves a document
\* that can be saved; what the toolbar offers is what the document allows.
CommandsAreAimed ==
    /\ [](subject = "tree" => ElementTreeTypeOK)
    /\ LockedIsLeftAlone /\ NothingElseMoves /\ CopiesStandAlone
    /\ [](subject = "layout" => LayoutTypeOK /\ OffersAreAccepted /\ MenuIsExact)
    /\ NothingIsLost /\ SelectionFollows
=============================================================================
