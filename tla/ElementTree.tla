---------------------------- MODULE ElementTree ----------------------------
(***************************************************************************)
(* The elements of a document of the precise editor and the commands on    *)
(* them: what may be moved, grouped, copied and locked, and what a copy    *)
(* refers to (documents/v3 tree, commands, clipboard, behaviors, validate).*)
(*                                                                         *)
(* A command that is refused changes nothing and is no step. Text, names   *)
(* and the style but for layout and position are one mark, "text"; a       *)
(* behaviour is the pair of its trigger and its panel; colour tokens,      *)
(* service bindings and data connections are left out, and so is what a    *)
(* command selects: every command is tried on every selection.             *)
(***************************************************************************)
EXTENDS Integers, FiniteSets, Sequences
LOCAL INSTANCE SequencesExt

CONSTANTS MaxElements, \* bound on the identities that are given
          MaxDepth,    \* design-policy-v3.json limits.depth
          MaxCommands, \* bound on the length of the history
          MaxSelected, \* bound on the elements selected together
          Copied,      \* bound: the selections that are copied
          TreeAssets,      \* pairs of an asset's identity and its url
          NoAsset,
          FirstTrees,  \* the documents the editor opens
          Compositions \* the documents of the catalog

VARIABLES edited, \* the document, its Undo history and the last step
          shelf   \* the clipboard of the session, or a stored composition

treeVars == <<edited, shelf>>
-----------------------------------------------------------------------------
Page0 == 0   \* the list of the page's blocks, which has no identity
ElementIds == 1 .. MaxElements
Holders == {Page0} \cup ElementIds
AssetIds == {a[1] : a \in TreeAssets}

Look == [kind : {"box", "leaf", "image"}, locked : BOOLEAN, text : {"old", "new"},
         style : {"plain", "flex", "relative", "absolute"}, link : Holders,
         behavior : {<< >>} \cup (ElementIds \X ElementIds),
         asset : AssetIds \cup {NoAsset}]
Blank == [kind |-> "leaf", locked |-> FALSE, text |-> "old", style |-> "plain",
          link |-> Page0, behavior |-> << >>, asset |-> NoAsset]
Tree == [kids : [Holders -> Seq(ElementIds)], look : [ElementIds -> Look],
         assets : SUBSET TreeAssets]
Step == [kind : {"none", "move", "group", "copy", "refused", "other"},
         items : Seq(ElementIds), copies : Seq(ElementIds), at : Nat]
Edited == [doc : Tree, past : Seq(Tree), last : Step]
NoStep == [kind |-> "none", items |-> << >>, copies |-> << >>, at |-> 0]
Other == [NoStep EXCEPT !.kind = "other"]
-----------------------------------------------------------------------------
(* Reading a tree *)

\* What is below each holder, in reading order.
Below(d) == LET below[p \in Holders] ==
                    FlattenSeq([i \in 1 .. Len(d.kids[p]) |->
                                  <<d.kids[p][i]>> \o below[d.kids[p][i]]])
            IN  below
Reading(d) == Below(d)[Page0]
InTree(d) == ToSet(Reading(d))
Inside(d, p) == ToSet(Below(d)[p])
ParentOf(d, e) == CHOOSE p \in Holders : Contains(d.kids[p], e)
Above(d, e) == LET upward[p \in Holders] ==
                       IF p = Page0 THEN {} ELSE {p} \cup upward[ParentOf(d, p)]
               IN  upward[e] \ {e}
IndexIn(list, e) == CHOOSE i \in 1 .. Len(list) : list[i] = e

\* selectionRoots: without what is inside another one, in reading order.
SelectionRoots(d, ids) ==
    SelectSeq(Reading(d), LAMBDA e : e \in ids /\ Above(d, e) \cap ids = {})

\* Mutated: what is inside is not looked at.
EditableItself(d, e, whole, unlocking) ==
    /\ \A p \in Above(d, e) : ~d.look[p].locked
    /\ unlocking \/ ~d.look[e].locked

\* assertEditable: nothing above is locked, nor the element but for its unlocking,
\* nor anything inside when the whole is meant.
Editable(d, e, whole, unlocking) ==
    /\ \A p \in Above(d, e) : ~d.look[p].locked
    /\ unlocking \/ ~d.look[e].locked
    /\ whole => \A k \in Inside(d, e) : ~d.look[k].locked

AllEditable(d, items) == \A e \in ToSet(items) : Editable(d, e, TRUE, FALSE)
Accepting(d, p) == p # Page0 => Editable(d, p, FALSE, FALSE) /\ d.look[p].kind = "box"
AllFlow(d, items) == \A e \in ToSet(items) : d.look[e].style # "absolute"
GroupContext(d, p) == p # Page0 => d.look[p].style # "flex"
Siblings(d, items) == \A e \in ToSet(items) : ParentOf(d, e) = ParentOf(d, items[1])
-----------------------------------------------------------------------------
(* What every document must satisfy *)

ValidBehavior(d, host) ==
    LET trigger == d.look[host].behavior[1]
        panel == d.look[host].behavior[2]
    IN  /\ d.look[host].kind = "box"
        /\ {trigger, panel} \subseteq Inside(d, host)
        /\ d.look[trigger].kind = "leaf" /\ d.look[panel].kind = "box"
        /\ \A e \in {trigger, panel} :
             \A k \in {e} \cup (Above(d, e) \cap Inside(d, host)) :
                d.look[k].behavior = << >>
        /\ trigger \notin Inside(d, panel)

ValidStyle(d, e) ==
    d.look[e].style = "absolute" =>
        LET p == ParentOf(d, e)
        IN  p # Page0 /\ d.look[p].style \in {"relative", "absolute"}

ValidTree(d) ==
    /\ Cardinality(InTree(d)) = Len(Reading(d))
    /\ \A e \in InTree(d) :
         /\ Cardinality(Above(d, e)) < MaxDepth
         /\ d.look[e].kind # "box" => d.kids[e] = << >>
         /\ d.look[e].kind = "image" => \E a \in d.assets : a[1] = d.look[e].asset
         /\ ValidStyle(d, e)
         /\ d.look[e].behavior # << >> => ValidBehavior(d, e)
-----------------------------------------------------------------------------
(* The commands *)

Spliced(list, i, items) == SubSeq(list, 1, i) \o items \o SubSeq(list, i + 1, Len(list))
WithoutItems(list, items) == SelectSeq(list, LAMBDA e : ~Contains(items, e))
Detached(d, items) == [d EXCEPT !.kids = [p \in Holders |-> WithoutItems(d.kids[p], items)]]
Placed(d, p, i, items) == [d EXCEPT !.kids[p] = Spliced(@, i, items)]
\* What is no longer in the tree is gone.
Forgotten(d) == [d EXCEPT !.kids = [p \in Holders |->
                                      IF p \in InTree(d) \cup {Page0} THEN d.kids[p] ELSE << >>],
                          !.look = [e \in ElementIds |->
                                      IF e \in InTree(d) THEN d.look[e] ELSE Blank]]

MayMove(d, items, p) ==
    /\ AllEditable(d, items) /\ Accepting(d, p)
    /\ p # Page0 => ({p} \cup Above(d, p)) \cap ToSet(items) = {}
    /\ \A e \in ToSet(items) : ParentOf(d, e) # p => d.look[e].style # "absolute"

\* Mutated: the index counts the elements that leave the list.
ShiftedNot(d, items, p, i) == IF i > Len(WithoutItems(d.kids[p], items))
                              THEN Len(WithoutItems(d.kids[p], items)) ELSE i

\* The index in the list without the elements that are moved.
Shifted(d, items, p, i) == i - Len(SelectSeq(SubSeq(d.kids[p], 1, i),
                                             LAMBDA e : Contains(items, e)))

Moved(d, items, p, i) == Placed(Detached(d, items), p, Shifted(d, items, p, i), items)

\* Contiguous siblings into a new neutral container.
MayGroup(d, items) ==
    /\ AllEditable(d, items) /\ Siblings(d, items) /\ AllFlow(d, items)
    /\ LET p == ParentOf(d, items[1])
       IN  /\ GroupContext(d, p)
           /\ \A i \in 2 .. Len(items) :
                IndexIn(d.kids[p], items[i]) = IndexIn(d.kids[p], items[1]) + i - 1
Grouped(d, items, id) ==
    LET p == ParentOf(d, items[1])
        at == IndexIn(d.kids[p], items[1]) - 1
    IN  [Placed(Detached(d, items), p, at, <<id>>) EXCEPT
            !.kids[id] = items, !.look[id] = [Blank EXCEPT !.kind = "box"]]

\* Only a container without a style or a behaviour of its own comes apart.
MayUngroup(d, items) ==
    /\ AllEditable(d, items)
    /\ \A e \in ToSet(items) :
         /\ d.look[e].kind = "box" /\ d.look[e].style = "plain" /\ d.look[e].behavior = << >>
         /\ GroupContext(d, ParentOf(d, e)) /\ AllFlow(d, d.kids[e])
Ungrouped(d, items) ==
    Forgotten([d EXCEPT !.kids = [p \in Holders |->
        IF Contains(items, p) THEN << >>
        ELSE FlattenSeq([i \in 1 .. Len(d.kids[p]) |->
                IF Contains(items, d.kids[p][i]) THEN d.kids[d.kids[p][i]]
                ELSE <<d.kids[p][i]>>])]])
-----------------------------------------------------------------------------
(* Copies *)

NoShelf == [source |-> << >>, ids |-> << >>]
Shelf == {NoShelf} \cup [source : Tree, ids : Seq(ElementIds)]

\* UUIDs that no document has had.
Given == UNION {InTree(d) : d \in {edited.doc} \cup ToSet(edited.past)
                                  \cup (IF shelf = NoShelf THEN {} ELSE {shelf.source})}
FreshIds(from) == SetToSortSeq(ElementIds \ (Given \cup InTree(from)), <)
CopiedFrom(source, ids) ==
    SelectSeq(Reading(source), LAMBDA e : Contains(ids, e) \/ Above(source, e) \cap ToSet(ids) # {})

\* Mutated: an asset keeps its identity in a document that has another one by it.
AssetOfSame(target, source, id) == CHOOSE a \in source.assets : a[1] = id

\* The asset of a copied image: the source's, under another identity if the
\* document already has a different one by that identity.
AssetOf(target, source, id) ==
    LET asset == CHOOSE a \in source.assets : a[1] = id
    IN  IF \E a \in target.assets : a[1] = id /\ a[2] # asset[2]
        THEN CHOOSE a \in TreeAssets : /\ a[2] = asset[2]
                                   /\ \A b \in source.assets \cup target.assets : a[1] # b[1]
        ELSE asset

\* Mutated: a link keeps pointing to the element that was copied.
RelinkedKept(look, new) ==
    IF look.behavior = << >> THEN look
    ELSE [look EXCEPT !.behavior = <<new[look.behavior[1]], new[look.behavior[2]]>>]

\* Links and behaviours inside what is copied refer to the copy.
Relinked(look, new) ==
    [look EXCEPT !.link = IF @ \in DOMAIN new THEN new[@] ELSE @,
                 !.behavior = IF @ = << >> THEN @ ELSE <<new[@[1]], new[@[2]]>>]

NewIds(source, ids) == [e \in ToSet(CopiedFrom(source, ids)) |->
                          FreshIds(source)[IndexIn(CopiedFrom(source, ids), e)]]
MayCopy(source, ids) == Len(CopiedFrom(source, ids)) <= Len(FreshIds(source))

\* materializeClipboard, and the splice of its roots at index i of p.
Materialized(target, source, ids, p, i) ==
    LET new == NewIds(source, ids)
        origin == [n \in {new[e] : e \in DOMAIN new} |-> CHOOSE e \in DOMAIN new : new[e] = n]
        Copy(list) == [j \in 1 .. Len(list) |-> new[list[j]]]
        asset(e) == AssetOf(target, source, source.look[e].asset)
        images == {e \in DOMAIN new : source.look[e].kind = "image"}
        looks == [e \in DOMAIN new |->
                    [Relinked(source.look[e], new) EXCEPT
                        !.asset = IF e \in images THEN asset(e)[1] ELSE @]]
    IN  Placed([kids |-> [h \in Holders |-> IF h \in DOMAIN origin THEN Copy(source.kids[origin[h]])
                                            ELSE target.kids[h]],
                look |-> [h \in ElementIds |-> IF h \in DOMAIN origin THEN looks[origin[h]]
                                               ELSE target.look[h]],
                assets |-> target.assets \cup {asset(e) : e \in images}],
               p, i, Copy(ids))
-----------------------------------------------------------------------------
(* Steps *)

ElementTreeInit ==
    /\ edited \in [doc : FirstTrees, past : {<< >>}, last : {NoStep}]
    /\ shelf = NoShelf

\* The commit of a command's result; validateDocumentV3 refuses what is not valid.
Execute(d, step) ==
    /\ Len(edited.past) < MaxCommands
    /\ d # edited.doc /\ ValidTree(d)
    /\ edited' = [doc |-> d, past |-> Append(edited.past, edited.doc),
                  last |-> step]
    /\ UNCHANGED shelf

Selections == {SelectionRoots(edited.doc, ids) :
                 ids \in {s \in SUBSET InTree(edited.doc) : Cardinality(s) \in 1 .. MaxSelected}}
Places(d) == {Page0} \cup InTree(d)

Move(items, p, i) ==
    /\ MayMove(edited.doc, items, p)
    /\ Execute(Moved(edited.doc, items, p, i),
               [kind |-> "move", items |-> items, copies |-> << >>, at |-> i])

\* Mutated: Puck's index is taken as the command's.
DragIndexRaw(d, e, p, j) == j

\* puckMoveCommand: Puck's index is the one after the element has left its list.
DragIndex(d, e, p, j) == j + (IF ParentOf(d, e) = p /\ IndexIn(d.kids[p], e) - 1 < j THEN 1 ELSE 0)

\* A drag inside Puck, whose own result must be that of the command.
Drag(e, p, j) ==
    LET d == edited.doc
        candidate == Placed(Detached(d, <<e>>), p, j, <<e>>)
    IN  /\ j <= Len(WithoutItems(d.kids[p], <<e>>)) /\ p # e /\ candidate # d
        /\ MayMove(d, <<e>>, p)
        /\ IF candidate = Moved(d, <<e>>, p, DragIndex(d, e, p, j))
           THEN Execute(candidate, [kind |-> "move", items |-> <<e>>, copies |-> << >>,
                                    at |-> DragIndex(d, e, p, j)])
           ELSE /\ edited' = [edited EXCEPT !.last.kind = "refused"]
                /\ UNCHANGED shelf

Delete(items) ==
    /\ AllEditable(edited.doc, items)
    /\ Execute(Forgotten(Detached(edited.doc, items)), Other)

\* insert and image-insert of a new element at the end of p; an asset is registered
\* once by its url.
Registered(d, asset) == \A a \in d.assets : (a[1] = asset[1]) = (a[2] = asset[2])
InsertElement(look, assets, p) ==
    LET d == edited.doc
    IN  /\ Accepting(d, p) /\ FreshIds(d) # << >>
        /\ \A a \in assets : Registered(d, a)
        /\ Execute(Placed([d EXCEPT !.look[Head(FreshIds(d))] = look, !.assets = @ \cup assets],
                          p, Len(d.kids[p]), <<Head(FreshIds(d))>>), Other)

Group(items) ==
    /\ MayGroup(edited.doc, items) /\ FreshIds(edited.doc) # << >>
    /\ LET id == Head(FreshIds(edited.doc))
       IN  Execute(Grouped(edited.doc, items, id),
                   [kind |-> "group", items |-> items, copies |-> <<id>>, at |-> 0])

Ungroup(items) ==
    /\ MayUngroup(edited.doc, items)
    /\ Execute(Ungrouped(edited.doc, items), Other)

\* lock and unlock; rename, content and image, which are of one element; styles, which
\* the selected elements must all allow and the outermost get; behavior.
Lock(items, locked) ==
    /\ \A e \in ToSet(items) : Editable(edited.doc, e, FALSE, ~locked)
    /\ Execute([edited.doc EXCEPT !.look = [e \in ElementIds |->
                  IF Contains(items, e) THEN [@[e] EXCEPT !.locked = locked] ELSE @[e]]], Other)
Rewrite(e) ==
    /\ Editable(edited.doc, e, FALSE, FALSE)
    /\ Execute([edited.doc EXCEPT !.look[e].text = "new"], Other)
Restyle(items, style) ==
    /\ \A e \in ToSet(items) : Editable(edited.doc, e, FALSE, FALSE)
    /\ Execute([edited.doc EXCEPT !.look = [e \in ElementIds |->
                  IF Contains(items, e) THEN [@[e] EXCEPT !.style = style] ELSE @[e]]], Other)
Behave(e, behavior) ==
    /\ Editable(edited.doc, e, TRUE, FALSE)
    /\ Execute([edited.doc EXCEPT !.look[e].behavior = behavior], Other)
ReplaceImage(e, asset) ==
    /\ Editable(edited.doc, e, FALSE, FALSE) /\ edited.doc.look[e].kind = "image"
    /\ Registered(edited.doc, asset)
    /\ Execute([edited.doc EXCEPT !.look[e].asset = asset[1], !.assets = @ \cup {asset}], Other)

Copying(source, ids) == [kind |-> "copy", items |-> CopiedFrom(source, ids), at |-> 0,
                         copies |-> [i \in 1 .. Len(CopiedFrom(source, ids)) |-> FreshIds(source)[i]]]

Duplicate(items) ==
    LET d == edited.doc
        p == ParentOf(d, items[1])
    IN  /\ AllEditable(d, items) /\ Siblings(d, items) /\ AllFlow(d, items) /\ MayCopy(d, items)
        /\ Execute(Materialized(d, d, items, p, IndexIn(d.kids[p], items[Len(items)])), Copying(d, items))

\* Paste at the end of p; a composition of the catalog is pasted whole.
PasteFrom(source, ids, p) ==
    LET d == edited.doc
    IN  /\ Accepting(d, p) /\ AllFlow(source, ids) /\ MayCopy(source, ids)
        /\ Execute(Materialized(d, source, ids, p, Len(d.kids[p])),
                   Copying(source, ids))
Paste(p) == shelf # NoShelf /\ PasteFrom(shelf.source, shelf.ids, p)
InsertComposition(c, p) == PasteFrom(c, c.kids[Page0], p)

\* copy(); a copy also outlives every later change of the document.
CopySelection(items) ==
    /\ shelf = NoShelf
    /\ shelf' = [source |-> edited.doc, ids |-> items]
    /\ UNCHANGED edited

\* Undo; that the history is kept in step is PuckBridge's, and so is Redo.
UndoTree == /\ edited.past # << >>
            /\ edited' = [doc |-> Last(edited.past), past |-> Front(edited.past),
                          last |-> NoStep]
            /\ UNCHANGED shelf

ElementTreeNext ==
    LET d == edited.doc
        selections == Selections
    IN  \/ /\ Len(edited.past) < MaxCommands
           /\ \/ \E items \in selections :
                   \/ \E p \in Places(d) : \E i \in 0 .. Len(d.kids[p]) : Move(items, p, i)
                   \/ Delete(items) \/ Group(items) \/ Ungroup(items) \/ Duplicate(items)
                   \/ \E locked \in BOOLEAN : Lock(items, locked)
                   \/ /\ Len(items) = 1
                      /\ \E style \in {"plain", "flex", "relative", "absolute"} : Restyle(items, style)
                   \/ items \in Copied /\ CopySelection(items)
              \/ \E e \in InTree(d) :
                   \/ \E p \in Places(d) : \E j \in 0 .. Len(d.kids[p]) : Drag(e, p, j)
                   \/ Rewrite(e)
                   \/ \E b \in {<< >>} \cup (InTree(d) \X InTree(d)) : Behave(e, b)
                   \/ \E a \in TreeAssets : ReplaceImage(e, a)
              \/ \E p \in Places(d) :
                   \/ Paste(p)
                   \/ \E c \in Compositions : InsertComposition(c, p)
                   \/ InsertElement([Blank EXCEPT !.kind = "box"], {}, p)
                   \/ \E a \in TreeAssets :
                        InsertElement([Blank EXCEPT !.kind = "image", !.asset = a[1]], {a}, p)
        \/ UndoTree

ElementTreeSpec == ElementTreeInit /\ [][ElementTreeNext]_treeVars
-----------------------------------------------------------------------------
(* Properties *)

\* Every variable keeps its type and the document is one that can be saved.
ElementTreeTypeOK == /\ edited \in Edited /\ shelf \in Shelf
                     /\ ValidTree(edited.doc)

Commanded == Len(edited'.past) > Len(edited.past)

\* Whatever command is given, a locked element stays where it is with all that is
\* inside, whole; but for its own unlocking, which nothing locked is above (잠금).
LockedIsLeftAlone ==
    [][Commanded => \A e \in ElementIds :
         edited.doc.look[e].locked =>
           /\ e \in InTree(edited'.doc)
           /\ ParentOf(edited'.doc, e) = ParentOf(edited.doc, e)
           /\ Below(edited'.doc)[e] = Below(edited.doc)[e]
           /\ \A k \in Inside(edited.doc, e) : edited'.doc.look[k] = edited.doc.look[k]
           /\ \/ edited'.doc.look[e] = edited.doc.look[e]
              \/ /\ \A p \in Above(edited.doc, e) : ~edited.doc.look[p].locked
                 /\ edited'.doc.look[e] = [edited.doc.look[e] EXCEPT !.locked = FALSE]]_treeVars

\* What is moved comes to stand together before the element it was dropped before,
\* in reading order, and nothing else changes its place; a new group that is
\* taken apart again leaves the page as it was; and a drag that the rules allow
\* is never refused because Puck and the command count differently.
NothingElseMoves ==
    [][/\ Commanded /\ edited'.last.kind = "move" =>
            LET items == edited'.last.items
                p == ParentOf(edited'.doc, items[1])
                first == IndexIn(edited'.doc.kids[p], items[1])
            IN  /\ SubSeq(edited'.doc.kids[p], first, first + Len(items) - 1) = items
                /\ \A h \in Holders : WithoutItems(edited'.doc.kids[h], items)
                                        = WithoutItems(edited.doc.kids[h], items)
                /\ SubSeq(edited'.doc.kids[p], 1, first - 1)
                     = WithoutItems(SubSeq(edited.doc.kids[p], 1, edited'.last.at), items)
       /\ Commanded /\ edited'.last.kind = "group" =>
            Ungrouped(edited'.doc, edited'.last.copies) = edited.doc
       /\ edited'.last.kind # "refused"]_treeVars

\* A copy refers to itself and not to what it was copied from, shows the same
\* pictures, and leaves the elements that were there before as they were,
\* wherever it comes from and whatever became of that in between.
CopiesStandAlone ==
    [][edited'.last.kind = "copy" /\ Commanded =>
         LET from == ToSet(edited'.last.items)
             new == ToSet(edited'.last.copies)
             d == edited'.doc
         IN  /\ \A e \in new :
                  /\ d.look[e].link \notin from
                  /\ ToSet(d.look[e].behavior) \subseteq new
             /\ \A e \in InTree(edited.doc) : d.look[e] = edited.doc.look[e]
             /\ \A a \in edited.doc.assets : {b \in d.assets : b[1] = a[1]} = {a}]_treeVars
=============================================================================
