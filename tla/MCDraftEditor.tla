--------------------------- MODULE MCDraftEditor ---------------------------
(* Small instances of DraftEditor for TLC. *)
EXTENDS DraftEditor, TLC

CONSTANT b1

OneBrowser == [t \in Tabs |-> b1]

\* Edits have no names, and neither have tabs of one browser.
Symmetric == {p @@ q : p \in Permutations(Edits), q \in Permutations(Tabs)}
=============================================================================
