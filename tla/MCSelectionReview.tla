-------------------------- MODULE MCSelectionReview --------------------------
(* A file that becomes a directory, one that has been there all the time, and the
   backup root with the metadata; paths are tuples of names. *)
EXTENDS SelectionReview

Prefix(q, p) == Len(q) <= Len(p) /\ q = SubSeq(p, 1, Len(q))
MCAbove(tree) == [p \in tree |-> {q \in tree : Prefix(q, p)}]

Empty == {}
NoNamed == [n \in Empty |-> {}]
NoRules == <<>>
TreeRoot == <<"backup">>

Tree == {<<>>, <<"d">>, <<"e">>, <<"backup">>, <<"backup", "m">>}
TreeMetadata == {<<"backup", "m">>}
TreeDirs == {<<>>, <<"backup">>}
TreeAbove == MCAbove(Tree)
TreeItself == [p \in Tree |-> p]
TreeAsWritten == [p \in Tree |-> {p}]
TreeChosen == {<<"d">>}
TreeOld == {<<"e">>}
=============================================================================
