--------------------------- MODULE MCSelectionPlan ---------------------------
(* Two trees for SelectionPlan, with paths as tuples of names. *)
EXTENDS SelectionPlan

Prefix(q, p) == Len(q) <= Len(p) /\ q = SubSeq(p, 1, Len(q))
MCAbove(tree) == [p \in tree |-> {q \in tree : Prefix(q, p)}]
MCNamed(tree, names) ==
  [n \in names |-> {p \in tree : \E i \in DOMAIN p : p[i] = n[1]}]

(* /, /boot, /boot/efi, /etc, a home with a cache, and the backup root *)
Tree == {<<>>, <<"boot">>, <<"boot", "efi">>, <<"etc">>, <<"etc", "f">>,
         <<"home">>, <<"home", "cache">>, <<"home", "cache", "f">>,
         <<"home", "$x">>, <<"home", "[x]">>, <<"home", "link">>,
         <<"home", "backup">>, <<"home", "backup", "f">>, <<"proc">>}
TreeDirs == {p \in Tree : p = <<>> \/ p[Len(p)] \notin {"f", "$x", "[x]", "link"}}
TreeAbove == MCAbove(Tree)
TreeNames == {<<"cache">>}
TreeNamed == MCNamed(Tree, TreeNames)
TreeRules == <<TreePattern(<<"etc">>), TreePattern(<<"boot">>),
               TreePattern(<<"boot", "efi">>), NamePattern(<<"cache">>)>>
TreeHard == {<<"proc">>}
TreeRoot == <<"home", "backup">>
TreeEtc == <<"etc">>
TreeMetadata == {<<"home", "backup", "f">>}
(* "[x]" is a text the helper refuses, "link" leads into the backup root, and "/home/$x"
   is "/home" to Restic, which has no variable x *)
TreeAdmitted == Tree \ {<<"home", "[x]">>}
TreeResolved == [p \in Tree |-> IF p = <<"home", "link">> THEN TreeRoot ELSE p]
TreeReadAs == [p \in Tree |-> IF p = <<"home", "$x">> THEN {<<"home">>} ELSE {p}]
TouchedAll == {<<>>, <<"boot">>, <<"home">>, <<"home", "cache">>,
               <<"home", "cache", "f">>, <<"home", "$x">>, <<"home", "[x]">>, <<"etc">>}
TouchedBoot == {<<"boot">>, <<"boot", "efi">>}

(* The temporary files of a cache: the rule *.tmp comes before the cache's. *)
TmpTree == {<<>>, <<"cache">>, <<"cache", "tmp">>, <<"backup">>, <<"etc">>}
TmpDirs == TmpTree \ {<<"cache", "tmp">>}
TmpAbove == MCAbove(TmpTree)
TmpNames == {<<"tmp">>, <<"cache">>}
TmpNamed == MCNamed(TmpTree, TmpNames)
TmpRules == <<NamePattern(<<"tmp">>), NamePattern(<<"cache">>)>>
TmpRoot == <<"backup">>
TmpHard == {}
TmpTouched == {<<"cache">>}
TmpMetadata == {}
TmpResolved == [p \in TmpTree |-> p]
TmpReadAs == [p \in TmpTree |-> {p}]
=============================================================================
