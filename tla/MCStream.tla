------------------------------ MODULE MCStream -------------------------------
(* Backups of up to three lines, with a summary or without, and every order of the four
   entries of a directory, over pipes of one line and of one frame. *)
EXTENDS Stream

Line(kind) == <<kind, 0>>
Node(k) == <<"node", k>>
ShortBackups ==
  {Append(s, Line("summary")) :
     s \in UNION {[1..n -> {Line("status"), Line("bad"), Line("long")}] : n \in 0..3}}
    \cup {<<>>, <<Line("status")>>}
Orders == {s \in [1..4 -> 1..4] : \A i, j \in 1..4 : i # j => s[i] # s[j]}
ShortListings ==
  {[i \in 1..4 |-> Node(s[i])] : s \in Orders}
    \cup {<<Node(2), Line("bad"), Node(1)>>, <<Node(3), Node(1), Line("long")>>,
             <<Line("other"), Node(2), Line("other"), Node(1)>>, <<Node(1)>>, <<>>}
=============================================================================
