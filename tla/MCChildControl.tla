--------------------------- MODULE MCChildControl ---------------------------
(* ChildControl on small instances. *)
EXTENDS ChildControl
=============================================================================
