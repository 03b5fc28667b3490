----------------------------- MODULE MCRepository -----------------------------
(* Repository with the manifest, which Restic reads as it goes, and a list. *)
EXTENDS Repository

CONSTANTS g, h

Windows == {g, h}
TwoParts == <<"manifest", "sources">>
=============================================================================
