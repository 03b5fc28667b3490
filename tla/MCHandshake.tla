----------------------------- MODULE MCHandshake -----------------------------
(* Two pages over a pipe that holds two frames. *)
EXTENDS Handshake
=============================================================================
