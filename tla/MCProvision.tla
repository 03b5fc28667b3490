----------------------------- MODULE MCProvision -----------------------------
(* Two windows of one user, and a request that makes its private tree. *)
EXTENDS Provision

OneUser == [a |-> "u", b |-> "u"]
=============================================================================
