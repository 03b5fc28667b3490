---------------------------- MODULE MCCredentials ----------------------------
(* A backup with an external password file, and a request with a given password
   that only reads. *)
EXTENDS Credentials

Two == {"backup", "reader"}
=============================================================================
