---------------------------- MODULE MCRepository ----------------------------
(* A small instance of Repository: two processes and two passwords.        *)
EXTENDS Repository
=============================================================================
