----------------------------- MODULE MCLanding -----------------------------
(* TLC instance of Landing. *)
EXTENDS Landing
=============================================================================
