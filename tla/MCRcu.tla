------------------------------- MODULE MCRcu -------------------------------
(* Instances of Rcu for TLC. *)
EXTENDS Rcu
=============================================================================
