----------------------------- MODULE MCRwMutex -----------------------------
(* Instances of RwMutex for TLC. *)
EXTENDS RwMutex
=============================================================================
