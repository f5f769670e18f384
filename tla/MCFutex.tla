------------------------------ MODULE MCFutex ------------------------------
(* Instances of Futex for TLC. *)
EXTENDS Futex, TLC

CONSTANTS k1, k2

\* Two futexes that share a bucket, and two that do not.
OneBucket == k1 :> 0 @@ k2 :> 0
TwoBuckets == k1 :> 0 @@ k2 :> 1

Symmetry == Permutations(Waiters) \cup Permutations(Callers) \cup Permutations(Values)
=============================================================================
