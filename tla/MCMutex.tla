------------------------------ MODULE MCMutex ------------------------------
(* Instances of Mutex for TLC. *)
EXTENDS Mutex

CONSTANT WakersPerThread   \* bound on the Waker objects of a thread alive at once

MCWakers == Threads \X (1..WakersPerThread)
MCTask == [w \in MCWakers |-> w[1]]
=============================================================================
