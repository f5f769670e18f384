---------------------------- MODULE MCFutexTeams ----------------------------
(***************************************************************************)
(* Instances of Futex in which not all threads take part in a behaviour.   *)
(* Either all waiters do and one caller, which wakes and requeues: with    *)
(* three waiters, a requeue that has woken one has two left to move.  Or   *)
(* one waiter does and all callers, which wait for each other's buckets.   *)
(***************************************************************************)
EXTENDS MCFutex

VARIABLE team   \* the threads that call futex operations

ManyWaiters == Waiters \cup {CHOOSE c \in Callers : TRUE}
ManyCallers == {{w} \cup Callers : w \in Waiters}

TeamInit == Init /\ team \in {ManyWaiters} \cup ManyCallers

TeamNext == /\ \/ \E t \in Waiters \cap team : WaiterNext(t)
               \/ \E t \in Callers \cap team : CallerNext(t)
            /\ team = ManyWaiters => \A t \in Callers : call'[t].op # "wake_op"
            /\ UNCHANGED team

TeamSpec == TeamInit /\ [][TeamNext]_<<vars, team>>

\* Teams tell callers apart.
WaiterSymmetry == Permutations(Waiters)
=============================================================================
