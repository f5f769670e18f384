--------------------------- MODULE AbstractMutex ---------------------------
(***************************************************************************)
(* The mutex of packages/ostd/src/sync/mutex.rs on the abstract wait       *)
(* queue: the specification that Mutex implements.                         *)
(***************************************************************************)
EXTENDS AbstractWaitQueue

VARIABLE lock   \* the AtomicBool

vars == <<lock, awqVars>>

Init == AbstractWaitQueueInit /\ lock = FALSE

\* acquire_lock: compare_exchange(false, true).
AcquireLock(t, at, acquired, failed) ==
    /\ pc[t] = at
    /\ lock' = TRUE
    /\ Goto(t, IF lock THEN failed ELSE acquired)
    /\ UNCHANGED queueVars

TryLock(t) == AcquireLock(t, "idle", "held", "idle")

Lock(t) == pc[t] = "idle" /\ Goto(t, "lock") /\ UNCHANGED <<lock, queueVars>>

FirstTry(t) == AcquireLock(t, "lock", "held", "enqueue")
Retry(t) == AcquireLock(t, "retry", "drop_waiter", "wait")

ReturnGuard(t) == /\ pc[t] = "drop_waiter"
                  /\ DropWaiter(t, "held")
                  /\ UNCHANGED lock

Unlock(t) == /\ pc[t] = "held"
             /\ lock' = FALSE
             /\ Goto(t, "pop")
             /\ UNCHANGED queueVars

QueueStep(t) == /\ \/ Enqueue(t) \/ Wait(t)
                   \/ Pop(t, "idle") \/ WakeUp(t, "idle")
                /\ UNCHANGED lock

Next == \E t \in Threads :
            \/ TryLock(t) \/ Lock(t) \/ FirstTry(t) \/ Retry(t)
            \/ ReturnGuard(t) \/ Unlock(t) \/ QueueStep(t)

Spec == Init /\ [][Next]_vars
=============================================================================
