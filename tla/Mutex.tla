------------------------------- MODULE Mutex -------------------------------
(***************************************************************************)
(* The sleeping mutex of packages/ostd/src/sync/mutex.rs on a wait queue.  *)
(* Threads call lock() and try_lock() and drop the guard, for ever and in  *)
(* any order; lock() is WaitQueue::wait_until with try_lock as condition.  *)
(***************************************************************************)
EXTENDS WaitQueue

VARIABLE lock   \* the AtomicBool

vars == <<lock, wqVars>>

PCs == {"idle", "lock", "new_pair", "enqueue", "enqueue_add", "retry", "wait",
        "park", "drop_waiter", "held", "wake", "pop", "pop_sub", "wake_up",
        "unpark"}

Init == WaitQueueInit /\ lock = FALSE

----------------------------------------------------------------------------
\* Mutant: the exchange does not store.
AcquireWithoutStore(t, acquired, failed) ==
    /\ Goto(t, IF lock THEN failed ELSE acquired)
    /\ UNCHANGED <<lock, num_wakers, wakers, wakers_lock, has_woken, waiter,
                   popped, parked>>

\* acquire_lock: compare_exchange(false, true).
AcquireLock(t, acquired, failed) ==
    /\ lock' = TRUE
    /\ Goto(t, IF lock THEN failed ELSE acquired)
    /\ UNCHANGED <<num_wakers, wakers, wakers_lock, has_woken, waiter,
                   popped, parked>>

TryLock(t) == Runs(t, "idle") /\ AcquireLock(t, "held", "idle")

\* lock(): enter wait_until.
Lock(t) ==
    /\ Runs(t, "idle")
    /\ Goto(t, "lock")
    /\ UNCHANGED <<lock, num_wakers, wakers, wakers_lock, has_woken,
                   waiter, popped, parked>>

\* The condition before the waiter exists, and the one after each enqueue.
FirstTry(t) == Runs(t, "lock") /\ AcquireLock(t, "held", "new_pair")
Retry(t) == Runs(t, "retry") /\ AcquireLock(t, "drop_waiter", "wait")

\* wait_until returns the guard: the waiter is dropped.
ReturnGuard(t) == /\ Runs(t, "drop_waiter")
                  /\ DropWaiter(t, "held")
                  /\ UNCHANGED lock

\* Mutant: unlock() does not call wake_one().
UnlockWithoutWake(t) ==
    /\ Runs(t, "held")
    /\ lock' = FALSE
    /\ Goto(t, "idle")
    /\ UNCHANGED <<num_wakers, wakers, wakers_lock, has_woken, waiter,
                   popped, parked>>

\* Drop for MutexGuard: unlock() is release_lock() and then wake_one().
Unlock(t) ==
    /\ Runs(t, "held")
    /\ lock' = FALSE
    /\ Goto(t, "wake")
    /\ UNCHANGED <<num_wakers, wakers, wakers_lock, has_woken, waiter,
                   popped, parked>>

QueueStep(t) ==
    /\ \/ NewPair(t) \/ EnqueuePush(t) \/ EnqueueAdd(t)
       \/ DoWait(t) \/ ParkCurrent(t)
       \/ IsEmpty(t, "idle") \/ PopFront(t, "idle") \/ PopSub(t)
       \/ WakeUp(t) \/ UnparkTarget(t, "idle")
    /\ UNCHANGED lock

\* What a thread does once it is inside lock() or unlock().
Continue(t) == FirstTry(t) \/ Retry(t) \/ ReturnGuard(t) \/ QueueStep(t)

Next == \E t \in Threads : TryLock(t) \/ Lock(t) \/ Unlock(t) \/ Continue(t)

Spec == Init /\ [][Next]_vars

\* Every runnable thread inside a call keeps running (the kernel's scheduling
\* classes are preemptive).  Nobody has to call lock() or to drop a guard.
FairSpec == Spec /\ \A t \in Threads : WF_vars(Continue(t))

----------------------------------------------------------------------------
TypeOK == /\ WaitQueueTypeOK(PCs)
          /\ lock \in BOOLEAN

Holders == {t \in Threads : pc[t] \in {"drop_waiter", "held"}}

\* At most one thread is between a successful acquire_lock and release_lock,
\* and the AtomicBool is set exactly while there is one.
Exclusion == /\ \A s, t \in Holders : s = t
             /\ lock <=> Holders # {}

\* The release of the mutex is never missed: when the mutex is free and no
\* thread is inside lock() or unlock() any more, no thread is left asleep.
\* It relates the bool, the queue, the wakers and the run queue.
NoLostWakeup ==
    (~lock /\ \A t \in Threads : pc[t] = "idle" \/ t \in parked) => parked = {}

----------------------------------------------------------------------------
(* The inductive invariant behind NoLostWakeup *)

\* Each part of the state that belongs to a point of the code is there at
\* exactly that point.
Bookkeeping ==
    /\ \A t \in Threads :
        /\ waiter[t] # NoWaker <=> pc[t] \in {"enqueue", "enqueue_add", "retry",
                                             "wait", "park", "drop_waiter"}
        /\ waiter[t] # NoWaker => task[waiter[t]] = t
        /\ popped[t] # NoWaker <=> pc[t] \in {"pop_sub", "wake_up", "unpark"}
        /\ wakers_lock = t <=> pc[t] \in {"enqueue_add", "pop_sub"}
        /\ t \in parked => pc[t] = "wait"
    /\ \A w \in Wakers : has_woken[w] \/ waiter[task[w]] = w

\* num_wakers lags behind the length of the queue only inside the lock.
CountOfWakers ==
    /\ wakers_lock = NoThread => num_wakers = Len(wakers)
    /\ wakers_lock # NoThread =>
         IF pc[wakers_lock] = "enqueue_add" THEN Len(wakers) = num_wakers + 1
                                            ELSE num_wakers = Len(wakers) + 1

\* A thread that may sleep without having been woken can still be woken: its
\* waker is in the queue, or somebody has just taken it out.
Registered ==
    \A t \in Threads :
        pc[t] \in {"enqueue_add", "retry", "wait", "park"} /\ ~has_woken[waiter[t]]
            => \/ Occurs(waiter[t], wakers)
               \/ \E u \in Threads : popped[u] = waiter[t] /\ pc[u] \in {"pop_sub", "wake_up"}

\* A thread that was woken while it was parked is about to be unparked.
UnparkPending ==
    \A t \in parked :
        has_woken[waiter[t]]
            => \E u \in Threads : pc[u] = "unpark" /\ popped[u] = waiter[t]

Asleep(t) == pc[t] \in {"wait", "park"} /\ ~has_woken[waiter[t]]

\* Threads that will try the lock, or look for somebody to wake, before they rest.
Active(t) == \/ pc[t] \in {"enqueue", "enqueue_add", "retry", "wake", "pop",
                           "pop_sub", "wake_up"}
             \/ pc[t] \in {"wait", "park"} /\ has_woken[waiter[t]]

\* While somebody sleeps, the mutex is held or somebody is still active.
SomebodyActs ==
    (\E t \in Threads : Asleep(t)) => lock \/ \E u \in Threads : Active(u)

\* The argument that a release is never missed, as an inductive invariant: a
\* sleeper stays reachable from the queue while the mutex is held or busy.
WakeupInv == /\ TypeOK /\ Exclusion /\ Bookkeeping /\ CountOfWakers
             /\ Registered /\ UnparkPending /\ SomebodyActs

----------------------------------------------------------------------------
(* Refinement of AbstractMutex *)

\* The waker belongs to a Waiter that has not been dropped.
Live(w) == w \in Wakers /\ waiter[task[w]] = w

\* An entry counts as enqueued when num_wakers does, since the fast path of
\* wake_one reads nothing else.
AbsQueue ==
    LET counted == IF wakers_lock # NoThread /\ pc[wakers_lock] = "enqueue_add"
                   THEN SubSeq(wakers, 1, Len(wakers) - 1)
                   ELSE wakers
        live == SelectSeq(counted, Live)
    IN [i \in 1..Len(live) |-> task[live[i]]]

AbsWoken == {t \in Threads : waiter[t] # NoWaker /\ has_woken[waiter[t]]}

\* A waker that is taken out is handed over when its has_woken is set.
AbsPopped == [t \in Threads |-> IF pc[t] \in {"pop_sub", "wake_up"} /\ Live(popped[t])
                                THEN task[popped[t]] ELSE NoThread]

AbsPc == [t \in Threads |->
             CASE pc[t] \in {"new_pair", "enqueue_add"} -> "enqueue"
               [] pc[t] = "park" -> "wait"
               [] pc[t] = "wake" -> "pop"
               [] pc[t] \in {"pop_sub", "wake_up"} ->
                      IF Live(popped[t]) THEN "wake_up" ELSE "pop"
               [] pc[t] = "unpark" -> "idle"
               [] OTHER -> pc[t]]

Abs == INSTANCE AbstractMutex
           WITH queue <- AbsQueue, woken <- AbsWoken, popped <- AbsPopped, pc <- AbsPc

\* The steps of wait.rs and mutex.rs implement the abstract mutex: the fast
\* path on num_wakers, the closed wakers in the queue, the window between
\* has_woken and unpark, and the re-check in park_current are invisible.
ImplementsAbstractMutex == Abs!Spec

----------------------------------------------------------------------------
\* A thread inside lock() gets the mutex once the others have stopped using it.
Served(t) == (<>[](\A u \in Threads \ {t} : pc[u] = "idle"))
                 => (pc[t] = "lock" ~> pc[t] = "held")

\* A locker is served once the other threads have stopped using the mutex.
\* The threads are interchangeable, so any one of them stands for all.
LockerIsServed == Served(CHOOSE t \in Threads : TRUE)
=============================================================================
