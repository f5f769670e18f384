----------------------------- MODULE WaitQueue -----------------------------
(***************************************************************************)
(* Wait queues, waiters and wakers: packages/ostd/src/sync/wait.rs.        *)
(*                                                                         *)
(* The module holds the state of one WaitQueue, of the Waker objects that  *)
(* threads create, and of the run queue as park_current/unpark_target see  *)
(* it, and one operator per atomic step of the methods.  It has no         *)
(* next-state relation of its own: a wait queue is only meaningful with    *)
(* the condition its users wait for.  Mutex is such a user and extends it.   *)
(*                                                                         *)
(* A step is one access to shared memory.  Code under the spin lock        *)
(* `wakers` is split where num_wakers, which is read without the lock, is  *)
(* still out of date: push_back / fetch_add and pop_front / fetch_sub are  *)
(* two steps each.  Memory is sequentially consistent in the model.        *)
(***************************************************************************)
EXTENDS Naturals, Sequences, FiniteSets

CONSTANTS Threads,    \* tasks that use the queue
          Wakers,     \* identities of Waker objects
          task,       \* Waker::task, which never changes: its creator
          NoThread,   \* the spin lock is not held
          NoWaker     \* no waiter / no popped waker

ASSUME WaitQueueAssumption == /\ NoThread \notin Threads
                              /\ NoWaker \notin Wakers
                              /\ task \in [Wakers -> Threads]

VARIABLES num_wakers,   \* AtomicU32, read by is_empty without the lock
          wakers,       \* the VecDeque<Arc<Waker>>
          wakers_lock,  \* holder of the spin lock around it
          has_woken,    \* Waker::has_woken
          waiter,       \* the live Waiter of a thread (its waker)
          popped,       \* the waker a thread inside wake_* has taken out
          parked,       \* threads that park_current took off the run queue
          pc            \* where each thread is in the code

wqVars == <<num_wakers, wakers, wakers_lock, has_woken, waiter, popped,
            parked, pc>>

Occurs(w, queue) == \E i \in 1..Len(queue) : queue[i] = w

\* Arc<Waker>: the object is free for reuse once nobody refers to it.
Unreferenced(w) == /\ ~Occurs(w, wakers)
                   /\ \A t \in Threads : waiter[t] # w /\ popped[t] # w

\* A thread takes a step only while it is on the run queue.
Runs(t, at) == t \notin parked /\ pc[t] = at

Goto(t, to) == pc' = [pc EXCEPT ![t] = to]

WaitQueueInit ==
    /\ num_wakers = 0
    /\ wakers = <<>>
    /\ wakers_lock = NoThread
    /\ has_woken = [w \in Wakers |-> TRUE]   \* no waker is live
    /\ waiter = [t \in Threads |-> NoWaker]
    /\ popped = [t \in Threads |-> NoWaker]
    /\ parked = {}
    /\ pc = [t \in Threads |-> "idle"]

----------------------------------------------------------------------------
(* Waiting *)

\* Waiter::new_pair, from wait_until after its condition failed once.
NewPair(t) ==
    /\ Runs(t, "new_pair")
    /\ \E w \in Wakers : task[w] = t /\ Unreferenced(w)
    /\ LET w == CHOOSE v \in Wakers : task[v] = t /\ Unreferenced(v)
       IN /\ has_woken' = [has_woken EXCEPT ![w] = FALSE]
          /\ waiter' = [waiter EXCEPT ![t] = w]
    /\ Goto(t, "enqueue")
    /\ UNCHANGED <<num_wakers, wakers, wakers_lock, popped, parked>>

\* WaitQueue::enqueue up to push_back, with the lock taken.
EnqueuePush(t) ==
    /\ Runs(t, "enqueue")
    /\ wakers_lock = NoThread
    /\ wakers_lock' = t
    /\ wakers' = Append(wakers, waiter[t])
    /\ Goto(t, "enqueue_add")
    /\ UNCHANGED <<num_wakers, has_woken, waiter, popped, parked>>

\* The fetch_add that ends enqueue; the lock is released.
EnqueueAdd(t) ==
    /\ Runs(t, "enqueue_add")
    /\ num_wakers' = num_wakers + 1
    /\ wakers_lock' = NoThread
    /\ Goto(t, "retry")
    /\ UNCHANGED <<wakers, has_woken, waiter, popped, parked>>

\* One evaluation of the loop condition of do_wait: consume the wake event
\* and evaluate the caller's condition again, or go on to park.
DoWait(t) ==
    /\ Runs(t, "wait")
    /\ has_woken' = [has_woken EXCEPT ![waiter[t]] = FALSE]
    /\ Goto(t, IF has_woken[waiter[t]] THEN "enqueue" ELSE "park")
    /\ UNCHANGED <<num_wakers, wakers, wakers_lock, waiter, popped, parked>>

\* Mutant: has_unparked() is not looked at under the run queue's lock.
ParkWithoutRecheck(t) ==
    /\ Runs(t, "park")
    /\ parked' = parked \cup {t}
    /\ Goto(t, "wait")
    /\ UNCHANGED <<num_wakers, wakers, wakers_lock, has_woken, waiter, popped>>

\* park_current: has_unparked() and dequeue_current run under the run queue's
\* lock.  The thread comes back to the loop condition of do_wait.
ParkCurrent(t) ==
    /\ Runs(t, "park")
    /\ parked' = IF has_woken[waiter[t]] THEN parked ELSE parked \cup {t}
    /\ Goto(t, "wait")
    /\ UNCHANGED <<num_wakers, wakers, wakers_lock, has_woken, waiter, popped>>

\* Mutant: the waker stays open after its Waiter is gone.
DropWithoutClose(t, to) ==
    /\ waiter' = [waiter EXCEPT ![t] = NoWaker]
    /\ Goto(t, to)
    /\ UNCHANGED <<num_wakers, wakers, wakers_lock, has_woken, popped, parked>>

\* Drop for Waiter: close the waker, so that a later wake_up is a no-op.
DropWaiter(t, to) ==
    /\ has_woken' = [has_woken EXCEPT ![waiter[t]] = TRUE]
    /\ waiter' = [waiter EXCEPT ![t] = NoWaker]
    /\ Goto(t, to)
    /\ UNCHANGED <<num_wakers, wakers, wakers_lock, popped, parked>>

----------------------------------------------------------------------------
(* Waking *)

\* The fast path of wake_one and wake_all; `done` is where they return to.
IsEmpty(t, done) ==
    /\ Runs(t, "wake")
    /\ Goto(t, IF num_wakers = 0 THEN done ELSE "pop")
    /\ UNCHANGED <<num_wakers, wakers, wakers_lock, has_woken, waiter,
                   popped, parked>>

\* Mutant: num_wakers is decremented although the queue was empty.
PopAndAlwaysSub(t, done) ==
    /\ Runs(t, "pop")
    /\ wakers_lock = NoThread
    /\ IF wakers = <<>>
       THEN /\ num_wakers' = num_wakers - 1
            /\ Goto(t, done)
            /\ UNCHANGED <<wakers, wakers_lock, popped>>
       ELSE /\ popped' = [popped EXCEPT ![t] = Head(wakers)]
            /\ wakers' = Tail(wakers)
            /\ wakers_lock' = t
            /\ Goto(t, "pop_sub")
            /\ UNCHANGED num_wakers
    /\ UNCHANGED <<has_woken, waiter, parked>>

\* The head of the loop of wake_one and wake_all: lock, pop_front or return.
PopFront(t, done) ==
    /\ Runs(t, "pop")
    /\ wakers_lock = NoThread
    /\ IF wakers = <<>>
       THEN /\ Goto(t, done)
            /\ UNCHANGED <<wakers, wakers_lock, popped>>
       ELSE /\ popped' = [popped EXCEPT ![t] = Head(wakers)]
            /\ wakers' = Tail(wakers)
            /\ wakers_lock' = t
            /\ Goto(t, "pop_sub")
    /\ UNCHANGED <<num_wakers, has_woken, waiter, parked>>

\* fetch_sub and drop(wakers).
PopSub(t) ==
    /\ Runs(t, "pop_sub")
    /\ num_wakers' = num_wakers - 1
    /\ wakers_lock' = NoThread
    /\ Goto(t, "wake_up")
    /\ UNCHANGED <<wakers, has_woken, waiter, popped, parked>>

\* Mutant: wake_up reports success for a waker that was woken before.
WakeUpAlwaysTrue(t) ==
    /\ Runs(t, "wake_up")
    /\ has_woken' = [has_woken EXCEPT ![popped[t]] = TRUE]
    /\ Goto(t, "unpark")
    /\ UNCHANGED <<num_wakers, wakers, wakers_lock, waiter, popped, parked>>

\* Waker::wake_up up to the swap: false sends the caller round the loop.
WakeUp(t) ==
    /\ Runs(t, "wake_up")
    /\ has_woken' = [has_woken EXCEPT ![popped[t]] = TRUE]
    /\ IF has_woken[popped[t]]
       THEN /\ popped' = [popped EXCEPT ![t] = NoWaker]
            /\ Goto(t, "pop")
       ELSE /\ UNCHANGED popped
            /\ Goto(t, "unpark")
    /\ UNCHANGED <<num_wakers, wakers, wakers_lock, waiter, parked>>

\* unpark_target: the task is put back on a run queue; nothing happens to a
\* task that is on one.  `next` is where wake_one or wake_all goes on.
UnparkTarget(t, next) ==
    /\ Runs(t, "unpark")
    /\ parked' = parked \ {task[popped[t]]}
    /\ popped' = [popped EXCEPT ![t] = NoWaker]
    /\ Goto(t, next)
    /\ UNCHANGED <<num_wakers, wakers, wakers_lock, has_woken, waiter>>

----------------------------------------------------------------------------
WaitQueueTypeOK(pcs) ==
    /\ num_wakers \in Nat
    /\ wakers \in Seq(Wakers)
    /\ wakers_lock \in Threads \cup {NoThread}
    /\ has_woken \in [Wakers -> BOOLEAN]
    /\ waiter \in [Threads -> Wakers \cup {NoWaker}]
    /\ popped \in [Threads -> Wakers \cup {NoWaker}]
    /\ parked \subseteq Threads
    /\ pc \in [Threads -> pcs]
=============================================================================
