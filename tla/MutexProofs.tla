---------------------------- MODULE MutexProofs ----------------------------
(***************************************************************************)
(* Proofs about Mutex for every set of threads and wakers.                 *)
(***************************************************************************)
EXTENDS Mutex, TLAPS

\* push_back adds the pushed waker to those that occur in the queue.
LEMMA OccursAppend ==
    ASSUME NEW S, NEW q \in Seq(S), NEW x \in S, NEW w
    PROVE  Occurs(w, Append(q, x)) <=> w = x \/ Occurs(w, q)
BY DEF Occurs

\* pop_front removes at most one occurrence, that of the head.
LEMMA OccursTail ==
    ASSUME NEW S, NEW q \in Seq(S), q # <<>>, NEW w
    PROVE  /\ Head(q) \in S
           /\ Tail(q) \in Seq(S)
           /\ Len(q) = Len(Tail(q)) + 1
           /\ Occurs(w, q) => w = Head(q) \/ Occurs(w, Tail(q))
<1>1. \A i \in 1..Len(Tail(q)) : Tail(q)[i] = q[i + 1]
  OBVIOUS
<1>2. ASSUME NEW i \in 1..Len(q), q[i] = w, w # Head(q)
      PROVE  Occurs(w, Tail(q))
  <2>1. i # 1
    BY <1>2
  <2>2. i - 1 \in 1..Len(Tail(q)) /\ Tail(q)[i - 1] = w
    BY <2>1, <1>1, <1>2
  <2>. QED
    BY <2>2, Zenon DEF Occurs
<1>. QED
  BY <1>2 DEF Occurs

\* The initial state satisfies the inductive invariant.
LEMMA InitInv == Init => WakeupInv
<1>. SUFFICES ASSUME Init PROVE WakeupInv
  BY Zenon
<1>. USE WaitQueueAssumption DEF Init, WaitQueueInit
<1>1. TypeOK
  <2>1. has_woken \in [Wakers -> BOOLEAN]
    BY Zenon
  <2>2. wakers \in Seq(Wakers)
    OBVIOUS
  <2>. QED
    BY <2>1, <2>2, Zenon DEF TypeOK, WaitQueueTypeOK, PCs
<1>2. Exclusion /\ Bookkeeping /\ CountOfWakers
  BY Zenon DEF Exclusion, Holders, Bookkeeping, CountOfWakers
<1>3. Registered /\ UnparkPending /\ SomebodyActs
  BY Zenon DEF Registered, UnparkPending, SomebodyActs, Asleep
<1>. QED
  BY <1>1, <1>2, <1>3, Zenon DEF WakeupInv

\* TryLock preserves it.
LEMMA TryLockInv ==
    ASSUME WakeupInv, NEW t \in Threads, TryLock(t)
    PROVE  WakeupInv'
BY WaitQueueAssumption
   DEF TryLock, AcquireLock, Runs, Goto, WakeupInv, TypeOK, WaitQueueTypeOK, PCs,
       Exclusion, Holders, Bookkeeping, CountOfWakers, Registered, UnparkPending,
       SomebodyActs, Asleep, Active

\* Lock preserves it.
LEMMA LockInv ==
    ASSUME WakeupInv, NEW t \in Threads, Lock(t)
    PROVE  WakeupInv'
BY WaitQueueAssumption
   DEF Lock, Runs, Goto, WakeupInv, TypeOK, WaitQueueTypeOK, PCs,
       Exclusion, Holders, Bookkeeping, CountOfWakers, Registered, UnparkPending,
       SomebodyActs, Asleep, Active

\* FirstTry preserves it.
LEMMA FirstTryInv ==
    ASSUME WakeupInv, NEW t \in Threads, FirstTry(t)
    PROVE  WakeupInv'
BY WaitQueueAssumption
   DEF FirstTry, AcquireLock, Runs, Goto, WakeupInv, TypeOK, WaitQueueTypeOK, PCs,
       Exclusion, Holders, Bookkeeping, CountOfWakers, Registered, UnparkPending,
       SomebodyActs, Asleep, Active

\* Retry preserves it.
LEMMA RetryInv ==
    ASSUME WakeupInv, NEW t \in Threads, Retry(t)
    PROVE  WakeupInv'
BY WaitQueueAssumption
   DEF Retry, AcquireLock, Runs, Goto, WakeupInv, TypeOK, WaitQueueTypeOK, PCs,
       Exclusion, Holders, Bookkeeping, CountOfWakers, Registered, UnparkPending,
       SomebodyActs, Asleep, Active

\* ReturnGuard preserves it.
LEMMA ReturnGuardInv ==
    ASSUME WakeupInv, NEW t \in Threads, ReturnGuard(t)
    PROVE  WakeupInv'
BY WaitQueueAssumption
   DEF ReturnGuard, DropWaiter, Runs, Goto, WakeupInv, TypeOK, WaitQueueTypeOK, PCs,
       Exclusion, Holders, Bookkeeping, CountOfWakers, Registered, UnparkPending,
       SomebodyActs, Asleep, Active

\* Unlock preserves it.
LEMMA UnlockInv ==
    ASSUME WakeupInv, NEW t \in Threads, Unlock(t)
    PROVE  WakeupInv'
<1>. USE WaitQueueAssumption DEF Runs, Goto
<1>1. TypeOK'
  BY Zenon DEF WakeupInv, Unlock, TypeOK, WaitQueueTypeOK, PCs, Bookkeeping
<1>2. Exclusion'
  BY DEF WakeupInv, Unlock, TypeOK, WaitQueueTypeOK, Exclusion, Holders
<1>3. Bookkeeping' /\ CountOfWakers' /\ Registered'
  BY DEF WakeupInv, Unlock, TypeOK, WaitQueueTypeOK, Bookkeeping, CountOfWakers,
         Registered
<1>4. UnparkPending' /\ SomebodyActs'
  BY DEF WakeupInv, Unlock, TypeOK, WaitQueueTypeOK, Bookkeeping, UnparkPending,
         SomebodyActs, Asleep, Active
<1>. QED
  BY <1>1, <1>2, <1>3, <1>4, Zenon DEF WakeupInv

\* NewPair preserves it.
LEMMA NewPairInv ==
    ASSUME WakeupInv, NEW t \in Threads, NewPair(t), UNCHANGED lock
    PROVE  WakeupInv'
<1>. USE WaitQueueAssumption DEF Runs, Goto
<1>1. TypeOK' /\ Exclusion'
  BY DEF WakeupInv, NewPair, Unreferenced, TypeOK, WaitQueueTypeOK, PCs,
         Bookkeeping, Exclusion, Holders
<1>2. Bookkeeping' /\ CountOfWakers'
  BY DEF WakeupInv, NewPair, Unreferenced, TypeOK, WaitQueueTypeOK, Bookkeeping,
         CountOfWakers
<1>3. Registered' /\ SomebodyActs'
  <2>1. Registered'
    BY DEF WakeupInv, NewPair, Unreferenced, TypeOK, WaitQueueTypeOK, Bookkeeping, Registered
  <2>2. pc' = [pc EXCEPT ![t] = "enqueue"] /\ pc \in [Threads -> PCs]
    BY Zenon DEF WakeupInv, NewPair, TypeOK, WaitQueueTypeOK
  <2>3. Active(t)'
    BY <2>2, Zenon DEF Active
  <2>. QED
    BY <2>1, <2>3, Zenon DEF SomebodyActs
<1>4. UnparkPending'
  <2>1. PICK w \in Wakers : /\ Unreferenced(w)
                            /\ has_woken' = [has_woken EXCEPT ![w] = FALSE]
                            /\ waiter' = [waiter EXCEPT ![t] = w]
    BY Zenon DEF NewPair
  <2>2. \A s \in parked : s \in Threads /\ s # t /\ waiter[s] # w /\ waiter[s] \in Wakers
    BY <2>1 DEF WakeupInv, NewPair, Unreferenced, Bookkeeping, TypeOK, WaitQueueTypeOK
  <2>3. \A s \in parked : waiter'[s] = waiter[s] /\ has_woken'[waiter[s]] = has_woken[waiter[s]]
    BY <2>1, <2>2, Zenon DEF WakeupInv, TypeOK, WaitQueueTypeOK
  <2>4. \A u \in Threads : pc[u] = "unpark" => pc'[u] = "unpark"
    BY Zenon DEF WakeupInv, NewPair, TypeOK, WaitQueueTypeOK
  <2>. QED
    BY <2>3, <2>4 DEF WakeupInv, NewPair, UnparkPending
<1>. QED
  BY <1>1, <1>2, <1>3, <1>4, Zenon DEF WakeupInv

\* EnqueuePush preserves it.
LEMMA EnqueuePushInv ==
    ASSUME WakeupInv, NEW t \in Threads, EnqueuePush(t), UNCHANGED lock
    PROVE  WakeupInv'
<1>. USE WaitQueueAssumption DEF Runs, Goto
<1>1. TypeOK' /\ Exclusion' /\ Bookkeeping' /\ CountOfWakers' /\ UnparkPending' /\ SomebodyActs'
  BY DEF WakeupInv, EnqueuePush, TypeOK, WaitQueueTypeOK, PCs, Bookkeeping,
         Exclusion, Holders, CountOfWakers, UnparkPending, SomebodyActs, Asleep,
         Active
<1>2. Registered'
  <2>1. waiter[t] \in Wakers /\ wakers \in Seq(Wakers)
    BY DEF WakeupInv, EnqueuePush, Bookkeeping, TypeOK, WaitQueueTypeOK
  <2>2. \A w : Occurs(w, wakers') <=> w = waiter[t] \/ Occurs(w, wakers)
    BY <2>1, OccursAppend, Zenon DEF EnqueuePush
  <2>. QED
    BY <2>2 DEF WakeupInv, EnqueuePush, Registered, Bookkeeping, TypeOK, WaitQueueTypeOK
<1>. QED
  BY <1>1, <1>2, Zenon DEF WakeupInv

\* EnqueueAdd preserves it.
LEMMA EnqueueAddInv ==
    ASSUME WakeupInv, NEW t \in Threads, EnqueueAdd(t), UNCHANGED lock
    PROVE  WakeupInv'
BY WaitQueueAssumption
   DEF EnqueueAdd, Runs, Goto, WakeupInv, TypeOK, WaitQueueTypeOK, PCs,
       Exclusion, Holders, Bookkeeping, CountOfWakers, Registered, UnparkPending,
       SomebodyActs, Asleep, Active

\* DoWait preserves it.
LEMMA DoWaitInv ==
    ASSUME WakeupInv, NEW t \in Threads, DoWait(t), UNCHANGED lock
    PROVE  WakeupInv'
<1>. USE WaitQueueAssumption DEF DoWait, Runs, Goto, WakeupInv, TypeOK, WaitQueueTypeOK, PCs, Bookkeeping
<1>1. TypeOK'
  BY Zenon
<1>2. Exclusion' /\ CountOfWakers'
  BY DEF Exclusion, Holders, CountOfWakers
<1>3. Bookkeeping'
  OBVIOUS
<1>4. Registered'
  BY DEF Registered
<1>5. UnparkPending'
  BY DEF UnparkPending
<1>6. SomebodyActs'
  BY DEF SomebodyActs, Asleep, Active
<1>. QED
  BY <1>1, <1>2, <1>3, <1>4, <1>5, <1>6, Zenon

\* ParkCurrent preserves it.
LEMMA ParkCurrentInv ==
    ASSUME WakeupInv, NEW t \in Threads, ParkCurrent(t), UNCHANGED lock
    PROVE  WakeupInv'
BY WaitQueueAssumption
   DEF ParkCurrent, Runs, Goto, WakeupInv, TypeOK, WaitQueueTypeOK, PCs,
       Exclusion, Holders, Bookkeeping, CountOfWakers, Registered, UnparkPending,
       SomebodyActs, Asleep, Active

\* IsEmpty preserves it.
LEMMA IsEmptyInv ==
    ASSUME WakeupInv, NEW t \in Threads, IsEmpty(t, "idle"), UNCHANGED lock
    PROVE  WakeupInv'
<1>. USE WaitQueueAssumption DEF Runs, Goto
<1>1. TypeOK' /\ Exclusion' /\ Bookkeeping' /\ CountOfWakers' /\ Registered' /\ UnparkPending'
  BY DEF WakeupInv, IsEmpty, TypeOK, WaitQueueTypeOK, PCs, Bookkeeping,
         Exclusion, Holders, CountOfWakers, Registered, UnparkPending
<1>2. SomebodyActs'
  <2>1. CASE num_wakers # 0
    BY <2>1, Zenon DEF WakeupInv, IsEmpty, SomebodyActs, Asleep, Active, TypeOK, WaitQueueTypeOK
  <2>2. CASE num_wakers = 0
    <3>1. SUFFICES ASSUME NEW s \in Threads, Asleep(s)
                   PROVE  \E u \in Threads \ {t} : Active(u)
      BY Zenon DEF WakeupInv, IsEmpty, SomebodyActs, Asleep, Active, TypeOK,
             WaitQueueTypeOK
    <3>2. CASE \E u \in Threads : pc[u] \in {"pop_sub", "wake_up"}
      BY <3>2, Zenon DEF IsEmpty, Active
    <3>3. CASE Occurs(waiter[s], wakers)
      <4>1. Len(wakers) > 0
        BY <3>3 DEF Occurs, WakeupInv, TypeOK, WaitQueueTypeOK
      <4>2. wakers_lock \in Threads /\ pc[wakers_lock] = "enqueue_add"
        BY <2>2, <4>1 DEF WakeupInv, CountOfWakers, TypeOK, WaitQueueTypeOK
      <4>. QED
        BY <4>2, Zenon DEF IsEmpty, Active
    <3>. QED
      BY <3>1, <3>2, <3>3, Zenon DEF WakeupInv, Registered, Asleep
  <2>. QED
    BY <2>1, <2>2, Zenon
<1>. QED
  BY <1>1, <1>2, Zenon DEF WakeupInv

\* PopFront preserves it.
LEMMA PopFrontInv ==
    ASSUME WakeupInv, NEW t \in Threads, PopFront(t, "idle"), UNCHANGED lock
    PROVE  WakeupInv'
<1>. USE WaitQueueAssumption DEF Runs, Goto
<1>0. /\ wakers \in Seq(Wakers)
      /\ wakers # <<>> => /\ Head(wakers) \in Wakers
                          /\ Tail(wakers) \in Seq(Wakers)
                          /\ Len(wakers) = Len(Tail(wakers)) + 1
  BY OccursTail, Zenon DEF WakeupInv, TypeOK, WaitQueueTypeOK
<1>1. Exclusion' /\ Bookkeeping' /\ CountOfWakers' /\ UnparkPending'
  BY <1>0 DEF WakeupInv, PopFront, TypeOK, WaitQueueTypeOK, PCs, Bookkeeping, Exclusion, Holders, CountOfWakers, UnparkPending
<1>2. TypeOK'
  <2>1. CASE wakers = <<>>
    BY <2>1, Zenon DEF WakeupInv, PopFront, TypeOK, WaitQueueTypeOK, PCs
  <2>2. CASE wakers # <<>>
    <3>1. wakers' = Tail(wakers) /\ popped' = [popped EXCEPT ![t] = Head(wakers)] /\ wakers_lock' = t
      BY <2>2, Zenon DEF PopFront
    <3>2. wakers' \in Seq(Wakers) /\ popped' \in [Threads -> Wakers \cup {NoWaker}]
      BY <1>0, <2>2, <3>1, Zenon DEF WakeupInv, TypeOK, WaitQueueTypeOK
    <3>3. pc' = [pc EXCEPT ![t] = "pop_sub"] /\ UNCHANGED <<num_wakers, has_woken, waiter, parked, lock>>
      BY <2>2, Zenon DEF PopFront
    <3>. QED
      BY <3>1, <3>2, <3>3, Zenon DEF WakeupInv, TypeOK, WaitQueueTypeOK, PCs
  <2>. QED
    BY <2>1, <2>2, Zenon
<1>3. Registered'
  <2>1. CASE wakers = <<>>
    BY <2>1 DEF WakeupInv, PopFront, Registered, Bookkeeping, TypeOK, WaitQueueTypeOK
  <2>2. CASE wakers # <<>>
    <3>1. \A w : Occurs(w, wakers) => w = Head(wakers) \/ Occurs(w, Tail(wakers))
      BY <1>0, <2>2, OccursTail, Zenon
    <3>2. wakers' = Tail(wakers)
      BY <2>2, Zenon DEF PopFront
    <3>. QED
      BY <2>2, <3>1, <3>2 DEF WakeupInv, PopFront, Registered, Bookkeeping, TypeOK, WaitQueueTypeOK
  <2>. QED
    BY <2>1, <2>2, Zenon
<1>4. SomebodyActs'
  <2>1. CASE wakers = <<>>
    <3>1. SUFFICES ASSUME NEW s \in Threads, Asleep(s)
                   PROVE  \E u \in Threads \ {t} : Active(u)
      BY <2>1 DEF WakeupInv, PopFront, SomebodyActs, Asleep, Active, TypeOK, WaitQueueTypeOK
    <3>2. ~Occurs(waiter[s], wakers)
      BY <2>1 DEF Occurs
    <3>3. PICK u \in Threads : pc[u] \in {"pop_sub", "wake_up"}
      BY <3>1, <3>2, Zenon DEF WakeupInv, Registered, Asleep
    <3>. QED
      BY <3>3, Zenon DEF PopFront, Active
  <2>2. CASE wakers # <<>>
    BY <2>2, Zenon DEF WakeupInv, PopFront, SomebodyActs, Asleep, Active, TypeOK, WaitQueueTypeOK
  <2>. QED
    BY <2>1, <2>2, Zenon
<1>. QED
  BY <1>1, <1>2, <1>3, <1>4, Zenon DEF WakeupInv

\* PopSub preserves it.
LEMMA PopSubInv ==
    ASSUME WakeupInv, NEW t \in Threads, PopSub(t), UNCHANGED lock
    PROVE  WakeupInv'
<1>. USE WaitQueueAssumption DEF Runs, Goto
<1>1. Exclusion' /\ Bookkeeping' /\ CountOfWakers' /\ Registered' /\ UnparkPending' /\ SomebodyActs'
  BY DEF WakeupInv, PopSub, TypeOK, WaitQueueTypeOK, PCs, Bookkeeping,
         Exclusion, Holders, CountOfWakers, Registered, UnparkPending,
         SomebodyActs, Asleep, Active
<1>2. TypeOK'
  <2>1. num_wakers = Len(wakers) + 1
    BY DEF WakeupInv, PopSub, Bookkeeping, CountOfWakers
  <2>. QED
    BY <2>1 DEF WakeupInv, PopSub, TypeOK, WaitQueueTypeOK, PCs
<1>. QED
  BY <1>1, <1>2, Zenon DEF WakeupInv

\* WakeUp preserves it.
LEMMA WakeUpInv ==
    ASSUME WakeupInv, NEW t \in Threads, WakeUp(t), UNCHANGED lock
    PROVE  WakeupInv'
<1>. USE WaitQueueAssumption DEF Runs, Goto
<1>1. TypeOK'
  BY DEF WakeupInv, WakeUp, TypeOK, WaitQueueTypeOK, PCs, Bookkeeping
<1>2. Exclusion'
  BY DEF WakeupInv, WakeUp, TypeOK, WaitQueueTypeOK, Exclusion, Holders
<1>3. Bookkeeping' /\ CountOfWakers'
  BY DEF WakeupInv, WakeUp, TypeOK, WaitQueueTypeOK, Bookkeeping, CountOfWakers
<1>4. Registered' /\ UnparkPending'
  BY DEF WakeupInv, WakeUp, TypeOK, WaitQueueTypeOK, Bookkeeping, Registered,
         UnparkPending
<1>5. SomebodyActs'
  <2>. DEFINE w == popped[t]
  <2>1. w \in Wakers /\ task[w] \in Threads
    <3>1. w # NoWaker
      BY Zenon DEF WakeupInv, WakeUp, Bookkeeping
    <3>2. w \in Wakers \cup {NoWaker}
      BY Zenon DEF WakeupInv, TypeOK, WaitQueueTypeOK
    <3>. QED
      BY <3>1, <3>2, Zenon
  <2>2. CASE has_woken[w]
    BY <2>1, <2>2, Zenon DEF WakeupInv, WakeUp, SomebodyActs, Asleep, Active, TypeOK, WaitQueueTypeOK
  <2>3. CASE ~has_woken[w]
    <3>1. waiter[task[w]] = w /\ task[w] # t
      BY <2>1, <2>3 DEF WakeupInv, WakeUp, Bookkeeping
    <3>2. pc[task[w]] \in {"enqueue", "enqueue_add", "retry", "wait", "park", "drop_waiter"}
      BY <2>1, <3>1 DEF WakeupInv, Bookkeeping
    <3>3. CASE pc[task[w]] = "drop_waiter"
      BY <2>1, <3>3, Zenon DEF WakeupInv, WakeUp, Exclusion, Holders, SomebodyActs
    <3>4. CASE pc[task[w]] # "drop_waiter"
      BY <2>1, <3>1, <3>2, <3>4
         DEF WakeupInv, WakeUp, SomebodyActs, Active, TypeOK, WaitQueueTypeOK
    <3>. QED
      BY <3>3, <3>4, Zenon
  <2>. QED
    BY <2>2, <2>3, Zenon
<1>. QED
  BY <1>1, <1>2, <1>3, <1>4, <1>5, Zenon DEF WakeupInv

\* UnparkTarget preserves it.
LEMMA UnparkTargetInv ==
    ASSUME WakeupInv, NEW t \in Threads, UnparkTarget(t, "idle"), UNCHANGED lock
    PROVE  WakeupInv'
<1>. USE WaitQueueAssumption DEF UnparkTarget, Runs, Goto, WakeupInv, TypeOK, WaitQueueTypeOK, PCs, Bookkeeping
<1>1. TypeOK'
  BY Zenon
<1>2. Exclusion' /\ CountOfWakers'
  BY DEF Exclusion, Holders, CountOfWakers
<1>3. Bookkeeping'
  OBVIOUS
<1>4. Registered'
  BY DEF Registered
<1>5. UnparkPending'
  BY DEF UnparkPending
<1>6. SomebodyActs'
  BY DEF SomebodyActs, Asleep, Active
<1>. QED
  BY <1>1, <1>2, <1>3, <1>4, <1>5, <1>6, Zenon

\* Every step of the mutex preserves the inductive invariant.
LEMMA NextInv == WakeupInv /\ [Next]_vars => WakeupInv'
<1>. SUFFICES ASSUME WakeupInv, [Next]_vars PROVE WakeupInv'
  BY Zenon
<1>1. CASE UNCHANGED vars
  BY <1>1 DEF vars, wqVars, WakeupInv, TypeOK, WaitQueueTypeOK, Exclusion, Holders,
              Bookkeeping, CountOfWakers, Registered, UnparkPending, SomebodyActs,
              Asleep, Active
<1>2. ASSUME NEW t \in Threads, TryLock(t) \/ Lock(t) \/ Unlock(t) \/ Continue(t)
      PROVE  WakeupInv'
  BY <1>2, TryLockInv, LockInv, FirstTryInv, RetryInv, ReturnGuardInv, UnlockInv,
     NewPairInv, EnqueuePushInv, EnqueueAddInv, DoWaitInv, ParkCurrentInv,
     IsEmptyInv, PopFrontInv, PopSubInv, WakeUpInv, UnparkTargetInv, Zenon
     DEF Continue, QueueStep
<1>. QED
  BY <1>1, <1>2, Zenon DEF Next

\* The inductive invariant holds in every reachable state.
THEOREM InductiveInvariant == Spec => []WakeupInv
BY InitInv, NextInv, PTL DEF Spec

\* The variables keep their types; in particular the u32 num_wakers, which
\* wake_one and wake_all decrement under the lock, never goes below zero.
THEOREM TypeCorrect == Spec => []TypeOK
<1>1. WakeupInv => TypeOK
  BY Zenon DEF WakeupInv
<1>. QED
  BY <1>1, InductiveInvariant, PTL

\* Mutex::lock and try_lock give the guard to one thread at a time.
THEOREM MutualExclusion == Spec => []Exclusion
<1>1. WakeupInv => Exclusion
  BY Zenon DEF WakeupInv
<1>. QED
  BY <1>1, InductiveInvariant, PTL

\* A thread never sleeps on a mutex that nobody holds and nobody is releasing.
THEOREM WakeupsAreNotLost == Spec => []NoLostWakeup
<1>1. WakeupInv => NoLostWakeup
  <2>. SUFFICES ASSUME WakeupInv, ~lock, NEW t \in parked,
                       \A u \in Threads : pc[u] = "idle" \/ u \in parked
                PROVE  FALSE
    BY Zenon DEF NoLostWakeup
  <2>1. t \in Threads /\ pc[t] = "wait"
    BY Zenon DEF WakeupInv, Bookkeeping, TypeOK, WaitQueueTypeOK
  <2>2. \A s \in parked : ~has_woken[waiter[s]]
    BY Zenon DEF WakeupInv, UnparkPending, Bookkeeping
  <2>3. PICK u \in Threads : Active(u)
    BY <2>1, <2>2, Zenon DEF WakeupInv, SomebodyActs, Asleep
  <2>. QED
    BY <2>2, <2>3, Zenon DEF Active, WakeupInv, Bookkeeping
<1>. QED
  BY <1>1, InductiveInvariant, PTL

=============================================================================
