------------------------------- MODULE Futex -------------------------------
(***************************************************************************)
(* Futexes, kernel/src/process/posix_thread/futex.rs, with the interrupt-  *)
(* ible sleep of kernel/src/process/signal/pause.rs.                       *)
(*                                                                         *)
(* A member of Futexes is a FutexIdentity: identities match when they are  *)
(* equal, and `hash` gives the bucket.  A bitset is a set of bits.  A      *)
(* thread has at most one live waker, so an item names its waker by the    *)
(* thread; the items that a returning thread leaves behind hold a closed   *)
(* waker, which nobody can tell from another, and are renamed to Closed.   *)
(*                                                                         *)
(* The two critical sections that look at a futex word are split where     *)
(* user space can interfere: futex_wait loads the word and adds the item   *)
(* in two steps, and lock_bucket_pairs takes its locks one by one.         *)
(***************************************************************************)
EXTENDS Naturals, Sequences, FiniteSets, SequencesExt

CONSTANTS Waiters,    \* threads that call futex_wait
          Callers,    \* threads that call the other operations
          Futexes,    \* futex identities
          hash,       \* the bucket of each
          Values,     \* contents of futex words
          Bits,       \* the bits of a bitset
          Bitsets,    \* the bitsets that callers pass
          WakeCounts, \* the numbers of wakes that callers ask for
          RequeueCounts,   \* and of requeues
          Interrupts, \* what can end a wait, of "timeout" and "signal"
          MaxStale,   \* bound on the items with a closed waker
          MaxKicks,   \* bound on the senders that are about to wake a thread
          NoThread, NoValue

Threads == Waiters \cup Callers
Buckets == {hash[k] : k \in Futexes}

ASSUME FutexAssumption ==
    /\ NoThread \notin Threads /\ NoValue \notin Values
    /\ hash \in [Futexes -> Nat]
    /\ Bitsets \subseteq (SUBSET Bits) \ {{}}
    /\ WakeCounts \subseteq Nat \ {0}   \* futex_val_to_max_count
    /\ RequeueCounts \subseteq Nat
    /\ Interrupts \subseteq {"timeout", "signal"}
    /\ MaxStale \in Nat /\ MaxKicks \in Nat

VARIABLES word,     \* the futex words in user memory
          items,    \* FutexBucket::items of each bucket
          lock,     \* the spin lock of each bucket
          woken,    \* threads whose live waker has has_woken set
          timer,    \* the timer of pause_timeout
          pending,  \* threads with a pending signal
          kicks,    \* how often wake_signalled_waker will still be called for a thread
          signalled, \* threads whose signalled_waker is set
          call,     \* the arguments of the operation a thread is in
          pc,
          got,      \* ghost: waiters that an operation on futexes has woken
          owed      \* ghost: words stored to since the last exhaustive wake

futexVars == <<word, items, lock>>
pauseVars == <<woken, timer, pending, kicks, signalled>>
ghostVars == <<got, owed>>
vars == <<futexVars, pauseVars, call, pc, ghostVars>>

NoCall == [op |-> "none"]
MatchAny == Bits          \* FUTEX_BITSET_MATCH_ANY
Closed == NoThread        \* the waker of a Waiter that was dropped

Goto(t, to) == pc' = [pc EXCEPT ![t] = to]

Init == /\ word \in [Futexes -> Values]
        /\ items = [b \in Buckets |-> <<>>]
        /\ lock = [b \in Buckets |-> NoThread]
        /\ woken = {} /\ pending = {} /\ signalled = {}
        /\ kicks = [t \in Waiters |-> 0]
        /\ timer = [t \in Waiters |-> "none"]
        /\ call = [t \in Threads |-> NoCall]
        /\ pc = [t \in Threads |-> "idle"]
        /\ got = {} /\ owed = {}

----------------------------------------------------------------------------
(* Buckets *)

MatchUp(item, key, bits) == item.key = key /\ item.bits \cap bits # {}

\* The first n items for which P holds, and the others: what retain and
\* extract_if do with their closures.
Split(queue, P(_), n) ==
    FoldLeft(LAMBDA acc, item :
                 IF P(item) /\ Len(acc.taken) < n
                 THEN [acc EXCEPT !.taken = Append(@, item)]
                 ELSE [acc EXCEPT !.kept = Append(@, item)],
             [taken |-> <<>>, kept |-> <<>>], queue)

\* remove_and_wake_items.  wake_up fails for a waker that is woken or closed,
\* and the item stays where it is.
WakeItems(queue, key, bits, n) ==
    Split(queue, LAMBDA item : /\ MatchUp(item, key, bits)
                               /\ item.waker \notin woken \cup {Closed}, n)

\* The key of the item of thread t, if it has one.
KeysOf(t, buckets) ==
    UNION {{buckets[b][i].key : i \in {j \in DOMAIN buckets[b] : buckets[b][j].waker = t}} :
              b \in Buckets}

WakersOf(queue) == {queue[i].waker : i \in DOMAIN queue}

\* Whether a wake left nobody behind that it could have woken.
Exhaustive(split, bits, n) == bits = MatchAny /\ Len(split.taken) < n

\* Mutant: the item moves, but keeps its key.
MoveOnly(item, key) == item

Rekey(item, key) == [item EXCEPT !.key = key, !.bits = MatchAny]

\* Mutant: the items that are taken are not counted.
ExtractUncounted(queue, key, n) ==
    Split(queue, LAMBDA item : MatchUp(item, key, MatchAny), IF n = 0 THEN 0 ELSE Len(queue))

\* What requeue_items_to_another_bucket takes out of the first bucket.
ExtractItems(queue, key, n) ==
    Split(queue, LAMBDA item : MatchUp(item, key, MatchAny), n)

\* update_item_keys: the count is compared after the item has been changed.
UpdateItemKeys(queue, key, newKey, n) ==
    FoldLeft(LAMBDA acc, item :
                 IF acc.stop THEN [acc EXCEPT !.queue = Append(@, item)]
                 ELSE LET hit == MatchUp(item, key, MatchAny)
                          count == acc.count + (IF hit THEN 1 ELSE 0)
                      IN [queue |-> Append(acc.queue, IF hit THEN Rekey(item, newKey) ELSE item),
                          count |-> count, stop |-> count >= n],
             [queue |-> <<>>, count |-> 0, stop |-> FALSE], queue).queue

\* remove_by_waker: swap_remove moves the last item into the hole.
SwapRemove(queue, i) ==
    [j \in 1..(Len(queue) - 1) |-> IF j = i THEN queue[Len(queue)] ELSE queue[j]]

----------------------------------------------------------------------------
(* futex_wait *)

Stale == UNION {{<<b, i>> : i \in {j \in DOMAIN items[b] : items[b][j].waker = Closed}} :
                   b \in Buckets}

\* Mutant: the word is loaded before the bucket is locked.
LoadWithoutLock(t, k, bits, timeout) ==
    /\ pc[t] = "idle"
    /\ Cardinality(Stale) < MaxStale
    /\ call' = [call EXCEPT ![t] = [op |-> "wait", key |-> k, val |-> word[k], bits |-> bits]]
    /\ timer' = [timer EXCEPT ![t] = timeout]
    /\ Goto(t, "add")
    /\ UNCHANGED <<futexVars, woken, pending, kicks, signalled, ghostVars>>

\* futex_wait, up to the load of the word with the bucket locked.  A caller
\* that finds another value than it expects returns EAGAIN, and one whose page
\* fault cannot be handled EFAULT, and nothing has changed.
FutexWait(t, k, bits, timeout) ==
    /\ pc[t] = "idle"
    /\ Cardinality(Stale) < MaxStale
    /\ lock[hash[k]] = NoThread
    /\ lock' = [lock EXCEPT ![hash[k]] = t]
    /\ call' = [call EXCEPT ![t] = [op |-> "wait", key |-> k, val |-> word[k], bits |-> bits]]
    /\ timer' = [timer EXCEPT ![t] = timeout]
    /\ Goto(t, "add")
    /\ UNCHANGED <<word, items, woken, pending, kicks, signalled, ghostVars>>

\* Mutant: the bucket stays locked.
AddWithoutUnlock(t) ==
    LET b == hash[call[t].key]
    IN /\ pc[t] = "add"
       /\ items' = [items EXCEPT ![b] =
                       Append(@, [key |-> call[t].key, bits |-> call[t].bits, waker |-> t])]
       /\ Goto(t, "pause")
       /\ UNCHANGED <<word, lock, pauseVars, call, ghostVars>>

\* The item is added and the bucket unlocked, before the thread goes to sleep.
AddItem(t) ==
    LET b == hash[call[t].key]
    IN /\ pc[t] = "add"
       /\ items' = [items EXCEPT ![b] =
                       Append(@, [key |-> call[t].key, bits |-> call[t].bits, waker |-> t])]
       /\ lock' = [lock EXCEPT ![b] = NoThread]
       /\ Goto(t, "pause")
       /\ UNCHANGED <<word, pauseVars, call, ghostVars>>

\* Mutant: the item is left in the bucket.
LeaveItem(t) == /\ pc[t] = "remove"
                /\ Goto(t, "drop")
                /\ UNCHANGED <<futexVars, pauseVars, call, ghostVars>>

\* After pause_timeout, however it ended: take the item out of the bucket the
\* key was in.  If it is not there the call reports success.
RemoveByWaker(t) ==
    LET b == hash[call[t].key]
        found == {i \in DOMAIN items[b] : items[b][i].waker = t}
    IN /\ pc[t] = "remove"
       /\ lock[b] = NoThread
       /\ items' = IF found = {} THEN items
                   ELSE [items EXCEPT ![b] = SwapRemove(@, CHOOSE i \in found : TRUE)]
       /\ Goto(t, "drop")
       /\ UNCHANGED <<word, lock, pauseVars, call, ghostVars>>

\* The Waiter is dropped, and its waker closed wherever an item still has it;
\* a timer that fires later wakes a closed waker.
DropWaiter(t) ==
    LET Close(item) == IF item.waker = t THEN [item EXCEPT !.waker = Closed] ELSE item
    IN /\ pc[t] = "drop"
       /\ items' = [b \in Buckets |-> [i \in DOMAIN items[b] |-> Close(items[b][i])]]
       /\ call' = [call EXCEPT ![t] = NoCall]
       /\ timer' = [timer EXCEPT ![t] = "none"]
       /\ woken' = woken \ {t}
       /\ got' = got \ {t}
       /\ Goto(t, "idle")
       /\ UNCHANGED <<word, lock, pending, kicks, signalled, owed>>

----------------------------------------------------------------------------
(* pause_timeout *)

\* check_expired, create_timer and set_signalled_waker.
PauseTimeout(t) ==
    /\ pc[t] = "pause"
    /\ IF timer[t] = "expired"
       THEN Goto(t, "remove") /\ UNCHANGED signalled
       ELSE Goto(t, "has_pending") /\ signalled' = signalled \cup {t}
    /\ UNCHANGED <<futexVars, woken, timer, pending, kicks, call, ghostVars>>

\* Mutant: pending signals are not looked at again.
SkipHasPending(t) ==
    /\ pc[t] = "has_pending"
    /\ Goto(t, "wait")
    /\ UNCHANGED <<futexVars, pauseVars, call, ghostVars>>

\* The check that comes after set_signalled_waker.
HasPending(t) ==
    /\ pc[t] = "has_pending"
    /\ IF t \in pending
       THEN signalled' = signalled \ {t} /\ Goto(t, "remove")
       ELSE UNCHANGED signalled /\ Goto(t, "wait")
    /\ UNCHANGED <<futexVars, woken, timer, pending, kicks, call, ghostVars>>

\* Waiter::wait returns.
Wait(t) ==
    /\ pc[t] = "wait"
    /\ t \in woken
    /\ woken' = woken \ {t}
    /\ Goto(t, "clear")
    /\ UNCHANGED <<futexVars, timer, pending, kicks, signalled, call, ghostVars>>

\* clear_signalled_waker; a timer that has time left is cancelled.  ETIME,
\* EINTR and Ok differ only in the error that the call may report.
EndPause(t) ==
    /\ pc[t] = "clear"
    /\ signalled' = signalled \ {t}
    /\ timer' = [timer EXCEPT ![t] = IF @ = "running" THEN "none" ELSE @]
    /\ Goto(t, "remove")
    /\ UNCHANGED <<futexVars, woken, pending, kicks, call, ghostVars>>

\* The time is over; a moment later the callback of a created timer runs.
TimerExpires(t) ==
    /\ timer[t] = "running"
    /\ timer' = [timer EXCEPT ![t] = "expired"]
    /\ UNCHANGED <<futexVars, woken, pending, kicks, signalled, call, pc, ghostVars>>

\* Mutant: the callback does not wake the waker.
IdleCallback(t) ==
    /\ timer[t] = "expired"
    /\ pc[t] \in {"has_pending", "wait", "clear", "remove", "drop"}
    /\ timer' = [timer EXCEPT ![t] = "fired"]
    /\ UNCHANGED <<futexVars, woken, pending, kicks, signalled, call, pc, ghostVars>>

TimerCallback(t) ==
    /\ timer[t] = "expired"
    /\ pc[t] \in {"has_pending", "wait", "clear", "remove", "drop"}
    /\ timer' = [timer EXCEPT ![t] = "fired"]
    /\ woken' = woken \cup {t}
    /\ UNCHANGED <<futexVars, pending, kicks, signalled, call, pc, ghostVars>>

\* enqueue_signal queues a signal and then wakes the signalled waker; resume
\* wakes it without a signal.  Several senders may be between the two steps.
\* The process of a thread that still runs is not a zombie, so the early return
\* of enqueue_signal is not taken.
Signal(t, isSignal) ==
    /\ "signal" \in Interrupts
    /\ kicks[t] < MaxKicks
    /\ pending' = IF isSignal THEN pending \cup {t} ELSE pending
    /\ kicks' = [kicks EXCEPT ![t] = @ + 1]
    /\ UNCHANGED <<futexVars, woken, timer, signalled, call, pc, ghostVars>>

WakeSignalledWaker(t) ==
    /\ kicks[t] > 0
    /\ kicks' = [kicks EXCEPT ![t] = @ - 1]
    /\ woken' = IF t \in signalled THEN woken \cup {t} ELSE woken
    /\ UNCHANGED <<futexVars, timer, pending, signalled, call, pc, ghostVars>>

\* The signal is handled on the way back to user space.
HandleSignal(t) ==
    /\ pc[t] = "idle"
    /\ t \in pending
    /\ pending' = pending \ {t}
    /\ UNCHANGED <<futexVars, woken, timer, kicks, signalled, call, pc, ghostVars>>

----------------------------------------------------------------------------
(* futex_wake, futex_wake_op and futex_requeue *)

\* User space stores to a futex word.
Store(k, v) ==
    /\ v # word[k]
    /\ word' = [word EXCEPT ![k] = v]
    /\ owed' = owed \cup {k}
    /\ UNCHANGED <<items, lock, pauseVars, call, pc, got>>

\* The caller wakes the items that `split` took.
Wake(split) == /\ woken' = woken \cup WakersOf(split.taken)
               /\ got' = got \cup WakersOf(split.taken)

\* Mutant: woken items stay in the bucket.
WakeAndKeep(t, k, bits, n) ==
    LET split == WakeItems(items[hash[k]], k, bits, n)
    IN /\ pc[t] = "idle"
       /\ lock[hash[k]] = NoThread
       /\ Wake(split)
       /\ UNCHANGED <<futexVars, timer, pending, kicks, signalled, call, pc, owed>>

FutexWake(t, k, bits, n) ==
    LET b == hash[k]
        split == WakeItems(items[b], k, bits, n)
    IN /\ pc[t] = "idle"
       /\ lock[b] = NoThread
       /\ items' = [items EXCEPT ![b] = split.kept]
       /\ Wake(split)
       /\ owed' = IF Exhaustive(split, bits, n) THEN owed \ {k} ELSE owed
       /\ UNCHANGED <<word, lock, timer, pending, kicks, signalled, call, pc>>

\* Mutant: the buckets are locked in the order of the arguments.
ArgumentOrder(args) == <<hash[args.key], hash[args.key2]>>

\* lock_bucket_pairs: the bucket with the lower index first.
LockOrder(args) == IF hash[args.key2] < hash[args.key]
                   THEN <<hash[args.key2], hash[args.key]>>
                   ELSE <<hash[args.key], hash[args.key2]>>

SecondBucket(args) == LockOrder(args)[2]

\* Enter futex_wake_op or futex_requeue and take the first lock.  A futex_requeue
\* of an address to itself is FutexWake; two addresses may still be of the same
\* futex, in shared memory.
LockFirst(t, args) ==
    LET first == LockOrder(args)[1]
    IN /\ pc[t] = "idle"
       /\ lock[first] = NoThread
       /\ lock' = [lock EXCEPT ![first] = t]
       /\ call' = [call EXCEPT ![t] = args]
       /\ Goto(t, IF first = SecondBucket(args) THEN args.op ELSE "lock_second")
       /\ UNCHANGED <<word, items, pauseVars, ghostVars>>

LockSecond(t) ==
    LET second == SecondBucket(call[t])
    IN /\ pc[t] = "lock_second"
       /\ lock[second] = NoThread
       /\ lock' = [lock EXCEPT ![second] = t]
       /\ Goto(t, call[t].op)
       /\ UNCHANGED <<word, items, pauseVars, call, ghostVars>>

\* The operation is over and both buckets are unlocked.
Unlock(t) == /\ lock' = [b \in Buckets |-> IF lock[b] = t THEN NoThread ELSE lock[b]]
             /\ Goto(t, "idle")

\* futex_wake_op: update the word of the second futex, wake waiters of the
\* first and, if the old value compares as the caller asked, of the second.
FutexWakeOp(t, v, should_wake) ==
    LET c == call[t]
        b1 == hash[c.key]
        b2 == hash[c.key2]
        split1 == WakeItems(items[b1], c.key, MatchAny, c.n)
        items1 == [items EXCEPT ![b1] = split1.kept]
        \* a waker that the first loop took is no longer in any bucket
        split2 == WakeItems(items1[b2], c.key2, MatchAny, IF should_wake THEN c.n2 ELSE 0)
        done == {k \in {c.key} : Exhaustive(split1, MatchAny, c.n)}
                    \cup {k \in {c.key2} : should_wake /\ Exhaustive(split2, MatchAny, c.n2)}
    IN /\ pc[t] = "wake_op"
       /\ word' = [word EXCEPT ![c.key2] = v]
       /\ items' = [items1 EXCEPT ![b2] = split2.kept]
       /\ Wake([taken |-> split1.taken \o split2.taken])
       /\ owed' = (owed \cup {c.key2}) \ done
       /\ call' = [call EXCEPT ![t] = NoCall]
       /\ Unlock(t)
       /\ UNCHANGED <<timer, pending, kicks, signalled>>

\* The fault on the second word cannot be handled: EFAULT.
WakeOpFaults(t) == /\ pc[t] = "wake_op"
                   /\ call' = [call EXCEPT ![t] = NoCall]
                   /\ Unlock(t)
                   /\ UNCHANGED <<word, items, pauseVars, ghostVars>>

\* futex_requeue, and requeue_items_to_another_bucket.
FutexRequeue(t) ==
    LET c == call[t]
        b1 == hash[c.key]
        b2 == hash[c.key2]
        split == WakeItems(items[b1], c.key, MatchAny, c.n)
        moved == ExtractItems(split.kept, c.key, c.n2)
        arrive == [i \in DOMAIN moved.taken |-> Rekey(moved.taken[i], c.key2)]
        items1 == IF b1 = b2
                  THEN [items EXCEPT ![b1] = UpdateItemKeys(split.kept, c.key, c.key2, c.n2)]
                  ELSE [items EXCEPT ![b1] = moved.kept, ![b2] = @ \o arrive]
    IN /\ pc[t] = "requeue"
       /\ items' = items1
       /\ Wake(split)
       /\ Unlock(t)
       \* the value a requeued waiter expected says nothing about its new futex
       /\ call' = [u \in Threads |->
                      IF u = t THEN NoCall
                      ELSE IF KeysOf(u, items1) = KeysOf(u, items) THEN call[u]
                      ELSE [call[u] EXCEPT !.val = NoValue]]
       /\ owed' = IF Exhaustive(split, MatchAny, c.n) THEN owed \ {c.key} ELSE owed
       /\ UNCHANGED <<word, timer, pending, kicks, signalled>>

----------------------------------------------------------------------------
\* What a thread inside futex_wait does by itself.
WaitStep(t) == \/ AddItem(t) \/ PauseTimeout(t) \/ HasPending(t) \/ Wait(t)
               \/ EndPause(t) \/ RemoveByWaker(t) \/ DropWaiter(t)

CallStep(t) == \/ LockSecond(t) \/ FutexRequeue(t)
               \/ \E v \in Values, should_wake \in BOOLEAN : FutexWakeOp(t, v, should_wake)

WakeOpArgs == [op : {"wake_op"}, key : Futexes, key2 : Futexes, n : WakeCounts, n2 : WakeCounts]
RequeueArgs == [op : {"requeue"}, key : Futexes, key2 : Futexes, n : WakeCounts, n2 : RequeueCounts]

Timeouts == IF "timeout" \in Interrupts THEN {"none", "running", "expired"} ELSE {"none"}

\* A thread that calls futex_wait, its timer, and those that send it signals.
WaiterNext(t) ==
    \/ \E k \in Futexes, bits \in Bitsets, timeout \in Timeouts :
           FutexWait(t, k, bits, timeout)
    \/ WaitStep(t)
    \/ TimerExpires(t) \/ TimerCallback(t)
    \/ \E isSignal \in BOOLEAN : Signal(t, isSignal)
    \/ WakeSignalledWaker(t) \/ HandleSignal(t)

CallerNext(t) ==
    \/ \E k \in Futexes, bits \in Bitsets, n \in WakeCounts : FutexWake(t, k, bits, n)
    \/ \E args \in WakeOpArgs \cup RequeueArgs : LockFirst(t, args)
    \/ CallStep(t) \/ WakeOpFaults(t)

UserNext == \E k \in Futexes, v \in Values : Store(k, v)

Next == \/ \E t \in Waiters : WaiterNext(t)
        \/ \E t \in Callers : CallerNext(t)
        \/ UserNext

Spec == Init /\ [][Next]_vars

\* Threads inside the kernel keep running, an expired timer gets its callback
\* and a sent signal its wake-up.  Nobody has to call anything.
FairSpec == /\ Spec
            /\ \A t \in Waiters : /\ WF_vars(WaitStep(t))
                                  /\ WF_vars(TimerCallback(t))
                                  /\ WF_vars(WakeSignalledWaker(t))
            /\ \A t \in Callers : WF_vars(CallStep(t))

----------------------------------------------------------------------------
PCs == {"idle", "add", "pause", "has_pending", "wait", "clear", "remove", "drop",
        "lock_second", "wake_op", "requeue"}

\* The types; a thread has arguments exactly while it is in an operation, and
\* no bucket is locked by a thread that sleeps or has returned.
TypeOK ==
    /\ word \in [Futexes -> Values]
    /\ \A b \in Buckets : \A i \in DOMAIN items[b] :
           items[b][i] \in [key : Futexes, bits : SUBSET Bits, waker : Waiters \cup {Closed}]
    /\ lock \in [Buckets -> Threads \cup {NoThread}]
    /\ woken \cup pending \cup signalled \cup got \subseteq Waiters
    /\ kicks \in [Waiters -> 0..MaxKicks]
    /\ timer \in [Waiters -> {"none", "running", "expired", "fired"}]
    /\ pc \in [Threads -> PCs]
    /\ owed \subseteq Futexes
    /\ \A t \in Threads : pc[t] = "idle" <=> call[t] = NoCall
    /\ \A b \in Buckets :
           lock[b] # NoThread => pc[lock[b]] \in {"add", "lock_second", "wake_op", "requeue"}

Waits(t) == pc[t] \in {"pause", "has_pending", "wait"}

\* A thread that neither a futex operation nor an interrupt has woken.
Undisturbed(t) == Waits(t) /\ t \notin woken \cup got

\* The promise of futex_wait: whoever changes the word and then wakes every
\* waiter reaches all threads that went to sleep on the old value, although
\* the word is loaded and the item added in two steps of the kernel.
NoLostWakeup ==
    \A t \in Waiters :
        Undisturbed(t) /\ call[t].val # NoValue /\ word[call[t].key] # call[t].val
            => call[t].key \in owed

\* A thread that can still be woken has exactly one item, in the bucket that
\* a wake of its key looks into, however often it was requeued.
WaitersAreFindable ==
    \A t \in Waiters :
        Undisturbed(t)
            => Cardinality({<<b, i>> \in Buckets \X (1..(Cardinality(Waiters) + MaxStale)) :
                               /\ i \in DOMAIN items[b]
                               /\ items[b][i].waker = t
                               /\ hash[items[b][i].key] = b}) = 1

\* A sleeping thread has no pending signal that its sender is done with, and
\* its timer has not fired: set_signalled_waker comes before has_pending.
InterruptsAreSeen ==
    \A t \in Waiters :
        pc[t] = "wait" /\ t \notin woken
            => (t \in pending => kicks[t] > 0) /\ timer[t] # "fired"

\* The comment before the result: the item is gone from the bucket if and
\* only if a futex operation has woken the thread, and only then futex_wait
\* reports success.
OkIffWoken ==
    \A t \in Waiters :
        pc[t] = "remove"
            => (t \in got <=> ~\E i \in DOMAIN items[hash[call[t].key]] :
                                  items[hash[call[t].key]][i].waker = t)

\* The comment after pause_timeout: when a wait ends, its item is dequeued
\* and dropped; no bucket holds the item of a call that has returned.
NoStaleItems == Stale = {}

\* The comment in sys_futex: with a limit of 0 there are no requeues; in
\* general a requeue moves at most as many waiters as its caller asked for.
RequeueIsBounded ==
    [][\A t \in Callers :
           pc[t] = "requeue" /\ pc'[t] = "idle"
               => Cardinality({u \in Waiters : /\ KeysOf(u, items') # {}
                                               /\ KeysOf(u, items') # KeysOf(u, items)})
                     <= call[t].n2]_vars

\* lock_bucket_pairs never leads to a circular wait: while buckets are locked,
\* one of the holders can go on.
NoCircularWait ==
    LET holders == {lock[b] : b \in Buckets} \ {NoThread}
    IN holders # {} =>
           \E t \in holders : pc[t] = "lock_second" => lock[SecondBucket(call[t])] = NoThread

\* A waiter that was woken, timed out or signalled returns to user space once
\* the other threads have stopped using futexes.
WaiterReturns ==
    \A t \in Waiters :
        (<>[](\A u \in Threads \ {t} : pc[u] = "idle"))
            => (pc[t] # "idle" /\ (t \in got \/ timer[t] = "expired" \/ t \in pending)
                    ~> pc[t] = "idle")
=============================================================================
